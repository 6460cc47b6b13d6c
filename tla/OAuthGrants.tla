---------------------------- MODULE OAuthGrants ----------------------------
(***************************************************************************)
(* The credentials of connected clients: src/store/oauth.rs, with the      *)
(* consent of src/api/oauth.rs and revoke_token of src/store/tokens.rs.    *)
(* A person consents with a token; the code of that consent buys an access *)
(* token and a refresh token once; a refresh token is traded for the next  *)
(* pair once; what descends from one code is a family, which a second use  *)
(* of anything in it, or an operator, cuts off.                            *)
(*                                                                         *)
(* A family is named after its code.  Every stamp is the time left until   *)
(* it matters: until a row expires, or until the sweep may delete it.      *)
(* Requests that name another client, redirect or verifier are refused     *)
(* before anything is written and are left out, as are registrations,      *)
(* scopes and the expiry of the consenting token, which ends nothing.      *)
(***************************************************************************)
EXTENDS Integers, FiniteSets

CONSTANTS
    Grantors,      \* tokens people consent with
    Codes,         \* bound: codes at any one time
    Refreshes,     \* bound: rows of oauth_refresh at any one time
    Accesses,      \* bound: OAuth-issued rows of tokens at any one time
    NoGrantor,
    CodeTTL,       \* AUTH_CODE_TTL_SECONDS
    AccessTTL,     \* ACCESS_TOKEN_TTL_SECONDS, also how long spent rows are kept
    RefreshTTL,    \* REFRESH_TOKEN_TTL_SECONDS
    Retention      \* ISSUED_TOKEN_RETENTION_SECONDS

ASSUME GrantsAssumption ==
    /\ NoGrantor \notin Grantors /\ Codes # {}
    /\ CodeTTL \in Nat \ {0} /\ AccessTTL \in Nat \ {0}
    /\ RefreshTTL \in Nat \ {0} /\ Retention \in Nat

VARIABLES
    withdrawn,  \* consenting tokens that were revoked
    barred,     \* consenting tokens whose person is disabled
    checked,    \* consents whose token was looked up and whose code is not stored
    by,         \* granted_by, which code and refresh rows of a family carry along
    code,       \* oauth_codes
    refresh,    \* oauth_refresh
    access,     \* the OAuth-issued rows of tokens, with their oauth_issued
    cut         \* history: families that were cut off

grantVars == <<withdrawn, barred, checked, by, code, refresh, access, cut>>

-----------------------------------------------------------------------------
\* `left' of a row that expires, `keep' of one that is spent; below zero the
\* sweep takes the row.
AnyCode == CHOOSE k \in Codes : TRUE
NoCode == [status |-> "none", left |-> -1]
NoRefresh == [status |-> "none", family |-> AnyCode, rotated |-> FALSE,
              revoked |-> FALSE, left |-> -1, keep |-> -1]
NoAccess == [status |-> "none", family |-> AnyCode, first |-> FALSE,
             revoked |-> FALSE, left |-> -1]

GrantsInit ==
    /\ withdrawn = {} /\ barred = {} /\ checked = {} /\ cut = {}
    /\ by = [k \in Codes |-> NoGrantor]
    /\ code = [k \in Codes |-> NoCode]
    /\ refresh = [r \in Refreshes |-> NoRefresh]
    /\ access = [a \in Accesses |-> NoAccess]

InFamily(rows, i, k) == rows[i].status # "none" /\ rows[i].family = k

\* A family's name is free when no row bears it.
Fresh(k) == /\ code[k].status = "none"
            /\ \A r \in Refreshes : ~InFamily(refresh, r, k)
            /\ \A a \in Accesses : ~InFamily(access, a, k)

CutRefreshes(k) == [r \in Refreshes |->
    IF InFamily(refresh, r, k) /\ ~refresh[r].revoked
    THEN [refresh[r] EXCEPT !.revoked = TRUE,
                            !.keep = IF refresh[r].rotated THEN @ ELSE AccessTTL]
    ELSE refresh[r]]

\* Mutant of Cut: the ledger is not asked which tokens the family was issued.
Cut_RefreshOnly(k) ==
    /\ refresh' = CutRefreshes(k)
    /\ cut' = cut \cup {k}
    /\ UNCHANGED access

\* revoke_refresh_family.
Cut(k) ==
    /\ access' = [a \in Accesses |-> IF InFamily(access, a, k)
                                     THEN [access[a] EXCEPT !.revoked = TRUE] ELSE access[a]]
    /\ refresh' = CutRefreshes(k)
    /\ cut' = cut \cup {k}

\* Ids are drawn at random, so it does not matter which one is next.
FreeAccess == {a \in Accesses : access[a].status = "none"}
FreeRefresh == {r \in Refreshes : refresh[r].status = "none"}

\* mint_grant: an access token and a refresh token.
Mint(k, first, refreshes) ==
    LET a == CHOOSE i \in FreeAccess : TRUE
        r == CHOOSE i \in FreeRefresh : TRUE
    IN  /\ FreeAccess # {} /\ FreeRefresh # {}
        /\ access' = [access EXCEPT ![a] =
            [status |-> "issued", family |-> k, first |-> first,
             revoked |-> FALSE, left |-> AccessTTL]]
        /\ refresh' = [refreshes EXCEPT ![r] =
            [status |-> "issued", family |-> k, rotated |-> FALSE,
             revoked |-> FALSE, left |-> RefreshTTL, keep |-> -1]]

\* Mutant of Consented: the person is asked for, the token is not.
Consented_Person(g) == g \notin barred

\* consent_not_revoked, and insert_token's look at the person.
Consented(g) == g \notin withdrawn /\ g \notin barred

-----------------------------------------------------------------------------
\* authorize_post reads the token, ...
Consent(g) ==
    /\ g \notin withdrawn \cup checked
    /\ checked' = checked \cup {g}
    /\ UNCHANGED <<withdrawn, barred, by, code, refresh, access, cut>>

\* ... and stores the code in a transaction of its own.
StoreCode(g, k) ==
    /\ g \in checked /\ Fresh(k)
    /\ checked' = checked \ {g}
    /\ by' = [by EXCEPT ![k] = g]
    /\ code' = [code EXCEPT ![k] = [status |-> "fresh", left |-> CodeTTL]]
    /\ cut' = cut \ {k}
    /\ UNCHANGED <<withdrawn, barred, refresh, access>>

\* exchange_oauth_code: a spent code cuts off what it bought, ...
ReplayCode(k) ==
    /\ code[k].status = "spent"
    /\ Cut(k)
    /\ UNCHANGED <<withdrawn, barred, checked, by, code>>

\* A spent row is kept as long as the access token it bought may live.
Spent(c) == [c EXCEPT !.status = "spent", !.left = AccessTTL]

\* ... a fresh one buys a pair.
Exchange(k) ==
    /\ code[k].status = "fresh" /\ code[k].left > 0 /\ Consented(by[k])
    /\ Mint(k, TRUE, refresh)
    /\ code' = [code EXCEPT ![k] = Spent(@)]
    /\ UNCHANGED <<withdrawn, barred, checked, by, cut>>

\* refresh_oauth_token: a rotated token cuts its family off, revoked or not, ...
ReuseRefresh(r) ==
    /\ refresh[r].status # "none" /\ refresh[r].rotated
    /\ Cut(refresh[r].family)
    /\ UNCHANGED <<withdrawn, barred, checked, by, code>>

\* A refresh token that can still be traded.
Rotatable(r) == /\ refresh[r].status # "none" /\ refresh[r].left > 0
                /\ ~refresh[r].rotated /\ ~refresh[r].revoked

\* ... and one that was neither used nor taken away is traded for the next pair.
Rotate(r) ==
    /\ Rotatable(r) /\ Consented(by[refresh[r].family])
    /\ Mint(refresh[r].family, FALSE,
            [refresh EXCEPT ![r].rotated = TRUE, ![r].keep = AccessTTL])
    /\ UNCHANGED <<withdrawn, barred, checked, by, code, cut>>

\* revoke_token, of a token a connection was issued: the connection ends.
RevokeIssued(a) ==
    /\ access[a].status # "none" /\ ~access[a].revoked
    /\ Cut(access[a].family)
    /\ UNCHANGED <<withdrawn, barred, checked, by, code>>

\* revoke_token, of a token somebody consents with.
Withdraw(g) ==
    /\ g \notin withdrawn
    /\ withdrawn' = withdrawn \cup {g}
    /\ UNCHANGED <<barred, checked, by, code, refresh, access, cut>>

\* A person is disabled, or enabled again.
Bar(g) ==
    /\ barred' = IF g \in barred THEN barred \ {g} ELSE barred \cup {g}
    /\ UNCHANGED <<withdrawn, checked, by, code, refresh, access, cut>>

-----------------------------------------------------------------------------
Down(n, floor) == IF n > floor THEN n - 1 ELSE n

StampsAge ==
    /\ code' = [k \in Codes |-> [code[k] EXCEPT !.left = Down(@, -1)]]
    /\ refresh' = [r \in Refreshes |->
        [refresh[r] EXCEPT !.left = Down(@, -1), !.keep = Down(@, -1)]]
    /\ access' = [a \in Accesses |->
        IF access[a].status = "none" THEN access[a]
        ELSE [access[a] EXCEPT !.left = Down(@, -1 - Retention)]]
    /\ UNCHANGED <<withdrawn, barred, checked, by, cut>>

Over(row) == row.left < 0 \/ ((row.rotated \/ row.revoked) /\ row.keep < 0)

\* sweep_expired_oauth.
SweepGrants ==
    /\ access' = [a \in Accesses |->
        IF access[a].left < -Retention THEN NoAccess ELSE access[a]]
    /\ code' = [k \in Codes |-> IF code[k].left < 0 THEN NoCode ELSE code[k]]
    /\ refresh' = [r \in Refreshes |-> IF Over(refresh[r]) THEN NoRefresh ELSE refresh[r]]
    /\ UNCHANGED <<withdrawn, barred, checked, by, cut>>

-----------------------------------------------------------------------------
GrantsNext ==
    \/ \E g \in Grantors : \/ Consent(g) \/ Withdraw(g) \/ Bar(g)
                           \/ \E k \in Codes : StoreCode(g, k)
    \/ \E k \in Codes : Exchange(k) \/ ReplayCode(k)
    \/ \E r \in Refreshes : Rotate(r) \/ ReuseRefresh(r)
    \/ \E a \in Accesses : RevokeIssued(a)
    \/ StampsAge \/ SweepGrants

\* Time passes.
GrantsFairness == WF_grantVars(StampsAge)

GrantsSpec == GrantsInit /\ [][GrantsNext]_grantVars /\ GrantsFairness

-----------------------------------------------------------------------------
CodeRows == [status : {"none", "fresh", "spent"}, left : Int]
RefreshRows == [status : {"none", "issued"}, family : Codes, rotated : BOOLEAN,
                revoked : BOOLEAN, left : Int, keep : Int]
AccessRows == [status : {"none", "issued"}, family : Codes, first : BOOLEAN,
               revoked : BOOLEAN, left : Int]

GrantsTypeOK ==
    /\ withdrawn \subseteq Grantors /\ barred \subseteq Grantors
    /\ checked \subseteq Grantors /\ cut \subseteq Codes
    /\ by \in [Codes -> Grantors \cup {NoGrantor}]
    /\ code \in [Codes -> CodeRows]
    /\ refresh \in [Refreshes -> RefreshRows]
    /\ access \in [Accesses -> AccessRows]

\* An access token that still opens doors.
Usable(a) == access[a].status # "none" /\ ~access[a].revoked /\ access[a].left > 0

\* A connection that was cut off stays cut off: after a replayed code, a reused
\* refresh token or the revocation of a token it was issued, nothing of the
\* family opens a door or buys anything, however refreshes, retries, sweeps and
\* expiries are ordered (spec/auth.md: "nothing further can be issued for that
\* connection").
CutStaysCut ==
    \A k \in cut : /\ \A a \in Accesses : InFamily(access, a, k) => ~Usable(a)
                   /\ \A r \in Refreshes : InFamily(refresh, r, k) => ~Rotatable(r)

\* A family is a chain with one live end: two refreshes of one token, or two
\* exchanges of one code, never both succeed.
OneLiveEnd ==
    \A q, r \in Refreshes :
        (Rotatable(q) /\ Rotatable(r) /\ refresh[q].family = refresh[r].family) => q = r

\* The replay of a code is noticed as long as the token it bought lives: the
\* spent row outlasts it (SPENT_CODE_RETENTION_SECONDS).
ReplayIsNoticed ==
    \A a \in Accesses :
        Usable(a) /\ access[a].first => code[access[a].family].status = "spent"

\* Revoking the token a person consented with ends every connection made with it
\* for good, without anybody looking for its tokens: what is out expires, and no
\* exchange or refresh replaces it, a consent checked before the revocation and
\* stored after it included (spec/auth.md: "they expire within the hour").
WithdrawalEndsAccess ==
    \A g \in Grantors :
        (g \in withdrawn) ~> [](\A a \in Accesses : by[access[a].family] = g => ~Usable(a))
=============================================================================
