----------------------------- MODULE AuthTokens -----------------------------
(* The refresh tokens of one account and the browser cookie that carries one *)
(* of them, for both applications: the public site (realm "user",            *)
(* frontend/lib/auth/options.ts over /auth) and the console (realm "admin",  *)
(* admin_front/lib/auth/options.ts over /admin_auth).  Every request that    *)
(* reads the session (a fetch of the session by a tab, or a server-side      *)
(* getServerSession of the layout or of the proxy route) runs the jwt        *)
(* callback on the cookie it was sent with, refreshes when the access token  *)
(* has expired, and hands the cookie back: a tab stores it, a server-side    *)
(* read has no response to put it in.                                        *)
EXTENDS Naturals, FiniteSets

CONSTANTS
  Realms,        \* the applications looked at, {"user", "admin"} or one of them
  Calls,         \* requests that may read the session at the same time
  MaxTokens      \* bound: refresh tokens issued

ASSUME RealmsAssumption == Realms \subseteq {"user", "admin"}
ASSUME MaxTokensAssumption == MaxTokens \in Nat

VARIABLES
  realm,         \* the application this behaviour is about
  tokens,        \* refresh_tokens rows: state of each token
  parent,        \* history: the token each one was exchanged for, 0 for a sign-in
  jar,           \* the browser's session cookie
  calls          \* the requests that are reading the session

authVars == <<realm, tokens, parent, jar, calls>>

Tokens == 1 .. MaxTokens
SignedOut == [rt |-> 0, access |-> "none"]
Jars == [rt : 0 .. MaxTokens, access : {"none", "ok", "expired"}]
IdleCall == [at |-> "idle", stores |-> FALSE, jar |-> SignedOut]
Stages == {"idle", "read", "clear", "rotate", "issue", "answer"}

AuthTypeOK ==
  /\ realm \in Realms
  /\ tokens \in [Tokens -> {"none", "live", "revoked"}]
  /\ parent \in [Tokens -> 0 .. MaxTokens]
  /\ jar \in Jars
  /\ calls \in [Calls -> [at : Stages, stores : BOOLEAN, jar : Jars]]

AuthInit ==
  /\ realm \in Realms
  /\ tokens = [n \in Tokens |-> "none"]
  /\ parent = [n \in Tokens |-> 0]
  /\ jar = SignedOut
  /\ calls = [c \in Calls |-> IdleCall]
-----------------------------------------------------------------------------
(* The tables *)

Revoked(set) == [n \in Tokens |-> IF n \in set /\ tokens[n] = "live" THEN "revoked" ELSE tokens[n]]

\* create_refresh_token draws a value that no row has
Fresh(n) == tokens[n] = "none" /\ \A m \in Tokens : m < n => tokens[m] # "none"

\* Bound: a refresh starts only if a token is left for it
TokensLeft ==
  Cardinality({n \in Tokens : tokens[n] = "none"}) >
  Cardinality({c \in Calls : calls[c].at \in {"read", "clear", "rotate", "issue"}})

\* issue_tokens(record_refresh=True): one insert, committed
Issue(n, from) ==
  /\ Fresh(n)
  /\ tokens' = [tokens EXCEPT ![n] = "live"]
  /\ parent' = [parent EXCEPT ![n] = from]
-----------------------------------------------------------------------------
(* The session callbacks *)

\* What a failed refresh leaves: the console drops its tokens, the site's
\* catch is empty and keeps them
Refused(j) == IF realm = "admin" THEN SignedOut ELSE j

Move(c, stage) == calls' = [calls EXCEPT ![c].at = stage]

Hand(c, j) == calls' = [calls EXCEPT ![c].at = "answer", ![c].jar = j]

\* The jwt callback of a request, up to its call of the backend: a sign-in
\* that was not to be remembered has no refresh token and ends when its
\* access token does
ReadSession(c, stores) ==
  /\ calls[c].at = "idle"
  /\ jar.access = "expired" /\ jar.rt # 0 => TokensLeft
  /\ calls' = [calls EXCEPT ![c] =
       [at     |-> IF jar.access = "expired" /\ jar.rt # 0 THEN "read" ELSE "answer",
        stores |-> stores,
        jar    |-> IF jar.access = "expired" /\ jar.rt = 0 THEN SignedOut ELSE jar]]
  /\ UNCHANGED <<realm, tokens, parent, jar>>

\* The console's refresh button: update({action: "refresh"})
ForceRefresh(c) ==
  /\ realm = "admin"
  /\ calls[c].at = "idle"
  /\ jar.rt # 0
  /\ TokensLeft
  /\ calls' = [calls EXCEPT ![c] = [at |-> "read", stores |-> TRUE, jar |-> jar]]
  /\ UNCHANGED <<realm, tokens, parent, jar>>

\* Mutation: a revoked token is rotated like any other.
RefreshReadUnchecked(c) ==
  /\ calls[c].at = "read"
  /\ Move(c, "rotate")
  /\ UNCHANGED <<realm, tokens, parent, jar>>

\* The refresh handler's select: a revoked token is refused, and on the site
\* taken as stolen
RefreshRead(c) ==
  /\ calls[c].at = "read"
  /\ \/ tokens[calls[c].jar.rt] = "live" /\ Move(c, "rotate")
     \/ tokens[calls[c].jar.rt] = "revoked" /\ realm = "user" /\ Move(c, "clear")
     \/ tokens[calls[c].jar.rt] = "revoked" /\ realm = "admin" /\ Hand(c, Refused(calls[c].jar))
  /\ UNCHANGED <<realm, tokens, parent, jar>>

\* ... whose sessions are then all revoked, in a commit of their own
RefreshClear(c) ==
  /\ calls[c].at = "clear"
  /\ tokens' = Revoked(Tokens)
  /\ Hand(c, Refused(calls[c].jar))
  /\ UNCHANGED <<realm, parent, jar>>

\* expires_at has passed: the row is revoked and the refresh refused
RefreshTooLate(c) ==
  /\ calls[c].at = "rotate"
  /\ tokens' = Revoked({calls[c].jar.rt})
  /\ Hand(c, Refused(calls[c].jar))
  /\ UNCHANGED <<realm, parent, jar>>

\* Mutation: the old token is left to expire.
RefreshRevokeNot(c) ==
  /\ calls[c].at = "rotate"
  /\ Move(c, "issue")
  /\ UNCHANGED <<realm, tokens, parent, jar>>

\* The rotation: the first of its two commits ...
RefreshRevoke(c) ==
  /\ calls[c].at = "rotate"
  /\ tokens' = Revoked({calls[c].jar.rt})
  /\ Move(c, "issue")
  /\ UNCHANGED <<realm, parent, jar>>

\* ... and the second, whose answer may be lost on its way
RefreshIssue(c, n, answered) ==
  /\ calls[c].at = "issue"
  /\ Issue(n, calls[c].jar.rt)
  /\ Hand(c, IF answered THEN [rt |-> n, access |-> "ok"] ELSE Refused(calls[c].jar))
  /\ UNCHANGED <<realm, jar>>

\* The backend dies, or cannot be reached, before the next commit
RefreshLost(c) ==
  /\ calls[c].at \in {"read", "clear", "rotate", "issue"}
  /\ Hand(c, Refused(calls[c].jar))
  /\ UNCHANGED <<realm, tokens, parent, jar>>

\* The response: Set-Cookie replaces the tab's cookie whatever happened to it
\* meanwhile; getServerSession drops it
Answered(c) ==
  /\ calls[c].at = "answer"
  /\ jar' = IF calls[c].stores THEN calls[c].jar ELSE jar
  /\ calls' = [calls EXCEPT ![c] = IdleCall]
  /\ UNCHANGED <<realm, tokens, parent>>
-----------------------------------------------------------------------------
(* The visitor *)

\* The sign-in pages offer their form while there is no session.  The console
\* always asks for a refresh token, the site when "remember me" is on.
SignInWith(n, remember) ==
  /\ jar.access = "none"
  /\ TokensLeft
  /\ IF realm = "admin" \/ remember
     THEN Issue(n, 0) /\ jar' = [rt |-> n, access |-> "ok"]
     ELSE UNCHANGED <<tokens, parent>> /\ jar' = [rt |-> 0, access |-> "ok"]
  /\ UNCHANGED <<realm, calls>>

\* The signOut event sends the cookie's refresh token to /logout and ignores
\* a failure; the cookie goes either way
SignOutOf(reached) ==
  /\ jar.access # "none"
  /\ tokens' = IF reached THEN Revoked({jar.rt}) ELSE tokens
  /\ jar' = SignedOut
  /\ UNCHANGED <<realm, parent, calls>>

\* The sessions page, and /admin_auth/logout_all
LogoutAll ==
  /\ jar.access = "ok"
  /\ tokens' = Revoked(Tokens)
  /\ UNCHANGED <<realm, parent, jar, calls>>

\* The access token of a pair expires wherever that pair is
AccessExpires ==
  LET Aged(j) == IF j.rt = jar.rt /\ j.access = "ok" THEN [j EXCEPT !.access = "expired"] ELSE j
  IN  /\ jar.access = "ok"
      /\ jar' = Aged(jar)
      /\ calls' = [c \in Calls |-> [calls[c] EXCEPT !.jar = Aged(calls[c].jar)]]
      /\ UNCHANGED <<realm, tokens, parent>>

Refreshing(c) ==
  \/ RefreshRead(c) \/ RefreshClear(c) \/ RefreshTooLate(c) \/ RefreshRevoke(c) \/ RefreshLost(c)
  \/ \E n \in Tokens, answered \in BOOLEAN : RefreshIssue(c, n, answered)

AuthNext ==
  \/ \E c \in Calls : \/ \E stores \in BOOLEAN : ReadSession(c, stores)
                      \/ ForceRefresh(c) \/ Refreshing(c) \/ Answered(c)
  \/ \E n \in Tokens, remember \in BOOLEAN : SignInWith(n, remember)
  \/ \E reached \in BOOLEAN : SignOutOf(reached)
  \/ LogoutAll \/ AccessExpires

AuthSpec == AuthInit /\ [][AuthNext]_authVars
-----------------------------------------------------------------------------
(* Properties *)

\* Rotation never leaves two generations alive: a token that a refresh issued
\* exists only while the token it was exchanged for is revoked, whatever
\* crashes, lost answers and concurrent refreshes come between the two commits
\* of the rotation (auth.py:218-220, admin_auth.py:121-123).
RotationRetires ==
  \A n \in Tokens : tokens[n] = "live" /\ parent[n] # 0 => tokens[parent[n]] = "revoked"

\* Once no token of the account is alive and no refresh is past its check, it
\* stays so until somebody signs in again: signing out everywhere, or a
\* replayed token, ends every session there is (auth.py:177-187, 265-269).  A
\* refresh that is past its check still issues one: that is the race noted as
\* a hazard at auth.py:267.
Over ==
  /\ \A n \in Tokens : tokens[n] # "live"
  /\ \A c \in Calls : calls[c].at \notin {"rotate", "issue"}

RevokedIsFinal == [][Over /\ ~Over' => jar.access = "none" /\ jar'.access = "ok"]_authVars
=============================================================================
