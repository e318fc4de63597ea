-------------------------- MODULE AuthTokens_proofs --------------------------
(* Theorems about AuthTokens, for any number of requests and tokens.  The    *)
(* invariant adds to RotationRetires what the handler of a refresh carries   *)
(* from its first commit to its second: a request at "issue" has revoked the *)
(* token it is about to replace.                                             *)
EXTENDS AuthTokens, TLAPS

\* A refresh works on a token, which it has found alive and then revoked.
RefreshInv ==
  \A c \in Calls :
    /\ calls[c].at \in {"read", "clear", "rotate", "issue"} => calls[c].jar.rt # 0
    /\ calls[c].at = "rotate" => tokens[calls[c].jar.rt] # "none"
    /\ calls[c].at = "issue" => tokens[calls[c].jar.rt] = "revoked"

\* The inductive invariant.
AuthInv == AuthTypeOK /\ RotationRetires /\ RefreshInv

-----------------------------------------------------------------------------
(* What a step may do to the rows: they are revoked, or one is inserted      *)

\* No row is deleted, and revoked tokens stay revoked.
Kept ==
  \A n \in Tokens : /\ tokens[n] = "revoked" => tokens'[n] = "revoked"
                    /\ tokens[n] # "none" => tokens'[n] # "none"

\* Nor does a token come alive.
Aging ==
  /\ tokens' \in [Tokens -> {"none", "live", "revoked"}]
  /\ Kept
  /\ \A n \in Tokens : tokens'[n] = "live" => tokens[n] = "live"
  /\ UNCHANGED parent

\* An UPDATE of the revoked column only ages the rows.
LEMMA RevokedAges ==
  ASSUME AuthTypeOK, NEW set, tokens' = Revoked(set), UNCHANGED parent
  PROVE  Aging
BY DEF Aging, Kept, Revoked, AuthTypeOK

\* Nothing written ages the rows too.
LEMMA UnchangedAges ==
  ASSUME AuthTypeOK, UNCHANGED <<tokens, parent>>
  PROVE  Aging
BY DEF Aging, Kept, AuthTypeOK

\* Aging the rows keeps every retired generation retired.
LEMMA AgingRetires ==
  ASSUME AuthTypeOK, RotationRetires, Aging
  PROVE  RotationRetires'
<1>1. \A n \in Tokens : parent[n] # 0 => parent[n] \in Tokens
  BY DEF AuthTypeOK, Tokens
<1>2. QED
  BY <1>1 DEF RotationRetires, Aging, Kept

\* An insert keeps them too: the row is new, and its parent is revoked.
LEMMA IssueRetires ==
  ASSUME AuthTypeOK, RotationRetires, NEW n \in Tokens, NEW from \in 0 .. MaxTokens,
         from # 0 => tokens[from] = "revoked", Issue(n, from)
  PROVE  /\ RotationRetires'
         /\ tokens' \in [Tokens -> {"none", "live", "revoked"}]
         /\ parent' \in [Tokens -> 0 .. MaxTokens]
         /\ Kept
<1>1. tokens[n] = "none"
  BY DEF Issue, Fresh
<1>2. /\ tokens' \in [Tokens -> {"none", "live", "revoked"}]
      /\ parent' \in [Tokens -> 0 .. MaxTokens]
      /\ Kept
  BY <1>1 DEF Issue, AuthTypeOK, Kept
<1>3. ASSUME NEW m \in Tokens, tokens'[m] = "live", parent'[m] # 0
      PROVE  tokens'[parent'[m]] = "revoked"
  <2>1. CASE m = n
    <3>1. parent'[m] = from
      BY <2>1 DEF Issue, AuthTypeOK
    <3>2. from \in Tokens
      BY <1>3, <3>1 DEF Tokens
    <3>3. QED
      BY <1>2, <1>3, <3>1, <3>2 DEF Kept
  <2>2. CASE m # n
    <3>1. tokens[m] = "live" /\ parent'[m] = parent[m]
      BY <1>3, <2>2 DEF Issue, AuthTypeOK
    <3>2. parent[m] \in Tokens /\ tokens[parent[m]] = "revoked"
      BY <1>3, <3>1 DEF AuthTypeOK, RotationRetires, Tokens
    <3>3. QED
      BY <1>2, <3>1, <3>2 DEF Kept
  <2>3. QED
    BY <2>1, <2>2
<1>4. QED
  BY <1>2, <1>3 DEF RotationRetires

-----------------------------------------------------------------------------
(* What a step may do to the requests                                        *)

\* One request moves on, or is answered: the others keep their place.
\* A request that the step leaves at "issue" was there before, or its token is revoked now.
LEMMA CallsStep ==
  ASSUME AuthInv, calls' \in [Calls -> [at : Stages, stores : BOOLEAN, jar : Jars]],
         Kept,
         \A c \in Calls :
            \/ calls'[c].at = calls[c].at /\ calls'[c].jar.rt = calls[c].jar.rt
            \/ calls'[c].at \in {"idle", "answer"}
            \/ calls'[c].at \in {"read", "clear"} /\ calls'[c].jar.rt # 0
            \/ calls'[c].at = "rotate" /\ calls'[c].jar.rt # 0 /\ tokens'[calls'[c].jar.rt] # "none"
            \/ calls'[c].at = "issue" /\ calls'[c].jar.rt # 0 /\ tokens'[calls'[c].jar.rt] = "revoked"
  PROVE  RefreshInv'
<1>1. \A c \in Calls : calls[c].jar.rt \in 0 .. MaxTokens
  BY DEF AuthInv, AuthTypeOK, Jars
<1>2. \A c \in Calls : calls[c].at \in {"rotate", "issue"} => calls[c].jar.rt \in Tokens
  BY <1>1 DEF AuthInv, RefreshInv, Tokens
<1>3. QED
  BY <1>2 DEF AuthInv, RefreshInv, Kept

-----------------------------------------------------------------------------
(* The invariant                                                             *)

\* A request that moves to another stage keeps its cookie, and the types.
LEMMA MoveStep ==
  ASSUME AuthInv, NEW c \in Calls, NEW stage \in Stages, Move(c, stage)
  PROVE  /\ calls' \in [Calls -> [at : Stages, stores : BOOLEAN, jar : Jars]]
         /\ calls'[c].at = stage /\ calls'[c].jar = calls[c].jar
         /\ \A d \in Calls \ {c} : calls'[d] = calls[d]
BY DEF AuthInv, AuthTypeOK, Move

\* A request that hands its cookie back is at "answer".
LEMMA HandStep ==
  ASSUME AuthInv, NEW c \in Calls, NEW j \in Jars, Hand(c, j)
  PROVE  /\ calls' \in [Calls -> [at : Stages, stores : BOOLEAN, jar : Jars]]
         /\ calls'[c].at = "answer"
         /\ \A d \in Calls \ {c} : calls'[d] = calls[d]
BY DEF AuthInv, AuthTypeOK, Hand, Stages

\* What a failed refresh leaves is a cookie.
LEMMA RefusedJar ==
  ASSUME MaxTokens \in Nat, NEW j \in Jars
  PROVE  SignedOut \in Jars /\ Refused(j) \in Jars
BY DEF Refused, SignedOut, Jars

\* The steps of one request that leave the tables alone.
LEMMA ReadingStep ==
  ASSUME AuthInv, NEW c \in Calls, NEW stores \in BOOLEAN,
         ReadSession(c, stores) \/ ForceRefresh(c) \/ RefreshRead(c) \/ RefreshLost(c) \/ Answered(c)
  PROVE  AuthInv'
<1>1. UNCHANGED <<realm, tokens, parent>>
  BY DEF ReadSession, ForceRefresh, RefreshRead, RefreshLost, Answered
<1>2. Aging
  BY <1>1, UnchangedAges DEF AuthInv
<1>3. RotationRetires'
  BY <1>2, AgingRetires DEF AuthInv
<1>4. \A d \in Calls : calls[d] \in [at : Stages, stores : BOOLEAN, jar : Jars]
  BY DEF AuthInv, AuthTypeOK
<1>5. jar \in Jars
  BY DEF AuthInv, AuthTypeOK
<1>6. SignedOut \in Jars /\ Refused(calls[c].jar) \in Jars
  BY <1>4, MaxTokensAssumption, RefusedJar
<1>7. /\ calls' \in [Calls -> [at : Stages, stores : BOOLEAN, jar : Jars]]
      /\ jar' \in Jars
      /\ \A d \in Calls :
            \/ calls'[d].at = calls[d].at /\ calls'[d].jar.rt = calls[d].jar.rt
            \/ calls'[d].at \in {"idle", "answer"}
            \/ calls'[d].at \in {"read", "clear"} /\ calls'[d].jar.rt # 0
            \/ calls'[d].at = "rotate" /\ calls'[d].jar.rt # 0 /\ tokens'[calls'[d].jar.rt] # "none"
  <2>1. CASE ReadSession(c, stores)
    <3>1. jar' = jar /\ \A d \in Calls \ {c} : calls'[d] = calls[d]
      BY <2>1 DEF ReadSession, AuthInv, AuthTypeOK
    <3>2. CASE jar.access = "expired" /\ jar.rt # 0
      BY <2>1, <3>1, <3>2, <1>4, <1>5 DEF ReadSession, AuthInv, AuthTypeOK, Stages
    <3>3. CASE ~(jar.access = "expired" /\ jar.rt # 0)
      <4>1. PICK j \in Jars : calls' = [calls EXCEPT ![c] = [at |-> "answer", stores |-> stores, jar |-> j]]
        BY <2>1, <3>3, <1>5, <1>6 DEF ReadSession
      <4>2. QED
        BY <4>1, <3>1, <1>4, <1>5 DEF AuthInv, AuthTypeOK, Stages
    <3>4. QED
      BY <3>2, <3>3
  <2>2. CASE ForceRefresh(c)
    BY <2>2, <1>4, <1>5 DEF ForceRefresh, AuthInv, AuthTypeOK, Stages
  <2>3. CASE RefreshRead(c)
    <3>1. calls[c].jar.rt # 0
      BY <2>3 DEF RefreshRead, AuthInv, RefreshInv
    <3>2. jar' = jar
      BY <2>3 DEF RefreshRead
    <3>3. CASE Move(c, "rotate") /\ tokens[calls[c].jar.rt] = "live"
      BY <1>1, <3>1, <3>2, <3>3, <1>5, MoveStep DEF Stages
    <3>4. CASE Move(c, "clear")
      BY <3>1, <3>2, <3>4, <1>5, MoveStep DEF Stages
    <3>5. CASE Hand(c, Refused(calls[c].jar))
      BY <3>2, <3>5, <1>5, <1>6, HandStep
    <3>6. QED
      BY <2>3, <3>3, <3>4, <3>5 DEF RefreshRead
  <2>4. CASE RefreshLost(c)
    BY <2>4, <1>5, <1>6, HandStep DEF RefreshLost
  <2>5. CASE Answered(c)
    <3>1. /\ calls' \in [Calls -> [at : Stages, stores : BOOLEAN, jar : Jars]]
          /\ calls'[c].at = "idle"
          /\ \A d \in Calls \ {c} : calls'[d] = calls[d]
      BY <2>5, <1>4, <1>6 DEF Answered, AuthInv, AuthTypeOK, IdleCall, Stages
    <3>2. jar' \in Jars
      BY <2>5, <1>4, <1>5 DEF Answered
    <3>3. QED
      BY <3>1, <3>2
  <2>6. QED
    BY <2>1, <2>2, <2>3, <2>4, <2>5
<1>8. AuthTypeOK'
  BY <1>1, <1>7 DEF AuthInv, AuthTypeOK
<1>9. RefreshInv'
  BY <1>2, <1>7, CallsStep DEF Aging
<1>10. QED
  BY <1>3, <1>8, <1>9 DEF AuthInv

\* The steps of one request that revoke rows.
LEMMA RevokingStep ==
  ASSUME AuthInv, NEW c \in Calls, RefreshClear(c) \/ RefreshTooLate(c) \/ RefreshRevoke(c)
  PROVE  AuthInv'
<1>1. UNCHANGED <<realm, parent, jar>>
  BY DEF RefreshClear, RefreshTooLate, RefreshRevoke
<1>2. Aging
  BY <1>1, RevokedAges DEF RefreshClear, RefreshTooLate, RefreshRevoke, AuthInv
<1>3. RotationRetires'
  BY <1>2, AgingRetires DEF AuthInv
<1>4. calls[c].jar \in Jars
  BY DEF AuthInv, AuthTypeOK
<1>5. Refused(calls[c].jar) \in Jars
  BY <1>4, MaxTokensAssumption, RefusedJar
<1>6. /\ calls' \in [Calls -> [at : Stages, stores : BOOLEAN, jar : Jars]]
      /\ \A d \in Calls :
            \/ calls'[d].at = calls[d].at /\ calls'[d].jar.rt = calls[d].jar.rt
            \/ calls'[d].at \in {"idle", "answer"}
            \/ calls'[d].at = "issue" /\ calls'[d].jar.rt # 0 /\ tokens'[calls'[d].jar.rt] = "revoked"
  <2>1. CASE RefreshClear(c) \/ RefreshTooLate(c)
    BY <2>1, <1>5, HandStep DEF RefreshClear, RefreshTooLate
  <2>2. CASE RefreshRevoke(c)
    <3>1. calls[c].jar.rt \in Tokens
      BY <2>2, <1>4 DEF RefreshRevoke, AuthInv, RefreshInv, Jars, Tokens
    <3>2. tokens[calls[c].jar.rt] \in {"live", "revoked"}
      BY <2>2, <3>1 DEF RefreshRevoke, AuthInv, RefreshInv, AuthTypeOK
    <3>3. tokens'[calls[c].jar.rt] = "revoked"
      BY <2>2, <3>1, <3>2 DEF RefreshRevoke, Revoked
    <3>4. calls[c].jar.rt # 0
      BY <2>2 DEF RefreshRevoke, AuthInv, RefreshInv
    <3>5. QED
      BY <2>2, <3>3, <3>4, MoveStep DEF RefreshRevoke, Stages
  <2>3. QED
    BY <2>1, <2>2
<1>7. AuthTypeOK'
  BY <1>1, <1>2, <1>6 DEF AuthInv, AuthTypeOK, Aging
<1>8. RefreshInv'
  BY <1>2, <1>6, CallsStep DEF Aging
<1>9. QED
  BY <1>3, <1>7, <1>8 DEF AuthInv

\* The insert of a refresh, after its token was revoked.
LEMMA IssuingStep ==
  ASSUME AuthInv, NEW c \in Calls, NEW n \in Tokens, NEW answered \in BOOLEAN,
         RefreshIssue(c, n, answered)
  PROVE  AuthInv'
<1>1. calls[c].jar \in Jars /\ jar' = jar /\ realm' = realm
  BY DEF RefreshIssue, AuthInv, AuthTypeOK
<1>2. /\ calls[c].jar.rt \in 0 .. MaxTokens
      /\ tokens[calls[c].jar.rt] = "revoked"
      /\ Issue(n, calls[c].jar.rt)
  BY <1>1 DEF RefreshIssue, AuthInv, RefreshInv, Jars
<1>3. /\ RotationRetires'
      /\ tokens' \in [Tokens -> {"none", "live", "revoked"}]
      /\ parent' \in [Tokens -> 0 .. MaxTokens]
      /\ Kept
  BY <1>2, IssueRetires DEF AuthInv
<1>4. Refused(calls[c].jar) \in Jars
  BY <1>1, MaxTokensAssumption, RefusedJar
<1>5. [rt |-> n, access |-> "ok"] \in Jars
  BY MaxTokensAssumption DEF Jars, Tokens
<1>6. PICK j \in Jars : Hand(c, j)
  BY <1>4, <1>5 DEF RefreshIssue
<1>7. /\ calls' \in [Calls -> [at : Stages, stores : BOOLEAN, jar : Jars]]
      /\ \A d \in Calls :
            \/ calls'[d].at = calls[d].at /\ calls'[d].jar.rt = calls[d].jar.rt
            \/ calls'[d].at \in {"idle", "answer"}
  BY <1>6, HandStep
<1>8. AuthTypeOK'
  BY <1>1, <1>3, <1>7 DEF AuthInv, AuthTypeOK
<1>9. RefreshInv'
  BY <1>3, <1>7, CallsStep
<1>10. QED
  BY <1>3, <1>8, <1>9 DEF AuthInv

\* What the visitor does.
LEMMA VisitorStep ==
  ASSUME AuthInv,
         \/ \E n \in Tokens, remember \in BOOLEAN : SignInWith(n, remember)
         \/ \E reached \in BOOLEAN : SignOutOf(reached)
         \/ LogoutAll \/ AccessExpires
  PROVE  AuthInv'
<1>1. realm' = realm
  BY DEF SignInWith, SignOutOf, LogoutAll, AccessExpires
<1>2. jar \in Jars /\ SignedOut \in Jars
  BY MaxTokensAssumption, RefusedJar DEF AuthInv, AuthTypeOK
<1>3. /\ RotationRetires'
      /\ tokens' \in [Tokens -> {"none", "live", "revoked"}]
      /\ parent' \in [Tokens -> 0 .. MaxTokens]
      /\ Kept
  <2>1. CASE \E n \in Tokens : Issue(n, 0)
    BY <2>1, IssueRetires, MaxTokensAssumption DEF AuthInv
  <2>2. CASE Aging
    BY <2>2, AgingRetires DEF AuthInv, AuthTypeOK, Aging
  <2>3. CASE \E n \in Tokens, remember \in BOOLEAN : SignInWith(n, remember)
    BY <2>1, <2>2, <2>3, UnchangedAges DEF SignInWith, AuthInv
  <2>4. CASE (\E reached \in BOOLEAN : SignOutOf(reached)) \/ LogoutAll
    BY <2>2, <2>4, RevokedAges, UnchangedAges DEF SignOutOf, LogoutAll, AuthInv
  <2>5. CASE AccessExpires
    BY <2>2, <2>5, UnchangedAges DEF AccessExpires, AuthInv
  <2>6. QED
    BY <2>3, <2>4, <2>5
<1>4. /\ jar' \in Jars
      /\ calls' \in [Calls -> [at : Stages, stores : BOOLEAN, jar : Jars]]
      /\ \A d \in Calls : calls'[d].at = calls[d].at /\ calls'[d].jar.rt = calls[d].jar.rt
  <2>1. CASE \E n \in Tokens, remember \in BOOLEAN : SignInWith(n, remember)
    <3>1. \A n \in 0 .. MaxTokens : [rt |-> n, access |-> "ok"] \in Jars
      BY DEF Jars
    <3>2. 0 \in 0 .. MaxTokens /\ Tokens \subseteq 0 .. MaxTokens
      BY MaxTokensAssumption DEF Tokens
    <3>3. QED
      BY <2>1, <3>1, <3>2 DEF SignInWith, AuthInv, AuthTypeOK
  <2>2. CASE (\E reached \in BOOLEAN : SignOutOf(reached)) \/ LogoutAll
    BY <2>2, <1>2 DEF SignOutOf, LogoutAll, AuthInv, AuthTypeOK
  <2>3. CASE AccessExpires
    <3> DEFINE Aged(j) == IF j.rt = jar.rt /\ j.access = "ok" THEN [j EXCEPT !.access = "expired"] ELSE j
    <3>1. \A j \in Jars : Aged(j) \in Jars /\ Aged(j).rt = j.rt
      BY DEF Jars
    <3>2. jar' = Aged(jar) /\ calls' = [d \in Calls |-> [calls[d] EXCEPT !.jar = Aged(calls[d].jar)]]
      BY <2>3 DEF AccessExpires
    <3> HIDE DEF Aged
    <3>3. QED
      BY <1>2, <3>1, <3>2 DEF AuthInv, AuthTypeOK
  <2>4. QED
    BY <2>1, <2>2, <2>3
<1>5. AuthTypeOK'
  BY <1>1, <1>3, <1>4 DEF AuthInv, AuthTypeOK
<1>6. RefreshInv'
  BY <1>3, <1>4, CallsStep
<1>7. QED
  BY <1>3, <1>5, <1>6 DEF AuthInv

\* The invariant is inductive.
LEMMA AuthStep == AuthInv /\ [AuthNext]_authVars => AuthInv'
<1> SUFFICES ASSUME AuthInv, [AuthNext]_authVars PROVE AuthInv'
  OBVIOUS
<1>1. CASE UNCHANGED authVars
  BY <1>1 DEF authVars, AuthInv, AuthTypeOK, RotationRetires, RefreshInv
<1>2. ASSUME NEW c \in Calls, \/ \E stores \in BOOLEAN : ReadSession(c, stores)
                              \/ ForceRefresh(c) \/ Refreshing(c) \/ Answered(c)
      PROVE  AuthInv'
  BY <1>2, ReadingStep, RevokingStep, IssuingStep DEF Refreshing
<1>3. QED
  BY <1>1, <1>2, VisitorStep DEF AuthNext

-----------------------------------------------------------------------------
(* Theorems                                                                  *)

\* The inductive invariant holds: rows, cookies and requests have their types, and a
\* refresh between its two commits has revoked the token it replaces (auth.py:218-220,
\* admin_auth.py:123-125).
THEOREM AuthInvHolds == AuthSpec => []AuthInv
<1>1. AuthInit => AuthInv
  <2> SUFFICES ASSUME AuthInit PROVE AuthInv
    OBVIOUS
  <2>1. SignedOut \in Jars /\ IdleCall \in [at : Stages, stores : BOOLEAN, jar : Jars]
    BY MaxTokensAssumption DEF SignedOut, Jars, IdleCall, Stages
  <2>2. AuthTypeOK
    BY <2>1, MaxTokensAssumption DEF AuthInit, AuthTypeOK
  <2>3. QED
    BY <2>2 DEF AuthInit, AuthInv, RotationRetires, RefreshInv, IdleCall
<1>2. QED
  BY <1>1, AuthStep, PTL DEF AuthSpec

\* Rotation never leaves two generations alive, for any number of requests and tokens
\* and any crash between the two commits of a rotation (auth.py:218-220).
THEOREM RotationHolds == AuthSpec => []RotationRetires
<1>1. AuthInv => RotationRetires
  BY DEF AuthInv
<1>2. QED
  BY <1>1, AuthInvHolds, PTL

\* When every token is revoked and no refresh is past its check, only a sign-in brings
\* one back (auth.py:177-187, 265-269).
THEOREM RevocationHolds == AuthSpec => RevokedIsFinal
<1>1. ASSUME AuthInv, [AuthNext]_authVars
      PROVE  [Over /\ ~Over' => jar.access = "none" /\ jar'.access = "ok"]_authVars
  <2> SUFFICES ASSUME Over, ~Over', AuthNext
               PROVE  jar.access = "none" /\ jar'.access = "ok"
    BY <1>1
  <2>1. ASSUME NEW c \in Calls, \/ \E stores \in BOOLEAN : ReadSession(c, stores)
                                \/ ForceRefresh(c) \/ Refreshing(c) \/ Answered(c)
        PROVE  FALSE
    <3>1. calls[c].at \notin {"rotate", "issue"}
      BY DEF Over
    <3>2. calls[c].at = "read" => calls[c].jar.rt \in Tokens
      BY <1>1 DEF AuthInv, AuthTypeOK, RefreshInv, Jars, Tokens
    <3>3. calls[c].at = "read" => tokens[calls[c].jar.rt] # "live"
      BY <3>2 DEF Over
    <3>4. calls'[c].at \notin {"rotate", "issue"} /\ \A d \in Calls \ {c} : calls'[d] = calls[d]
      BY <1>1, <2>1, <3>1, <3>3
         DEF AuthInv, AuthTypeOK, ReadSession, ForceRefresh, Refreshing, Answered, RefreshRead,
             RefreshClear, RefreshTooLate, RefreshRevoke, RefreshIssue, RefreshLost, Move, Hand, IdleCall
    <3>5. Aging
      BY <1>1, <2>1, <3>1, RevokedAges, UnchangedAges
         DEF AuthInv, ReadSession, ForceRefresh, Refreshing, Answered, RefreshRead,
             RefreshClear, RefreshTooLate, RefreshRevoke, RefreshIssue, RefreshLost
    <3>6. Over'
      BY <3>4, <3>5 DEF Over, Aging
    <3>7. QED
      BY <3>6
  <2>2. CASE \E n \in Tokens, remember \in BOOLEAN : SignInWith(n, remember)
    BY <2>2 DEF SignInWith
  <2>3. CASE (\E reached \in BOOLEAN : SignOutOf(reached)) \/ LogoutAll \/ AccessExpires
    <3>1. Aging
      BY <1>1, <2>3, RevokedAges, UnchangedAges DEF AuthInv, SignOutOf, LogoutAll, AccessExpires
    <3>2. \A d \in Calls : calls'[d].at = calls[d].at
      BY <1>1, <2>3 DEF AuthInv, AuthTypeOK, SignOutOf, LogoutAll, AccessExpires
    <3>3. Over'
      BY <3>1, <3>2 DEF Over, Aging
    <3>4. QED
      BY <3>3
  <2>4. QED
    BY <2>1, <2>2, <2>3 DEF AuthNext
<1>2. QED
  BY <1>1, AuthInvHolds, PTL DEF AuthSpec, RevokedIsFinal
=============================================================================
