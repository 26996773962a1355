----------------------------- MODULE AuthProofs -----------------------------
(***************************************************************************)
(* Proofs about Auth: why a session and a reset were granted, and how many *)
(* wrong passwords the limiter lets through, for any number of requests,   *)
(* passwords, tokens, attempts and any time.                               *)
(***************************************************************************)
EXTENDS Auth, FiniteSetTheorems, TLAPS

\* The types that the arguments need.
Types ==
    /\ locked \in BOOLEAN /\ verified \in BOOLEAN
    /\ mails \subseteq Tokens /\ reset.token \in mails \cup {Nothing}
    /\ handler \in [Handlers -> Handler]

\* A request has seen what is so now, ...
SeesNow(h) ==
    /\ handler[h].kind \in {"login", "refresh"} /\ ~locked => handler[h].unlocked
    /\ handler[h].kind = "login" /\ handler[h].secret = password => handler[h].right
    /\ handler[h].kind = "login" /\ verified => handler[h].proven

\* ... and what the checks behind it have found.
HasChecked(h) ==
    /\ handler[h].kind = "login" /\ handler[h].phase \in {"lock", "verification", "issue"}
         => handler[h].right
    /\ handler[h].kind = "login" /\ handler[h].phase \in {"verification", "issue"}
         => handler[h].unlocked
    /\ handler[h].kind = "login" /\ handler[h].phase = "issue" => handler[h].proven
    /\ handler[h].kind = "refresh" /\ handler[h].phase = "issue" => handler[h].unlocked
    /\ handler[h].phase = "issue" => handler[h].kind \in {"login", "refresh"}

\* A token that is stored has not been used, and who came when its token was
\* not used knows.
TokenFresh(h) ==
    handler[h].kind = "reset" =>
       /\ handler[h].token \in mails
       /\ handler[h].fresh \/ handler[h].token \in spent
       /\ handler[h].phase = "update" => handler[h].fresh

Inv ==
    /\ Types
    /\ spent \subseteq mails /\ reset.token \notin spent
    /\ \A h \in Handlers : SeesNow(h) /\ HasChecked(h) /\ TokenFresh(h)

-----------------------------------------------------------------------------
LEMMA FreeHandler ==
    /\ Free \in Handler
    /\ Free.kind = "none" /\ Free.phase = "free"
  BY DEF Free, Handler, Interfaces

LEMMA InitInv == Init => Inv
  <1> SUFFICES ASSUME Init PROVE Inv
    OBVIOUS
  <1>1. \A h \in Handlers : handler[h] = Free
    BY DEF Init
  <1>2. Types
    BY FreeHandler DEF Init, Types, NoReset
  <1>3. \A h \in Handlers : SeesNow(h) /\ HasChecked(h) /\ TokenFresh(h)
    BY <1>1, FreeHandler DEF SeesNow, HasChecked, TokenFresh
  <1>4. spent \subseteq mails /\ reset.token \notin spent
    BY DEF Init
  <1> QED BY <1>2, <1>3, <1>4 DEF Inv

\* What a request begins with.
LEMMA Begins ==
    ASSUME Inv, NEW h \in Handlers, NEW kind \in {"login", "refresh", "reset"}, NEW via \in Interfaces,
           NEW secret \in Passwords \cup {Nothing}, NEW token \in Tokens \cup {Nothing},
           kind = "reset" => token \in mails,
           Begin(h, kind, via, secret, token), UNCHANGED <<Account, mails, spent>>
    PROVE  Inv'
  <1> DEFINE new == handler'[h]
  <1>1. /\ handler' \in [Handlers -> Handler]
        /\ new.kind = kind /\ new.phase = "begun" /\ new.secret = secret /\ new.token = token
        /\ new.unlocked = (kind # "reset" /\ ~locked)
        /\ new.right = (kind = "login" /\ secret = password)
        /\ new.proven = (kind = "login" /\ verified)
        /\ new.fresh = (kind = "reset" /\ token \notin spent)
    <2> DEFINE made == [Free EXCEPT !.kind = kind, !.via = via, !.phase = "begun",
                          !.secret = secret, !.token = token,
                          !.unlocked = kind # "reset" /\ ~locked,
                          !.right = kind = "login" /\ secret = password,
                          !.proven = kind = "login" /\ verified,
                          !.fresh = kind = "reset" /\ token \notin spent]
    <2>1. /\ made.kind = kind /\ made.phase = "begun" /\ made.secret = secret
          /\ made.token = token
          /\ made.unlocked = (kind # "reset" /\ ~locked)
          /\ made.right = (kind = "login" /\ secret = password)
          /\ made.proven = (kind = "login" /\ verified)
          /\ made.fresh = (kind = "reset" /\ token \notin spent)
      BY DEF Free
    <2>2. made \in Handler
      BY DEF Free, Handler, Interfaces
    <2>3. handler' = [handler EXCEPT ![h] = made]
      BY DEF Begin
    <2>4. new = made
      BY <2>3 DEF Inv, Types
    <2> HIDE DEF made
    <2>5. handler' \in [Handlers -> Handler]
      BY <2>2, <2>3 DEF Inv, Types
    <2> QED BY <2>1, <2>4, <2>5
  <1>2. \A g \in Handlers : g # h => handler'[g] = handler[g]
    BY DEF Inv, Types, Begin
  <1>3. SeesNow(h)' /\ HasChecked(h)' /\ TokenFresh(h)'
    BY <1>1 DEF Account, SeesNow, HasChecked, TokenFresh
  <1>4. \A g \in Handlers : g # h => SeesNow(g)' /\ HasChecked(g)' /\ TokenFresh(g)'
    BY <1>2 DEF Inv, Account, SeesNow, HasChecked, TokenFresh
  <1> QED BY <1>1, <1>3, <1>4 DEF Inv, Types, Account

\* A request that ends leaves the others as they are.
LEMMA Ends ==
    ASSUME Inv, NEW h \in Handlers, End(h), UNCHANGED <<Account, mails, spent>>
    PROVE  Inv'
  <1>1. handler' \in [Handlers -> Handler] /\ handler'[h] = Free
    BY FreeHandler DEF Inv, Types, End
  <1>2. \A g \in Handlers : g # h => handler'[g] = handler[g]
    BY DEF Inv, Types, End
  <1>3. SeesNow(h)' /\ HasChecked(h)' /\ TokenFresh(h)'
    BY <1>1, FreeHandler DEF SeesNow, HasChecked, TokenFresh
  <1>4. \A g \in Handlers : g # h => SeesNow(g)' /\ HasChecked(g)' /\ TokenFresh(g)'
    BY <1>2 DEF Inv, Account, SeesNow, HasChecked, TokenFresh
  <1> QED BY <1>1, <1>3, <1>4 DEF Inv, Types, Account

\* A request that goes to another phase, which its checks allow.
LEMMA Goes ==
    ASSUME Inv, NEW h \in Handlers,
           NEW phase \in {"lock", "verification", "issue", "wrong", "rejected", "update", "expired"},
           To(h, phase), UNCHANGED <<Account, mails, spent>>,
           handler[h].kind = "login" /\ phase \in {"lock", "verification", "issue"}
             => handler[h].right,
           handler[h].kind = "login" /\ phase \in {"verification", "issue"} => handler[h].unlocked,
           handler[h].kind = "login" /\ phase = "issue" => handler[h].proven,
           handler[h].kind = "refresh" /\ phase = "issue" => handler[h].unlocked,
           phase = "issue" => handler[h].kind \in {"login", "refresh"},
           handler[h].kind = "reset" /\ phase = "update" => handler[h].fresh
    PROVE  Inv'
  <1> DEFINE old == handler[h]  new == handler'[h]
  <1>1. /\ handler' \in [Handlers -> Handler]
        /\ new.phase = phase /\ new.kind = old.kind /\ new.secret = old.secret
        /\ new.token = old.token /\ new.unlocked = old.unlocked /\ new.right = old.right
        /\ new.proven = old.proven /\ new.fresh = old.fresh
    BY DEF Inv, Types, To, Handler
  <1>2. \A g \in Handlers : g # h => handler'[g] = handler[g]
    BY DEF Inv, Types, To
  <1>3. SeesNow(h)' /\ HasChecked(h)' /\ TokenFresh(h)'
    BY <1>1 DEF Inv, Account, SeesNow, HasChecked, TokenFresh
  <1>4. \A g \in Handlers : g # h => SeesNow(g)' /\ HasChecked(g)' /\ TokenFresh(g)'
    BY <1>2 DEF Inv, Account, SeesNow, HasChecked, TokenFresh
  <1> QED BY <1>1, <1>3, <1>4 DEF Inv, Types, Account

-----------------------------------------------------------------------------
\* What the fields of a request are, for the lemmas above.
LEMMA Fields ==
    ASSUME Inv, NEW h \in Handlers
    PROVE  /\ handler[h].secret \in Passwords \cup {Nothing}
           /\ handler[h].token \in Tokens \cup {Nothing}
           /\ handler[h].kind \in {"login", "refresh", "reset", "none"}
           /\ handler[h].unlocked \in BOOLEAN /\ handler[h].right \in BOOLEAN
           /\ handler[h].proven \in BOOLEAN /\ handler[h].fresh \in BOOLEAN
  BY DEF Inv, Types, Handler

LEMMA LoginSteps ==
    ASSUME Inv, NEW h \in Handlers,
           \/ \E via \in Interfaces, secret \in Passwords : Login(h, via, secret)
           \/ Verify(h) \/ RecordFailure(h) \/ LockCheck(h) \/ VerifiedCheck(h) \/ Reject(h)
           \/ Issue(h)
    PROVE  Inv'
  <1> SeesNow(h) /\ HasChecked(h) /\ TokenFresh(h)
    BY DEF Inv
  <1>1. CASE \E via \in Interfaces, secret \in Passwords : Login(h, via, secret)
    BY <1>1, Begins DEF Login
  <1>2. CASE Verify(h)
    <2>1. CASE handler[h].secret = password
      BY <1>2, <2>1, Goes DEF Verify, At, SeesNow
    <2>2. CASE handler[h].secret # password
      BY <1>2, <2>2, Goes DEF Verify, At
    <2> QED BY <2>1, <2>2
  <1>3. CASE RecordFailure(h)
    BY <1>3, Ends DEF RecordFailure
  <1>4. CASE LockCheck(h)
    <2>1. CASE locked
      BY <1>4, <2>1, Goes DEF LockCheck, At
    <2>2. CASE ~locked
      BY <1>4, <2>2, Goes DEF LockCheck, At, SeesNow, HasChecked
    <2> QED BY <2>1, <2>2
  <1>5. CASE VerifiedCheck(h)
    <2>1. CASE verified
      BY <1>5, <2>1, Goes DEF VerifiedCheck, At, SeesNow, HasChecked
    <2>2. CASE ~verified
      BY <1>5, <2>2, Goes DEF VerifiedCheck, At
    <2> QED BY <2>1, <2>2
  <1>6. CASE Reject(h)
    BY <1>6, Ends DEF Reject
  <1>7. CASE Issue(h)
    BY <1>7, Ends DEF Issue
  <1> QED BY <1>1, <1>2, <1>3, <1>4, <1>5, <1>6, <1>7

LEMMA RefreshSteps ==
    ASSUME Inv, NEW h \in Handlers, Refresh(h) \/ RefreshCheck(h) \/ RefreshIssue(h)
    PROVE  Inv'
  <1> SeesNow(h)
    BY DEF Inv
  <1>1. CASE Refresh(h)
    BY <1>1, Begins DEF Refresh, Interfaces
  <1>2. CASE RefreshCheck(h)
    <2>1. CASE locked
      BY <1>2, <2>1, Ends DEF RefreshCheck
    <2>2. CASE ~locked
      BY <1>2, <2>2, Goes DEF RefreshCheck, At, SeesNow
    <2> QED BY <2>1, <2>2
  <1>3. CASE RefreshIssue(h)
    BY <1>3, Ends DEF RefreshIssue
  <1> QED BY <1>1, <1>2, <1>3

\* A token that is found is stored, hence not used.
LEMMA TokenFound ==
    ASSUME Inv, NEW h \in Handlers, FindByResetToken(h)
    PROVE  Inv'
  <1>1. CASE reset.token # handler[h].token
    BY <1>1, Ends DEF FindByResetToken
  <1>2. CASE reset.token = handler[h].token
    <2>1. At(h, "reset", "begun") /\ UNCHANGED <<Account, mails, spent>>
      BY DEF FindByResetToken
    <2>2. handler[h].fresh
      BY <1>2, <2>1, Fields DEF Inv, TokenFresh, At
    <2>3. To(h, "expired") \/ To(h, "update")
      BY <1>2 DEF FindByResetToken
    <2> QED BY <2>1, <2>2, <2>3, Goes DEF At
  <1> QED BY <1>1, <1>2

\* A password that is written has been seen by the logins that gave it.
LEMMA PasswordWritten ==
    ASSUME Inv, NEW h \in Handlers, UpdatePassword(h)
    PROVE  Inv'
  <1> DEFINE who  == {g \in Handlers : handler[g].secret = handler[h].secret}
             seen == Seen("right", {"login"}, who)
  <1>1. \A g \in Handlers : seen[g] = IF g \in who /\ handler[g].kind = "login"
                                      THEN [handler[g] EXCEPT !["right"] = TRUE] ELSE handler[g]
    BY DEF Seen
  <1>2. seen \in [Handlers -> Handler]
    <2>1. ASSUME NEW g \in Handlers PROVE seen[g] \in Handler
      <3>1. handler[g] \in Handler
        BY DEF Inv, Types
      <3>2. [handler[g] EXCEPT !["right"] = TRUE] \in Handler
        BY <3>1 DEF Handler
      <3> QED BY <1>1, <3>1, <3>2
    <2>2. seen = [g \in Handlers |-> seen[g]]
      BY DEF Seen
    <2> QED BY <2>1, <2>2
  <1>3. handler' = [seen EXCEPT ![h].phase = "clear"] /\ password' = handler[h].secret
    BY DEF UpdatePassword
  <1>4. UNCHANGED <<locked, verified, reset, mails, spent>> /\ At(h, "reset", "update")
    BY DEF UpdatePassword
  <1> HIDE DEF seen
  <1>5. \A g \in Handlers :
            /\ seen[g].kind = handler[g].kind /\ seen[g].phase = handler[g].phase
            /\ seen[g].secret = handler[g].secret /\ seen[g].token = handler[g].token
            /\ seen[g].unlocked = handler[g].unlocked /\ seen[g].proven = handler[g].proven
            /\ seen[g].fresh = handler[g].fresh
            /\ handler[g].right => seen[g].right
            /\ handler[g].kind = "login" /\ handler[g].secret = handler[h].secret => seen[g].right
    BY <1>1 DEF Inv, Types, Handler
  <1>6. handler' \in [Handlers -> Handler]
    BY <1>2, <1>3 DEF Handler
  <1>7. handler'[h] = [seen[h] EXCEPT !.phase = "clear"]
    BY <1>2, <1>3
  <1>8. \A g \in Handlers : g # h => handler'[g] = seen[g]
    BY <1>2, <1>3
  <1>9. ASSUME NEW g \in Handlers, g # h
        PROVE  SeesNow(g)' /\ HasChecked(g)' /\ TokenFresh(g)'
    BY <1>3, <1>4, <1>5, <1>8, <1>9 DEF Inv, SeesNow, HasChecked, TokenFresh
  <1>10. /\ handler'[h].kind = "reset" /\ handler'[h].phase = "clear"
         /\ handler'[h].token = handler[h].token /\ handler'[h].fresh = handler[h].fresh
    BY <1>2, <1>4, <1>5, <1>7 DEF At, Handler
  <1>11. SeesNow(h)' /\ HasChecked(h)' /\ TokenFresh(h)'
    BY <1>4, <1>10 DEF Inv, At, SeesNow, HasChecked, TokenFresh
  <1> QED BY <1>4, <1>6, <1>9, <1>11 DEF Inv, Types

\* A token that is used is no longer stored.
LEMMA TokenCleared ==
    ASSUME Inv, NEW h \in Handlers, ClearResetToken(h)
    PROVE  Inv'
  <1>1. handler' \in [Handlers -> Handler] /\ handler'[h] = Free
    BY FreeHandler DEF Inv, Types, ClearResetToken, End
  <1>2. \A g \in Handlers : g # h => handler'[g] = handler[g]
    BY DEF Inv, Types, ClearResetToken, End
  <1>3. /\ UNCHANGED <<password, locked, verified, mails>>
        /\ reset'.token = Nothing
        /\ spent' = spent \/ spent' = spent \cup {handler[h].token}
        /\ handler[h].kind = "reset"
    BY DEF ClearResetToken, NoReset, At
  <1>4. spent \subseteq spent' /\ spent' \subseteq mails /\ mails \subseteq Tokens
    BY <1>3 DEF Inv, Types, TokenFresh
  <1>5. SeesNow(h)' /\ HasChecked(h)' /\ TokenFresh(h)'
    BY <1>1, FreeHandler DEF SeesNow, HasChecked, TokenFresh
  <1>6. \A g \in Handlers : g # h => SeesNow(g)' /\ HasChecked(g)' /\ TokenFresh(g)'
    BY <1>2, <1>3, <1>4 DEF Inv, SeesNow, HasChecked, TokenFresh
  <1>7. Types'
    BY <1>1, <1>3 DEF Inv, Types
  <1>8. (spent \subseteq mails /\ reset.token \notin spent)'
    BY <1>3, <1>4, NothingAssumption
  <1> QED BY <1>5, <1>6, <1>7, <1>8 DEF Inv

\* A new token was not used.
LEMMA TokenStored ==
    ASSUME Inv, ForgotPassword
    PROVE  Inv'
  <1>1. PICK token \in Tokens \ mails : Stored(token)
    BY DEF ForgotPassword
  <1>2. reset'.token = token /\ mails' = mails \cup {token}
    BY <1>1 DEF Stored
  <1>3. UNCHANGED <<password, locked, verified, handler, spent>>
    BY DEF ForgotPassword
  <1>4. \A h \in Handlers : SeesNow(h)' /\ HasChecked(h)' /\ TokenFresh(h)'
    BY <1>2, <1>3 DEF Inv, SeesNow, HasChecked, TokenFresh
  <1>5. Types'
    BY <1>1, <1>2, <1>3 DEF Inv, Types
  <1>6. (spent \subseteq mails /\ reset.token \notin spent)'
    BY <1>1, <1>2, <1>3 DEF Inv
  <1> QED BY <1>4, <1>5, <1>6 DEF Inv

\* The verification and the lock are seen by the requests under way.
LEMMA VerificationSet ==
    ASSUME Inv, NEW value \in BOOLEAN, SetVerified(value)
    PROVE  Inv'
  <1> DEFINE who == IF value THEN Handlers ELSE {}
  <1>1. \A g \in Handlers : handler'[g] = IF g \in who /\ handler[g].kind = "login"
                                          THEN [handler[g] EXCEPT !["proven"] = TRUE] ELSE handler[g]
    BY DEF SetVerified, Seen
  <1>2. handler' \in [Handlers -> Handler]
    <2>1. ASSUME NEW g \in Handlers PROVE handler'[g] \in Handler
      <3>1. handler[g] \in Handler
        BY DEF Inv, Types
      <3>2. \A fld \in {"unlocked", "proven"} : [handler[g] EXCEPT ![fld] = TRUE] \in Handler
        BY <3>1 DEF Handler
      <3> QED BY <1>1, <3>1, <3>2
    <2>2. handler' = [g \in Handlers |-> handler'[g]]
      BY DEF SetVerified, Seen
    <2> QED BY <2>1, <2>2
  <1>3. verified' = value /\ UNCHANGED <<password, locked, reset, mails, spent>>
    BY DEF SetVerified
  <1>4. \A g \in Handlers :
            /\ handler'[g].kind = handler[g].kind /\ handler'[g].phase = handler[g].phase
            /\ handler'[g].secret = handler[g].secret /\ handler'[g].token = handler[g].token
            /\ handler'[g].unlocked = handler[g].unlocked
            /\ handler'[g].right = handler[g].right /\ handler'[g].fresh = handler[g].fresh
            /\ handler[g].proven => handler'[g].proven
            /\ handler[g].kind = "login" /\ value => handler'[g].proven
    BY <1>1 DEF Inv, Types, Handler
  <1>5. \A g \in Handlers : SeesNow(g)' /\ HasChecked(g)' /\ TokenFresh(g)'
    BY <1>3, <1>4 DEF Inv, SeesNow, HasChecked, TokenFresh
  <1> QED BY <1>2, <1>3, <1>5 DEF Inv, Types

LEMMA LockSet ==
    ASSUME Inv, NEW value \in BOOLEAN, SetLocked(value)
    PROVE  Inv'
  <1> DEFINE who == IF value THEN {} ELSE Handlers
  <1>1. \A g \in Handlers : handler'[g] =
            IF g \in who /\ handler[g].kind \in {"login", "refresh"}
            THEN [handler[g] EXCEPT !["unlocked"] = TRUE] ELSE handler[g]
    BY DEF SetLocked, Seen
  <1>2. handler' \in [Handlers -> Handler]
    <2>1. ASSUME NEW g \in Handlers PROVE handler'[g] \in Handler
      <3>1. handler[g] \in Handler
        BY DEF Inv, Types
      <3>2. \A fld \in {"unlocked", "proven"} : [handler[g] EXCEPT ![fld] = TRUE] \in Handler
        BY <3>1 DEF Handler
      <3> QED BY <1>1, <3>1, <3>2
    <2>2. handler' = [g \in Handlers |-> handler'[g]]
      BY DEF SetLocked, Seen
    <2> QED BY <2>1, <2>2
  <1>3. locked' = value /\ UNCHANGED <<password, verified, reset, mails, spent>>
    BY DEF SetLocked
  <1>4. \A g \in Handlers :
            /\ handler'[g].kind = handler[g].kind /\ handler'[g].phase = handler[g].phase
            /\ handler'[g].secret = handler[g].secret /\ handler'[g].token = handler[g].token
            /\ handler'[g].proven = handler[g].proven
            /\ handler'[g].right = handler[g].right /\ handler'[g].fresh = handler[g].fresh
            /\ handler[g].unlocked => handler'[g].unlocked
            /\ handler[g].kind \in {"login", "refresh"} /\ ~value => handler'[g].unlocked
    BY <1>1 DEF Inv, Types, Handler
  <1>5. \A g \in Handlers : SeesNow(g)' /\ HasChecked(g)' /\ TokenFresh(g)'
    BY <1>3, <1>4 DEF Inv, SeesNow, HasChecked, TokenFresh
  <1> QED BY <1>2, <1>3, <1>5 DEF Inv, Types

\* What leaves the account, the requests and the tokens alone.
LEMMA Untouched ==
    ASSUME Inv, UNCHANGED <<Account, mails, handler, spent>>
    PROVE  Inv'
  <1>1. Types'
    BY DEF Inv, Types, Account
  <1>2. \A h \in Handlers : SeesNow(h)' /\ HasChecked(h)' /\ TokenFresh(h)'
    BY DEF Inv, Account, SeesNow, HasChecked, TokenFresh
  <1> QED BY <1>1, <1>2 DEF Inv, Account

LEMMA StepInv == Inv /\ [Next]_vars => Inv'
  <1> SUFFICES ASSUME Inv, [Next]_vars PROVE Inv'
    OBVIOUS
  <1>1. CASE \E h \in Handlers :
               \/ \E via \in Interfaces, secret \in Passwords : Login(h, via, secret)
               \/ Verify(h) \/ RecordFailure(h) \/ LockCheck(h) \/ VerifiedCheck(h)
               \/ Reject(h) \/ Issue(h)
    BY <1>1, LoginSteps
  <1>2. CASE \E h \in Handlers : Refresh(h) \/ RefreshCheck(h) \/ RefreshIssue(h)
    BY <1>2, RefreshSteps
  <1>3. ASSUME NEW h \in Handlers, NEW token \in mails, NEW secret \in Passwords,
               ResetPassword(h, token, secret)
        PROVE  Inv'
    BY <1>3, Begins DEF ResetPassword, Inv, Types, Interfaces
  <1>4. CASE \E h \in Handlers : FindByResetToken(h)
    BY <1>4, TokenFound
  <1>5. CASE \E h \in Handlers : UpdatePassword(h)
    BY <1>5, PasswordWritten
  <1>6. CASE \E h \in Handlers : ClearResetToken(h)
    BY <1>6, TokenCleared
  <1>7. CASE \E h \in Handlers : Break(h)
    BY <1>7, Ends DEF Break
  <1>8. CASE ForgotPassword
    BY <1>8, TokenStored
  <1>9. CASE \E value \in BOOLEAN : SetVerified(value) \/ SetLocked(value)
    BY <1>9, VerificationSet, LockSet
  <1>10. CASE Tick
    BY <1>10, Untouched DEF Tick
  <1>11. CASE UNCHANGED vars
    BY <1>11, Untouched DEF vars, Account
  <1> QED BY <1>1, <1>2, <1>3, <1>4, <1>5, <1>6, <1>7, <1>8, <1>9, <1>10, <1>11 DEF Next

\* The inductive invariant: a request remembers what was so at some moment
\* since it came, its phase what it found, and no stored token is used.
THEOREM Invariance == Spec => []Inv
  BY InitInv, StepInv, PTL DEF Spec

\* Whoever gets a session had the right password, a verified address and an
\* unlocked account at some moment since it asked, however many requests and
\* operators run between the checks of login_impl and session_refresh.
THEOREM SessionsJustified == Spec => []IssueJustified
  <1>1. Inv => IssueJustified
    BY DEF Inv, HasChecked, IssueJustified
  <1> QED BY Invariance, <1>1, PTL

\* A reset that writes a password came before any with its token was answered,
\* although reset_password_action reads, writes and clears in three statements.
THEOREM ResetsJustified == Spec => []ResetJustified
  <1>1. Inv => ResetJustified
    BY DEF Inv, TokenFresh, ResetJustified, At
  <1> QED BY Invariance, <1>1, PTL

-----------------------------------------------------------------------------
(* The limiter.                                                             *)

Since(entries, time) == {e \in entries : e[1] >= time}
Tries(h, phase, i) == At(h, "login", phase) /\ handler[h].via = i
Busy(phase, i) == {h \in Handlers : Tries(h, phase, i)}

\* The numbers of the entries of an instant do not exceed their number.
Numbered(entries) ==
    \A e \in entries : e[2] <= Cardinality({f \in entries : f[1] = e[1]})

LimiterTypes(i) ==
    /\ now \in Nat /\ dropped[i] \in Nat
    /\ failures[i] \subseteq Nat \X (Nat \ {0}) /\ IsFiniteSet(failures[i])
    /\ wrong[i] \subseteq Nat \X (Nat \ {0}) /\ IsFiniteSet(wrong[i])
    /\ \A e \in wrong[i] : e[1] <= now

\* Since any moment, every wrong password of the window is known to the
\* limiter, or its request is about to record it, or was dropped.
Matched(i) ==
    \A time \in Nat :
       Cardinality(Since(Recent(wrong[i]), time))
         <= Cardinality(Since(failures[i], time)) + Cardinality(Busy("wrong", i)) + dropped[i]

\* The requests that have been let in count before they have tried.
LetIn(i) ==
    Cardinality(Recent(wrong[i])) + Cardinality(Busy("begun", i))
      <= MaxAttempts - 1 + Cardinality(Handlers) + dropped[i]

\* What holds of the limiter of one interface.
LimiterInv(i) ==
    /\ LimiterTypes(i) /\ Numbered(failures[i])
    /\ Matched(i) /\ LetIn(i)
    /\ \A h \in Handlers : handler[h].kind = "login" => MaxAttempts > 0

Mine(i) == <<failures[i], wrong[i], dropped[i]>>

Maps ==
    /\ failures = [i \in Interfaces |-> failures[i]]
    /\ wrong = [i \in Interfaces |-> wrong[i]]
    /\ dropped = [i \in Interfaces |-> dropped[i]]
-----------------------------------------------------------------------------
\* The requests in a phase are finitely many.
LEMMA BusyFinite ==
    \A phase, i :
               /\ IsFiniteSet(Busy(phase, i)) /\ Cardinality(Busy(phase, i)) \in Nat
               /\ Cardinality(Busy(phase, i)) <= Cardinality(Handlers)
               /\ Cardinality(Handlers) \in Nat /\ Cardinality(Handlers) > 0
  <1>1. \A phase, i : Busy(phase, i) \subseteq Handlers
    BY DEF Busy
  <1>2. Cardinality(Handlers) \in Nat /\ Cardinality(Handlers) > 0
    BY HandlersAssumption, FS_CardinalityType, FS_EmptySet
  <1> QED BY <1>1, <1>2, HandlersAssumption, FS_Subset, FS_CardinalityType

\* So are the entries since a moment, and fewer the fewer entries there are.
LEMMA SinceFinite ==
    ASSUME NEW entries, IsFiniteSet(entries), NEW fewer \in SUBSET entries, NEW time
    PROVE  /\ IsFiniteSet(fewer) /\ Cardinality(fewer) \in Nat
           /\ Cardinality(fewer) <= Cardinality(entries)
           /\ Since(fewer, time) \subseteq Since(entries, time)
           /\ IsFiniteSet(Since(entries, time)) /\ Cardinality(Since(entries, time)) \in Nat
           /\ Cardinality(Since(fewer, time)) \in Nat
           /\ Cardinality(Since(fewer, time)) <= Cardinality(Since(entries, time))
  <1>1. Since(fewer, time) \subseteq Since(entries, time) /\ Since(entries, time) \subseteq entries
    BY DEF Since
  <1> QED BY <1>1, FS_Subset, FS_CardinalityType

\* An entry is added to those since any moment up to now.
LEMMA EntryAdded ==
    ASSUME NEW entries \in SUBSET (Nat \X (Nat \ {0})), IsFiniteSet(entries), now \in Nat,
           NEW time \in Nat
    PROVE  /\ Entered(entries) \subseteq Nat \X (Nat \ {0}) /\ IsFiniteSet(Entered(entries))
           /\ Cardinality(Since(Entered(entries), time)) <= Cardinality(Since(entries, time)) + 1
           /\ Numbered(entries) =>
                /\ Numbered(Entered(entries))
                /\ time <= now => Cardinality(Since(Entered(entries), time))
                                   = Cardinality(Since(entries, time)) + 1
  <1> DEFINE same == {e \in entries : e[1] = now}
             entry == <<now, 1 + Cardinality(same)>>
  <1>1. IsFiniteSet(same) /\ Cardinality(same) \in Nat
    BY FS_Subset, FS_CardinalityType
  <1>2. entry \in Nat \X (Nat \ {0})
    BY <1>1
  <1>3. /\ Entered(entries) = entries \cup {entry}
        /\ entry[1] = now /\ entry[2] = 1 + Cardinality(same)
        /\ \A e \in entries : e[1] = now <=> e \in same
    BY DEF Entered
  <1> HIDE DEF entry
  <1>4. IsFiniteSet(Entered(entries))
    BY <1>3, FS_AddElement
  <1>5. IsFiniteSet(Since(entries, time)) /\ Cardinality(Since(entries, time)) \in Nat
    BY SinceFinite
  <1>6. Since(Entered(entries), time)
          = IF time <= now THEN Since(entries, time) \cup {entry} ELSE Since(entries, time)
    BY <1>3 DEF Since
  <1>7. Cardinality(Since(Entered(entries), time)) <= Cardinality(Since(entries, time)) + 1
    <2>1. /\ IsFiniteSet(Since(entries, time) \cup {entry})
          /\ Cardinality(Since(entries, time) \cup {entry}) <= Cardinality(Since(entries, time)) + 1
      BY <1>5, FS_AddElement
    <2> QED BY <1>5, <1>6, <2>1
  <1>8. ASSUME Numbered(entries)
        PROVE  /\ entry \notin entries
               /\ Numbered(Entered(entries))
    <2>1. entry \notin entries
      BY <1>1, <1>3, <1>8 DEF Numbered
    <2>2. ASSUME NEW e \in entries, e[1] # now
          PROVE  {f \in Entered(entries) : f[1] = e[1]} = {f \in entries : f[1] = e[1]}
      BY <1>3, <2>2
    <2>3. {f \in Entered(entries) : f[1] = now} = same \cup {entry}
      BY <1>3
    <2>4. Cardinality(same \cup {entry}) = Cardinality(same) + 1
      BY <1>1, <2>1, FS_AddElement
    <2> HIDE DEF same
    <2>5. ASSUME NEW e \in Entered(entries)
          PROVE  e[2] <= Cardinality({f \in Entered(entries) : f[1] = e[1]})
      <3>1. CASE e = entry
        <4>1. {f \in Entered(entries) : f[1] = e[1]} = same \cup {entry}
          BY <1>3, <2>3, <3>1
        <4> QED BY <1>1, <1>3, <2>4, <3>1, <4>1
      <3>2. CASE e \in entries /\ e[1] # now
        BY <1>3, <1>8, <2>2, <3>2 DEF Numbered
      <3>3. CASE e \in entries /\ e[1] = now
        <4>1. e[2] <= Cardinality(same) /\ e[2] \in Nat
          BY <1>8, <3>3 DEF Numbered, same
        <4>2. {f \in Entered(entries) : f[1] = e[1]} = same \cup {entry}
          BY <2>3, <3>3
        <4>3. Cardinality({f \in Entered(entries) : f[1] = e[1]}) = Cardinality(same) + 1
          BY <2>4, <4>2, Zenon
        <4> QED BY <1>1, <4>1, <4>3
      <3> QED BY <1>3, <3>1, <3>2, <3>3
    <2> QED BY <2>1, <2>5 DEF Numbered
  <1>9. Numbered(entries) /\ time <= now =>
          Cardinality(Since(Entered(entries), time)) = Cardinality(Since(entries, time)) + 1
    <2>1. entry \notin entries => entry \notin Since(entries, time)
      BY DEF Since
    <2> QED BY <1>5, <1>6, <1>8, <2>1, FS_AddElement
  <1> QED BY <1>2, <1>3, <1>4, <1>7, <1>8, <1>9

\* What is not recent is in no window: since any moment of the window, the
\* recent entries are all there are.
LEMMA RecentKept ==
    ASSUME now \in Nat, NEW entries \in SUBSET (Nat \X (Nat \ {0})), IsFiniteSet(entries)
    PROVE  /\ Recent(entries) \subseteq entries /\ IsFiniteSet(Recent(entries))
           /\ \A time \in Nat : now - time < Window => Since(Recent(entries), time) = Since(entries, time)
           /\ Numbered(entries) => Numbered(Recent(entries))
  <1>1. Recent(entries) \subseteq entries /\ IsFiniteSet(Recent(entries))
    BY FS_Subset DEF Recent
  <1>2. \A time \in Nat : now - time < Window => Since(Recent(entries), time) = Since(entries, time)
    BY TimesAssumption DEF Recent, Since
  <1>3. ASSUME Numbered(entries), NEW e \in Recent(entries)
        PROVE  e[2] <= Cardinality({f \in Recent(entries) : f[1] = e[1]})
    <2>1. {f \in Recent(entries) : f[1] = e[1]} = {f \in entries : f[1] = e[1]}
      BY DEF Recent
    <2> QED BY <1>3, <2>1 DEF Numbered, Recent
  <1> QED BY <1>1, <1>2, <1>3 DEF Numbered

-----------------------------------------------------------------------------
\* What a step of a request makes of it, and that the others stay.
LEMMA Moved ==
    ASSUME Inv, NEW h \in Handlers
    PROVE  /\ \A kind, phase : At(h, kind, phase) <=> handler[h].kind = kind /\ handler[h].phase = phase
           /\ End(h) => /\ handler'[h].kind = "none"
                        /\ \A g \in Handlers : g # h => handler'[g] = handler[g]
           /\ \A phase : To(h, phase) =>
                /\ handler'[h].kind = handler[h].kind /\ handler'[h].phase = phase
                /\ handler'[h].via = handler[h].via
                /\ \A g \in Handlers : g # h => handler'[g] = handler[g]
           /\ \A kind, via, secret, token : Begin(h, kind, via, secret, token) =>
                /\ handler'[h].kind = kind /\ handler'[h].phase = "begun"
                /\ handler'[h].via = via
                /\ \A g \in Handlers : g # h => handler'[g] = handler[g]
  <1>1. handler \in [Handlers -> Handler]
    BY DEF Inv, Types
  <1>2. End(h) => /\ handler'[h].kind = "none"
                  /\ \A g \in Handlers : g # h => handler'[g] = handler[g]
    BY <1>1, FreeHandler DEF End
  <1>3. ASSUME NEW phase, To(h, phase)
        PROVE  /\ handler'[h].kind = handler[h].kind /\ handler'[h].phase = phase
               /\ handler'[h].via = handler[h].via
               /\ \A g \in Handlers : g # h => handler'[g] = handler[g]
    BY <1>1, <1>3 DEF To, Handler
  <1>4. ASSUME NEW kind, NEW via, NEW secret, NEW token, Begin(h, kind, via, secret, token)
        PROVE  /\ handler'[h].kind = kind /\ handler'[h].phase = "begun"
               /\ handler'[h].via = via
               /\ \A g \in Handlers : g # h => handler'[g] = handler[g]
    BY <1>1, <1>4 DEF Begin, Free
  <1> QED BY <1>2, <1>3, <1>4 DEF At

\* A step that leaves the limiter alone and makes no login try or fail.
LEMMA LimiterLeft ==
    ASSUME NEW i \in Interfaces, LimiterInv(i), UNCHANGED <<now, Mine(i)>>,
           Busy("wrong", i)' = Busy("wrong", i), Busy("begun", i)' \subseteq Busy("begun", i),
           \A h \in Handlers : handler'[h].kind = "login"
              => MaxAttempts > 0 \/ \E g \in Handlers : handler[g].kind = "login"
    PROVE  LimiterInv(i)'
  <1> USE DEF Mine
  <1>1. (LimiterTypes(i) /\ Numbered(failures[i]))'
    BY DEF LimiterInv, LimiterTypes, Numbered
  <1>2. Recent(wrong[i])' = Recent(wrong[i]) /\ \A time : Since(failures[i], time)' = Since(failures[i], time)
    BY DEF Recent, Since
  <1>3. Matched(i)'
    BY <1>2 DEF LimiterInv, Matched, Since
  <1>4. Cardinality(Busy("begun", i)') <= Cardinality(Busy("begun", i)) /\ Cardinality(Busy("begun", i)') \in Nat
    BY BusyFinite, FS_Subset, FS_CardinalityType
  <1>5. Cardinality(Recent(wrong[i])) \in Nat
    BY RecentKept, FS_CardinalityType DEF LimiterInv, LimiterTypes
  <1>6. LetIn(i)'
    BY <1>2, <1>4, <1>5, BusyFinite, TimesAssumption DEF LimiterInv, LimiterTypes, LetIn
  <1> QED BY <1>1, <1>3, <1>6 DEF LimiterInv

\* A request that leaves a phase, or comes to it.
LEMMA BusyChanges ==
    ASSUME NEW h \in Handlers, \A g \in Handlers : g # h => handler'[g] = handler[g],
           NEW phase, NEW i
    PROVE  /\ ~Tries(h, phase, i)' => Busy(phase, i)' = Busy(phase, i) \ {h}
           /\ Tries(h, phase, i)' => Busy(phase, i)' = Busy(phase, i) \cup {h}
           /\ Cardinality(Busy(phase, i)')
                = Cardinality(Busy(phase, i)) + (IF Tries(h, phase, i)' THEN 1 ELSE 0)
                                           - (IF Tries(h, phase, i) THEN 1 ELSE 0)
  <1>1. h \in Busy(phase, i) <=> Tries(h, phase, i)
    BY DEF Busy, Tries
  <1>2. ~Tries(h, phase, i)' => Busy(phase, i)' = Busy(phase, i) \ {h}
    BY DEF Busy, Tries, At
  <1>3. Tries(h, phase, i)' => Busy(phase, i)' = Busy(phase, i) \cup {h}
    BY DEF Busy, Tries, At
  <1>4. IsFiniteSet(Busy(phase, i)) /\ Cardinality(Busy(phase, i)) \in Nat
    BY BusyFinite
  <1>5. /\ Cardinality(Busy(phase, i) \ {h})
             = IF h \in Busy(phase, i) THEN Cardinality(Busy(phase, i)) - 1 ELSE Cardinality(Busy(phase, i))
        /\ Cardinality(Busy(phase, i) \cup {h})
             = IF h \in Busy(phase, i) THEN Cardinality(Busy(phase, i)) ELSE Cardinality(Busy(phase, i)) + 1
    BY <1>4, FS_AddElement, FS_RemoveElement
  <1>6. CASE Tries(h, phase, i)'
    <2>1. Cardinality(Busy(phase, i)') = Cardinality(Busy(phase, i) \cup {h})
      BY <1>3, <1>6
    <2>2. CASE Tries(h, phase, i)
      BY <1>1, <1>3, <1>4, <1>5, <1>6, <2>1, <2>2
    <2>3. CASE ~Tries(h, phase, i)
      BY <1>1, <1>3, <1>4, <1>5, <1>6, <2>1, <2>3
    <2> QED BY <2>2, <2>3
  <1>7. CASE ~Tries(h, phase, i)'
    BY <1>1, <1>2, <1>4, <1>5, <1>7
  <1> QED BY <1>2, <1>3, <1>6, <1>7

\* A login is let in: the recent failures leave it a place, and the others who
\* take one are under way.
LEMMA LoginLimited ==
    ASSUME Inv, Maps, NEW i \in Interfaces, LimiterInv(i), NEW h \in Handlers,
           NEW secret \in Passwords, Login(h, i, secret)
    PROVE  LimiterInv(i)'
  <1> DEFINE wrongs == Cardinality(Recent(wrong[i]))
             fails  == Cardinality(Recent(failures[i]))
             begun  == Cardinality(Busy("begun", i))
             trying == Cardinality(Busy("wrong", i))
  <1>1. /\ At(h, "none", "free") /\ fails < MaxAttempts /\ failures'[i] = Recent(failures[i])
        /\ Begin(h, "login", i, secret, Nothing) /\ UNCHANGED <<now, wrong[i], dropped[i]>>
    BY DEF Login, Maps
  <1>2. /\ handler[h].kind = "none"
        /\ handler'[h].kind = "login" /\ handler'[h].phase = "begun" /\ handler'[h].via = i
        /\ \A g \in Handlers : g # h => handler'[g] = handler[g]
    BY <1>1, Moved
  <1>3. Tries(h, "begun", i)' /\ ~Tries(h, "begun", i)
        /\ ~Tries(h, "wrong", i)' /\ ~Tries(h, "wrong", i)
    BY <1>2 DEF At, Tries
  <1>4. /\ Busy("begun", i)' = Busy("begun", i) \cup {h} /\ Busy("wrong", i)' = Busy("wrong", i) \ {h}
        /\ Cardinality(Busy("begun", i)') = begun + 1 /\ Cardinality(Busy("wrong", i)') = trying
        /\ begun \in Nat /\ trying \in Nat
    BY <1>2, <1>3, BusyChanges, BusyFinite
  <1>5. begun + trying < Cardinality(Handlers)
    <2>1. Busy("begun", i) \cap Busy("wrong", i) = {}
      BY DEF Busy, Tries, At
    <2>2. /\ Cardinality(Busy("begun", i) \cup Busy("wrong", i)) = begun + trying
          /\ IsFiniteSet(Busy("begun", i) \cup Busy("wrong", i))
      <3>1. /\ IsFiniteSet(Busy("begun", i)) /\ IsFiniteSet(Busy("wrong", i))
            /\ Cardinality(Busy("begun", i) \cap Busy("wrong", i)) = 0
        BY <2>1, BusyFinite, FS_EmptySet
      <3>2. /\ IsFiniteSet(Busy("begun", i) \cup Busy("wrong", i))
            /\ Cardinality(Busy("begun", i) \cup Busy("wrong", i))
                 = Cardinality(Busy("begun", i)) + Cardinality(Busy("wrong", i))
                   - Cardinality(Busy("begun", i) \cap Busy("wrong", i))
        BY <3>1, FS_Union
      <3> QED BY <1>4, <3>1, <3>2
    <2>3. Busy("begun", i) \cup Busy("wrong", i) \subseteq Handlers \ {h}
      BY <1>2 DEF Busy, Tries, At
    <2>4. Cardinality(Handlers \ {h}) = Cardinality(Handlers) - 1 /\ IsFiniteSet(Handlers \ {h})
      BY HandlersAssumption, FS_RemoveElement
    <2> QED BY <1>4, <2>2, <2>3, <2>4, BusyFinite, FS_Subset
  <1>6. /\ failures'[i] \subseteq failures[i] /\ IsFiniteSet(failures'[i])
        /\ \A time \in Nat : now - time < Window => Since(failures'[i], time) = Since(failures[i], time)
        /\ Numbered(failures'[i])
        /\ Recent(wrong[i]) \subseteq wrong[i] /\ IsFiniteSet(Recent(wrong[i])) /\ wrongs \in Nat
    BY <1>1, RecentKept, FS_CardinalityType DEF LimiterInv, LimiterTypes
  <1>7. (LimiterTypes(i) /\ Numbered(failures[i]))'
    BY <1>1, <1>6 DEF LimiterInv, LimiterTypes, Numbered
  <1>8. Recent(wrong[i])' = Recent(wrong[i])
    BY <1>1 DEF Recent
  \* The moment the window begins.
  <1>9. ASSUME NEW time \in Nat
        PROVE  \E later \in Nat : /\ now - later < Window
                                  /\ Since(Recent(wrong[i]), time) \subseteq Since(Recent(wrong[i]), later)
                                  /\ Since(failures'[i], later) \subseteq Since(failures'[i], time)
                                  /\ Since(failures'[i], later) \subseteq Recent(failures[i])
    <2> DEFINE later == IF now - time < Window THEN time ELSE now - Window + 1
    <2>1. later \in Nat /\ now - later < Window /\ time <= later
      BY TimesAssumption DEF LimiterInv, LimiterTypes
    <2>2. Since(Recent(wrong[i]), time) \subseteq Since(Recent(wrong[i]), later)
      BY <1>6, TimesAssumption DEF Since, Recent, LimiterInv, LimiterTypes
    <2>3. Since(failures'[i], later) \subseteq Since(failures'[i], time)
      BY <1>6, <2>1 DEF Since, LimiterInv, LimiterTypes
    <2>4. Since(failures'[i], later) \subseteq Recent(failures[i])
      BY <1>1 DEF Since
    <2> HIDE DEF later
    <2> QED BY <2>1, <2>2, <2>3, <2>4
  <1>10. ASSUME NEW time \in Nat
         PROVE  /\ Cardinality(Since(Recent(wrong[i]), time)) <= Cardinality(Since(failures'[i], time)) + trying + dropped[i]
                /\ Cardinality(Since(Recent(wrong[i]), time)) <= fails + trying + dropped[i]
                /\ fails \in Nat
    <2>1. PICK later \in Nat : /\ now - later < Window
                               /\ Since(Recent(wrong[i]), time) \subseteq Since(Recent(wrong[i]), later)
                               /\ Since(failures'[i], later) \subseteq Since(failures'[i], time)
                               /\ Since(failures'[i], later) \subseteq Recent(failures[i])
      BY <1>9
    <2>2. /\ Cardinality(Since(Recent(wrong[i]), time)) <= Cardinality(Since(Recent(wrong[i]), later))
          /\ Cardinality(Since(Recent(wrong[i]), time)) \in Nat
          /\ Cardinality(Since(Recent(wrong[i]), later)) \in Nat
      BY <1>6, <2>1, SinceFinite, FS_Subset
    <2>3. Cardinality(Since(Recent(wrong[i]), later)) <= Cardinality(Since(failures'[i], later)) + trying + dropped[i]
      BY <1>6, <2>1 DEF LimiterInv, Matched
    <2>4. /\ Cardinality(Since(failures'[i], later)) <= Cardinality(Since(failures'[i], time))
          /\ Cardinality(Since(failures'[i], later)) <= fails /\ fails \in Nat
          /\ Cardinality(Since(failures'[i], time)) \in Nat /\ Cardinality(Since(failures'[i], later)) \in Nat
      BY <1>1, <1>6, <2>1, SinceFinite, FS_Subset, FS_CardinalityType
    <2> QED BY <1>4, <2>2, <2>3, <2>4 DEF LimiterInv, LimiterTypes
  <1>11. Matched(i)'
    BY <1>1, <1>4, <1>8, <1>10 DEF Matched, Since
  <1>12. wrongs <= fails + trying + dropped[i] /\ fails \in Nat
    <2>1. Since(Recent(wrong[i]), 0) = Recent(wrong[i])
      BY DEF Since, Recent, LimiterInv, LimiterTypes
    <2> QED BY <1>10, <2>1
  <1>13. LetIn(i)'
    BY <1>1, <1>4, <1>5, <1>6, <1>8, <1>12, BusyFinite, TimesAssumption DEF LetIn, LimiterInv, LimiterTypes
  <1>14. MaxAttempts > 0
    BY <1>1, <1>12, TimesAssumption
  <1> QED BY <1>7, <1>11, <1>13, <1>14, TimesAssumption DEF LimiterInv

\* A wrong password is tried: its request will record it.
LEMMA WrongTried ==
    ASSUME Inv, Maps, NEW i \in Interfaces, LimiterInv(i), NEW h \in Handlers, Verify(h),
           handler[h].via = i, handler[h].secret # password
    PROVE  LimiterInv(i)'
  <1> DEFINE new == Entered(Recent(wrong[i]))
  <1>1. /\ Tries(h, "begun", i) /\ To(h, "wrong") /\ wrong'[i] = new
        /\ UNCHANGED <<now, failures[i], dropped[i]>>
    BY DEF Verify, Maps, Tries
  <1>2. /\ handler'[h].kind = "login" /\ handler[h].kind = "login"
        /\ \A g \in Handlers : g # h => handler'[g] = handler[g]
        /\ Tries(h, "wrong", i)' /\ ~Tries(h, "wrong", i)
        /\ ~Tries(h, "begun", i)'
    BY <1>1, Moved DEF At, Tries
  <1>3. /\ Cardinality(Busy("begun", i)') = Cardinality(Busy("begun", i)) - 1
        /\ Cardinality(Busy("wrong", i)') = Cardinality(Busy("wrong", i)) + 1
        /\ Cardinality(Busy("begun", i)) \in Nat /\ Cardinality(Busy("wrong", i)) \in Nat
    BY <1>1, <1>2, BusyChanges, BusyFinite
  <1>4. /\ Recent(wrong[i]) \in SUBSET (Nat \X (Nat \ {0})) /\ IsFiniteSet(Recent(wrong[i]))
        /\ now \in Nat /\ dropped[i] \in Nat /\ IsFiniteSet(failures[i])
    BY RecentKept DEF LimiterInv, LimiterTypes
  <1>5. /\ new \subseteq Nat \X (Nat \ {0}) /\ IsFiniteSet(new)
        /\ \A time \in Nat : Cardinality(Since(new, time)) <= Cardinality(Since(Recent(wrong[i]), time)) + 1
    BY <1>4, EntryAdded
  <1>6. \A e \in new : e[1] <= now
    BY <1>4 DEF Entered, Recent, LimiterInv, LimiterTypes
  <1> HIDE DEF new
  <1>7. LimiterTypes(i)' /\ Numbered(failures[i])'
    BY <1>1, <1>4, <1>5, <1>6 DEF LimiterInv, LimiterTypes, Numbered
  <1>8. Recent(wrong[i])' \subseteq new
    BY <1>1 DEF Recent
  <1>9. ASSUME NEW time \in Nat
        PROVE  Cardinality(Since(Recent(wrong[i])', time))
                 <= Cardinality(Since(failures[i], time)) + Cardinality(Busy("wrong", i)') + dropped[i]
    <2>1. /\ Cardinality(Since(Recent(wrong[i])', time)) <= Cardinality(Since(new, time))
          /\ Cardinality(Since(Recent(wrong[i])', time)) \in Nat /\ Cardinality(Since(new, time)) \in Nat
          /\ Cardinality(Since(Recent(wrong[i]), time)) \in Nat
          /\ Cardinality(Since(failures[i], time)) \in Nat
      BY <1>4, <1>5, <1>8, SinceFinite
    <2>2. Cardinality(Since(new, time)) <= Cardinality(Since(Recent(wrong[i]), time)) + 1
      BY <1>5
    <2>3. Cardinality(Since(Recent(wrong[i]), time))
            <= Cardinality(Since(failures[i], time)) + Cardinality(Busy("wrong", i)) + dropped[i]
      BY DEF LimiterInv, Matched
    <2> QED BY <1>3, <1>4, <2>1, <2>2, <2>3
  <1>10. Matched(i)'
    BY <1>1, <1>9 DEF Matched, Since
  <1>11. /\ Cardinality(Recent(wrong[i])') <= Cardinality(Recent(wrong[i])) + 1
         /\ Cardinality(Recent(wrong[i])') \in Nat /\ Cardinality(Recent(wrong[i])) \in Nat
    <2>1. Since(new, 0) = new /\ Since(Recent(wrong[i]), 0) = Recent(wrong[i])
      BY <1>4, <1>5 DEF Since
    <2>2. Cardinality(new) <= Cardinality(Recent(wrong[i])) + 1
      BY <1>5, <2>1
    <2> QED BY <1>4, <1>5, <1>8, <2>2, FS_Subset, FS_CardinalityType
  <1>12. LetIn(i)'
    BY <1>1, <1>3, <1>4, <1>11, BusyFinite, TimesAssumption DEF LetIn, LimiterInv
  <1>13. \A g \in Handlers : handler'[g].kind = "login" => MaxAttempts > 0
    BY <1>2 DEF LimiterInv
  <1> QED BY <1>7, <1>10, <1>12, <1>13 DEF LimiterInv

\* A failure is recorded, and its request is done.
LEMMA FailureRecorded ==
    ASSUME Inv, Maps, NEW i \in Interfaces, LimiterInv(i), NEW h \in Handlers,
           RecordFailure(h), handler[h].via = i
    PROVE  LimiterInv(i)'
  <1> DEFINE kept == Recent(failures[i])  new == Entered(kept)
  <1>1. /\ Tries(h, "wrong", i) \/ At(h, "login", "rejected")
        /\ End(h) /\ failures'[i] = new /\ UNCHANGED <<now, wrong[i], dropped[i]>>
    BY DEF RecordFailure, Maps, Tries
  <1>2. /\ handler'[h].kind = "none" /\ handler[h].kind = "login"
        /\ \A g \in Handlers : g # h => handler'[g] = handler[g]
        /\ ~Tries(h, "wrong", i)' /\ ~Tries(h, "begun", i)' /\ ~Tries(h, "begun", i)
    BY <1>1, Moved DEF At, Tries
  <1>3. /\ Cardinality(Busy("begun", i)') = Cardinality(Busy("begun", i))
        /\ Cardinality(Busy("wrong", i)') + 1 >= Cardinality(Busy("wrong", i))
        /\ Cardinality(Busy("begun", i)) \in Nat /\ Cardinality(Busy("wrong", i)) \in Nat
        /\ Cardinality(Busy("wrong", i)') \in Nat
    <2>1. /\ Cardinality(Busy("begun", i)') = Cardinality(Busy("begun", i))
          /\ Cardinality(Busy("wrong", i)') =
               Cardinality(Busy("wrong", i)) - (IF Tries(h, "wrong", i) THEN 1 ELSE 0)
      <3>1. Cardinality(Busy("wrong", i)) \in Nat /\ Cardinality(Busy("begun", i)) \in Nat
        BY BusyFinite
      <3> QED BY <1>2, <3>1, BusyChanges
    <2>2. Cardinality(Busy("begun", i)) \in Nat /\ Cardinality(Busy("wrong", i)) \in Nat
      BY BusyFinite
    <2>3. Busy("wrong", i)' \subseteq Busy("wrong", i)
      BY <1>2, BusyChanges
    <2>4. Cardinality(Busy("wrong", i)') \in Nat
      BY <2>3, BusyFinite, FS_Subset, FS_CardinalityType
    <2> QED BY <2>1, <2>2, <2>4
  <1>4. /\ kept \in SUBSET (Nat \X (Nat \ {0})) /\ IsFiniteSet(kept) /\ Numbered(kept)
        /\ kept \subseteq failures[i]
        /\ now \in Nat /\ dropped[i] \in Nat /\ IsFiniteSet(failures[i]) /\ IsFiniteSet(Recent(wrong[i]))
        /\ \A time \in Nat : now - time < Window => Since(kept, time) = Since(failures[i], time)
    BY RecentKept DEF LimiterInv, LimiterTypes
  <1> HIDE DEF kept
  <1>5. /\ new \subseteq Nat \X (Nat \ {0}) /\ IsFiniteSet(new) /\ Numbered(new)
        /\ \A time \in Nat : time <= now => Cardinality(Since(new, time)) = Cardinality(Since(kept, time)) + 1
    BY <1>4, EntryAdded
  <1>6. kept \subseteq new
    BY DEF Entered
  <1> HIDE DEF new
  <1>7. LimiterTypes(i)' /\ Numbered(failures[i])'
    BY <1>1, <1>4, <1>5 DEF LimiterInv, LimiterTypes, Numbered
  <1>8. Recent(wrong[i])' = Recent(wrong[i])
    BY <1>1 DEF Recent
  <1>9. ASSUME NEW time \in Nat
        PROVE  Cardinality(Since(Recent(wrong[i]), time))
                 <= Cardinality(Since(new, time)) + Cardinality(Busy("wrong", i)') + dropped[i]
    <2> DEFINE later == IF now - time < Window THEN time ELSE now - Window + 1
    <2>1. later \in Nat /\ now - later < Window /\ time <= later
      BY <1>4, TimesAssumption
    <2>2. Since(Recent(wrong[i]), time) \subseteq Since(Recent(wrong[i]), later)
      BY <1>4, TimesAssumption DEF Since, Recent, LimiterInv, LimiterTypes
    <2>3. Since(new, later) \subseteq Since(new, time)
      BY <1>4, <1>5, <2>1 DEF Since
    <2> HIDE DEF later
    <2>4. /\ Cardinality(Since(Recent(wrong[i]), time)) <= Cardinality(Since(Recent(wrong[i]), later))
          /\ Cardinality(Since(Recent(wrong[i]), time)) \in Nat
          /\ Cardinality(Since(Recent(wrong[i]), later)) \in Nat
          /\ Cardinality(Since(new, later)) <= Cardinality(Since(new, time))
          /\ Cardinality(Since(new, time)) \in Nat /\ Cardinality(Since(new, later)) \in Nat
          /\ Cardinality(Since(kept, later)) \in Nat
      BY <1>4, <1>5, <2>2, <2>3, SinceFinite, FS_Subset
    <2>5. Cardinality(Since(Recent(wrong[i]), later))
            <= Cardinality(Since(kept, later)) + Cardinality(Busy("wrong", i)) + dropped[i]
      BY <1>4, <2>1 DEF LimiterInv, Matched
    <2>6. CASE later <= now
      BY <1>3, <1>4, <1>5, <2>1, <2>4, <2>5, <2>6
    <2>7. CASE ~(later <= now)
      <3>1. Since(Recent(wrong[i]), later) = {}
        BY <1>4, <2>1, <2>7 DEF Since, Recent, LimiterInv, LimiterTypes
      <3>2. Cardinality(Since(Recent(wrong[i]), later)) = 0
        BY <3>1, FS_EmptySet
      <3> QED BY <1>3, <1>4, <2>4, <3>2
    <2> QED BY <2>6, <2>7
  <1>10. Matched(i)'
    BY <1>1, <1>8, <1>9 DEF Matched, Since
  <1>11. LetIn(i)'
    BY <1>1, <1>3, <1>8 DEF LetIn, LimiterInv
  <1>12. \A g \in Handlers : handler'[g].kind = "login" => MaxAttempts > 0
    BY <1>2 DEF LimiterInv
  <1> QED BY <1>7, <1>10, <1>11, <1>12 DEF LimiterInv

\* A session clears the limiter.
LEMMA LimiterCleared ==
    ASSUME Inv, Maps, NEW i \in Interfaces, LimiterInv(i), NEW h \in Handlers, Issue(h),
           handler[h].via = i
    PROVE  LimiterInv(i)'
  <1>1. /\ At(h, "login", "issue") /\ End(h)
        /\ failures'[i] = {} /\ wrong'[i] = {} /\ dropped'[i] = 0 /\ now' = now
    BY DEF Issue, Maps
  <1>2. /\ handler'[h].kind = "none" /\ handler[h].kind = "login"
        /\ \A g \in Handlers : g # h => handler'[g] = handler[g]
    BY <1>1, Moved
  <1>3. LimiterTypes(i)' /\ Numbered(failures[i])'
    BY <1>1, FS_EmptySet DEF LimiterInv, LimiterTypes, Numbered
  <1>4. \A time : Since(Recent(wrong[i])', time) = {} /\ Recent(wrong[i])' = {}
    BY <1>1 DEF Since, Recent
  <1>5. /\ Busy("begun", i)' \subseteq Handlers /\ Busy("wrong", i)' \subseteq Handlers
        /\ Cardinality(Busy("begun", i)') \in Nat /\ Cardinality(Busy("wrong", i)') \in Nat
        /\ Cardinality(Busy("begun", i)') <= Cardinality(Handlers)
    <2>1. /\ Busy("begun", i)' \subseteq Handlers /\ Busy("wrong", i)' \subseteq Handlers
      BY DEF Busy
    <2> QED BY <2>1, HandlersAssumption, FS_Subset, FS_CardinalityType
  <1>6. Since(failures[i], 0)' = {} /\ \A time : Since(failures[i], time)' = {}
    BY <1>1 DEF Since
  <1>7. Matched(i)'
    <2>1. \A time : /\ Cardinality(Since(Recent(wrong[i]), time)') = 0
                    /\ Cardinality(Since(failures[i], time)') = 0
      BY <1>1, FS_EmptySet DEF Since, Recent
    <2> QED BY <1>1, <1>5, <2>1 DEF Matched
  <1>8. MaxAttempts > 0
    BY <1>2 DEF LimiterInv
  <1>9. LetIn(i)'
    <2>1. Cardinality(Recent(wrong[i])') = 0
      BY <1>4, FS_EmptySet
    <2> QED BY <1>1, <1>5, <1>8, <2>1, BusyFinite, TimesAssumption DEF LetIn
  <1> QED BY <1>3, <1>7, <1>8, <1>9 DEF LimiterInv

\* A request is dropped; one that was about to record is counted instead.
LEMMA RequestDropped ==
    ASSUME Inv, Maps, NEW i \in Interfaces, LimiterInv(i), NEW h \in Handlers, Break(h),
           handler[h].via = i
    PROVE  LimiterInv(i)'
  <1> DEFINE more == IF Tries(h, "wrong", i) THEN 1 ELSE 0
  <1>1. /\ End(h) /\ dropped'[i] = dropped[i] + more
        /\ UNCHANGED <<now, failures[i], wrong[i]>>
    BY DEF Break, LimiterInv, LimiterTypes, Maps, Tries
  <1>2. /\ handler'[h].kind = "none"
        /\ \A g \in Handlers : g # h => handler'[g] = handler[g]
        /\ ~Tries(h, "wrong", i)' /\ ~Tries(h, "begun", i)'
    BY <1>1, Moved DEF At, Tries
  <1>3. /\ Cardinality(Busy("begun", i)) \in Nat /\ Cardinality(Busy("wrong", i)) \in Nat
        /\ Cardinality(Busy("begun", i)') \in Nat
        /\ Cardinality(Busy("begun", i)') <= Cardinality(Busy("begun", i))
        /\ Cardinality(Busy("wrong", i)') = Cardinality(Busy("wrong", i)) - more
    <2>1. Cardinality(Busy("begun", i)) \in Nat /\ Cardinality(Busy("wrong", i)) \in Nat
      BY BusyFinite
    <2>2. Busy("begun", i)' \subseteq Busy("begun", i)
      BY <1>2, BusyChanges
    <2>3. Cardinality(Busy("wrong", i)') = Cardinality(Busy("wrong", i)) - more
      BY <1>2, <2>1, BusyChanges
    <2> QED BY <2>1, <2>2, <2>3, BusyFinite, FS_Subset, FS_CardinalityType
  <1>4. dropped[i] \in Nat /\ dropped'[i] \in Nat /\ dropped'[i] >= dropped[i]
    BY <1>1 DEF LimiterInv, LimiterTypes
  <1>5. LimiterTypes(i)' /\ Numbered(failures[i])'
    BY <1>1, <1>4 DEF LimiterInv, LimiterTypes, Numbered
  <1>6. Recent(wrong[i])' = Recent(wrong[i]) /\ failures'[i] = failures[i]
    BY <1>1 DEF Recent
  <1>7. /\ Cardinality(Recent(wrong[i])) \in Nat
        /\ IsFiniteSet(Recent(wrong[i])) /\ IsFiniteSet(failures[i])
    BY RecentKept, FS_CardinalityType DEF LimiterInv, LimiterTypes
  <1>8. ASSUME NEW time \in Nat
        PROVE  Cardinality(Since(Recent(wrong[i]), time))
                 <= Cardinality(Since(failures[i], time)) + Cardinality(Busy("wrong", i)') + dropped'[i]
    <2>1. Cardinality(Since(Recent(wrong[i]), time)) \in Nat /\ Cardinality(Since(failures[i], time)) \in Nat
      BY <1>7, SinceFinite
    <2>2. Cardinality(Since(Recent(wrong[i]), time))
            <= Cardinality(Since(failures[i], time)) + Cardinality(Busy("wrong", i)) + dropped[i]
      BY DEF LimiterInv, Matched
    <2> QED BY <1>1, <1>3, <1>4, <2>1, <2>2
  <1>9. Matched(i)'
    BY <1>6, <1>8 DEF Matched, Since
  <1>10. LetIn(i)'
    BY <1>3, <1>4, <1>6, <1>7, BusyFinite, TimesAssumption DEF LetIn, LimiterInv
  <1>11. \A g \in Handlers : handler'[g].kind = "login" => MaxAttempts > 0
    BY <1>2 DEF LimiterInv
  <1> QED BY <1>5, <1>9, <1>10, <1>11 DEF LimiterInv

\* Time passes, and the window with it.
LEMMA TimePasses ==
    ASSUME Maps, NEW i \in Interfaces, LimiterInv(i), Tick
    PROVE  LimiterInv(i)'
  <1>1. /\ now' = now + 1 /\ wrong'[i] = {e \in wrong[i] : now + 1 - e[1] < Window}
        /\ UNCHANGED <<failures[i], dropped[i], handler>>
    BY DEF Tick, Maps
  <1>2. /\ now \in Nat /\ dropped[i] \in Nat /\ wrong[i] \subseteq Nat \X (Nat \ {0})
        /\ IsFiniteSet(wrong[i]) /\ IsFiniteSet(failures[i]) /\ IsFiniteSet(Recent(wrong[i]))
    BY RecentKept DEF LimiterInv, LimiterTypes
  <1>3. Recent(wrong[i])' \subseteq Recent(wrong[i]) /\ wrong'[i] \subseteq wrong[i]
    BY <1>1, <1>2, TimesAssumption DEF Recent
  <1>4. LimiterTypes(i)' /\ Numbered(failures[i])'
    BY <1>1, <1>2, <1>3, FS_Subset DEF LimiterInv, LimiterTypes, Numbered
  <1>5. UNCHANGED Busy("begun", i) /\ UNCHANGED Busy("wrong", i)
    BY <1>1 DEF Busy, Tries, At
  <1>6. ASSUME NEW time \in Nat
        PROVE  Cardinality(Since(Recent(wrong[i])', time))
                 <= Cardinality(Since(failures[i], time)) + Cardinality(Busy("wrong", i)) + dropped[i]
    <2>1. /\ Cardinality(Since(Recent(wrong[i])', time)) <= Cardinality(Since(Recent(wrong[i]), time))
          /\ Cardinality(Since(Recent(wrong[i])', time)) \in Nat
          /\ Cardinality(Since(Recent(wrong[i]), time)) \in Nat
          /\ Cardinality(Since(failures[i], time)) \in Nat
      BY <1>2, <1>3, SinceFinite
    <2> QED BY <1>2, <2>1, BusyFinite DEF LimiterInv, Matched
  <1>7. Matched(i)'
    BY <1>1, <1>5, <1>6 DEF Matched, Since
  <1>8. /\ Cardinality(Recent(wrong[i])') <= Cardinality(Recent(wrong[i]))
        /\ Cardinality(Recent(wrong[i])') \in Nat /\ Cardinality(Recent(wrong[i])) \in Nat
    BY <1>2, <1>3, FS_Subset, FS_CardinalityType
  <1>9. LetIn(i)'
    BY <1>1, <1>2, <1>5, <1>8, BusyFinite, TimesAssumption DEF LetIn, LimiterInv
  <1> QED BY <1>1, <1>4, <1>7, <1>9 DEF LimiterInv

\* The steps of a request that the limiter of an interface does not see.
LEMMA Unseen ==
    ASSUME Inv, NEW i \in Interfaces, LimiterInv(i), NEW h \in Handlers, UNCHANGED <<now, Mine(i)>>,
           \/ \E kind \in {"refresh", "reset"} : \E via, secret, token :
                 At(h, "none", "free") /\ Begin(h, kind, via, secret, token)
           \/ \E via, secret, token : /\ via # i /\ MaxAttempts > 0 /\ At(h, "none", "free")
                                      /\ Begin(h, "login", via, secret, token)
           \/ handler[h].via # i /\ \E phase : To(h, phase)
           \/ End(h) /\ ~Tries(h, "wrong", i)
           \/ \E phase \in {"lock", "verification", "issue", "rejected", "expired", "update"} :
                 To(h, phase) /\ ~Tries(h, "wrong", i)
    PROVE  LimiterInv(i)'
  <1> DEFINE Still == /\ \A g \in Handlers : g # h => handler'[g] = handler[g]
                      /\ ~Tries(h, "wrong", i) /\ ~Tries(h, "wrong", i)' /\ ~Tries(h, "begun", i)'
                      /\ handler'[h].kind = "login" => MaxAttempts > 0 \/ handler[h].kind = "login"
  <1>1. Still
    <2>1. CASE \E kind \in {"refresh", "reset"} : \E via, secret, token :
                 At(h, "none", "free") /\ Begin(h, kind, via, secret, token)
      BY <2>1, Moved DEF At, Tries
    <2>2. CASE \E via, secret, token : /\ via # i /\ MaxAttempts > 0 /\ At(h, "none", "free")
                                      /\ Begin(h, "login", via, secret, token)
      BY <2>2, Moved DEF At, Tries
    <2>3. CASE handler[h].via # i /\ \E phase : To(h, phase)
      BY <2>3, Moved DEF At, Tries
    <2>4. CASE End(h) /\ ~Tries(h, "wrong", i)
      BY <2>4, Moved DEF At, Tries
    <2>5. CASE \E phase \in {"lock", "verification", "issue", "rejected", "expired", "update"} :
                 To(h, phase) /\ ~Tries(h, "wrong", i)
      BY <2>5, Moved DEF At, Tries
    <2> QED BY <2>1, <2>2, <2>3, <2>4, <2>5
  <1>2. Busy("wrong", i)' = Busy("wrong", i) /\ Busy("begun", i)' \subseteq Busy("begun", i)
    BY <1>1 DEF Busy, At, Tries
  <1> QED BY <1>1, <1>2, LimiterLeft

\* The steps that change no kind and no phase.
LEMMA PhasesKept ==
    ASSUME NEW i \in Interfaces, LimiterInv(i), UNCHANGED <<now, Mine(i)>>,
           \A h \in Handlers : /\ handler'[h].kind = handler[h].kind
                               /\ handler'[h].phase = handler[h].phase
                               /\ handler'[h].via = handler[h].via
    PROVE  LimiterInv(i)'
  <1>1. UNCHANGED Busy("wrong", i) /\ UNCHANGED Busy("begun", i)
    BY DEF Busy, At, Tries
  <1> QED BY <1>1, LimiterLeft

\* What those under way have seen does not move them.
LEMMA SeenKeeps ==
    ASSUME Inv, NEW fld \in {"unlocked", "right", "proven"}, NEW kinds, NEW who
    PROVE  /\ Seen(fld, kinds, who) \in [Handlers -> Handler]
           /\ \A g \in Handlers : /\ Seen(fld, kinds, who)[g].kind = handler[g].kind
                                  /\ Seen(fld, kinds, who)[g].via = handler[g].via
                                  /\ Seen(fld, kinds, who)[g].phase = handler[g].phase
  <1>1. ASSUME NEW g \in Handlers
        PROVE  /\ Seen(fld, kinds, who)[g] \in Handler
               /\ Seen(fld, kinds, who)[g].kind = handler[g].kind
               /\ Seen(fld, kinds, who)[g].via = handler[g].via
               /\ Seen(fld, kinds, who)[g].phase = handler[g].phase
    <2>1. handler[g] \in Handler
      BY DEF Inv, Types
    <2>2. /\ [handler[g] EXCEPT ![fld] = TRUE] \in Handler
          /\ [handler[g] EXCEPT ![fld] = TRUE].kind = handler[g].kind
          /\ [handler[g] EXCEPT ![fld] = TRUE].via = handler[g].via
          /\ [handler[g] EXCEPT ![fld] = TRUE].phase = handler[g].phase
      BY <2>1 DEF Handler
    <2> QED BY <2>1, <2>2 DEF Seen
  <1>2. Seen(fld, kinds, who) = [g \in Handlers |-> Seen(fld, kinds, who)[g]]
    BY DEF Seen
  <1> QED BY <1>1, <1>2

\* Another password: the logins under way stay where they are.
LEMMA PasswordUnseen ==
    ASSUME Inv, NEW i \in Interfaces, LimiterInv(i), NEW h \in Handlers, UpdatePassword(h)
    PROVE  LimiterInv(i)'
  <1> DEFINE seen == Seen("right", {"login"}, {g \in Handlers : handler[g].secret = handler[h].secret})
  <1>1. /\ At(h, "reset", "update") /\ handler' = [seen EXCEPT ![h].phase = "clear"]
        /\ UNCHANGED <<now, Mine(i)>>
    BY DEF UpdatePassword, Limiter, Mine
  <1>2. /\ seen \in [Handlers -> Handler]
        /\ \A g \in Handlers : /\ seen[g].kind = handler[g].kind /\ seen[g].phase = handler[g].phase
                               /\ seen[g].via = handler[g].via
    BY SeenKeeps
  <1> HIDE DEF seen
  <1>3. /\ \A g \in Handlers : g # h => handler'[g] = seen[g]
        /\ handler'[h].kind = seen[h].kind
    BY <1>1, <1>2 DEF Handler
  <1>4. handler[h].kind = "reset" /\ handler'[h].kind = "reset"
    BY <1>1, <1>2, <1>3 DEF At
  <1>5. UNCHANGED Busy("wrong", i) /\ UNCHANGED Busy("begun", i)
    BY <1>2, <1>3, <1>4 DEF Busy, At, Tries
  <1> QED BY <1>1, <1>2, <1>3, <1>5, LimiterLeft

\* A login is let in only where the limit allows one.
LEMMA LimitPositive ==
    ASSUME NEW via \in Interfaces, LimiterInv(via), NEW h, NEW secret, Login(h, via, secret)
    PROVE  MaxAttempts > 0
  <1>1. Cardinality(Recent(failures[via])) \in Nat
    BY RecentKept, FS_CardinalityType DEF LimiterInv, LimiterTypes
  <1>2. Cardinality(Recent(failures[via])) < MaxAttempts
    BY DEF Login
  <1> QED BY <1>1, <1>2, TimesAssumption

\* A step of a login changes the limiter of its interface only.
LEMMA OthersLeft ==
    ASSUME Inv, Maps, NEW i \in Interfaces, NEW h \in Handlers, handler[h].via # i,
           Verify(h) \/ RecordFailure(h) \/ Issue(h) \/ Break(h)
    PROVE  /\ UNCHANGED <<now, Mine(i)>>
           /\ End(h) \/ \E phase : To(h, phase)
           /\ ~Tries(h, "wrong", i)
  <1>1. ~Tries(h, "wrong", i)
    BY DEF Tries
  <1>2. CASE Verify(h)
    BY <1>1, <1>2 DEF Verify, Maps, Mine
  <1>3. CASE RecordFailure(h)
    BY <1>1, <1>3 DEF RecordFailure, Maps, Mine
  <1>4. CASE Issue(h)
    BY <1>1, <1>4 DEF Issue, Maps, Mine
  <1>5. CASE Break(h)
    BY <1>1, <1>5 DEF Break, Maps, Mine
  <1> QED BY <1>2, <1>3, <1>4, <1>5

LEMMA LimiterStep ==
    ASSUME Inv, Maps, \A j \in Interfaces : LimiterInv(j), [Next]_vars, NEW i \in Interfaces
    PROVE  LimiterInv(i)'
  <1>0. /\ LimiterInv(i)
        /\ UNCHANGED Limiter => UNCHANGED Mine(i)
    BY DEF Limiter, Mine
  <1>1. ASSUME NEW h \in Handlers, NEW via \in Interfaces, NEW secret \in Passwords,
               Login(h, via, secret)
        PROVE  LimiterInv(i)'
    <2>1. CASE via = i
      BY <1>0, <1>1, <2>1, LoginLimited
    <2>2. CASE via # i
      <3>1. UNCHANGED <<now, Mine(i)>>
        BY <1>1, <2>2 DEF Login, Maps, Mine
      <3>2. MaxAttempts > 0
        BY <1>1, LimitPositive
      <3>3. At(h, "none", "free") /\ Begin(h, "login", via, secret, Nothing)
        BY <1>1 DEF Login
      <3> QED BY <1>0, <2>2, <3>1, <3>2, <3>3, Unseen
    <2> QED BY <2>1, <2>2
  <1>2. ASSUME NEW h \in Handlers, handler[h].via # i,
               Verify(h) \/ RecordFailure(h) \/ Issue(h) \/ Break(h)
        PROVE  LimiterInv(i)'
    BY <1>0, <1>2, OthersLeft, Unseen
  <1>3. ASSUME NEW h \in Handlers, Verify(h), handler[h].via = i PROVE LimiterInv(i)'
    <2>1. CASE handler[h].secret = password
      <3>1. UNCHANGED <<now, Mine(i)>> /\ To(h, "lock") /\ ~Tries(h, "wrong", i)
        BY <1>3, <2>1 DEF Verify, At, Tries, Mine
      <3> QED BY <1>0, <3>1, Unseen
    <2>2. CASE handler[h].secret # password
      BY <1>0, <1>3, <2>2, WrongTried
    <2> QED BY <2>1, <2>2
  <1>4. ASSUME NEW h \in Handlers, RecordFailure(h), handler[h].via = i PROVE LimiterInv(i)'
    BY <1>0, <1>4, FailureRecorded
  <1>5. ASSUME NEW h \in Handlers, LockCheck(h) \/ VerifiedCheck(h) \/ Reject(h)
        PROVE  LimiterInv(i)'
    <2>1. UNCHANGED <<now, Mine(i)>> /\ ~Tries(h, "wrong", i)
      BY <1>0, <1>5 DEF LockCheck, VerifiedCheck, Reject, At, Tries
    <2>2. End(h) \/ \E phase \in {"verification", "issue", "rejected"} : To(h, phase)
      BY <1>5 DEF LockCheck, VerifiedCheck, Reject
    <2> QED BY <1>0, <2>1, <2>2, Unseen
  <1>6. ASSUME NEW h \in Handlers, Issue(h), handler[h].via = i PROVE LimiterInv(i)'
    BY <1>0, <1>6, LimiterCleared
  <1>7. ASSUME NEW h \in Handlers, Refresh(h) \/ RefreshCheck(h) \/ RefreshIssue(h)
        PROVE  LimiterInv(i)'
    <2>1. CASE Refresh(h)
      BY <1>0, <2>1, Unseen DEF Refresh
    <2>2. CASE RefreshCheck(h) \/ RefreshIssue(h)
      <3>1. UNCHANGED <<now, Mine(i)>> /\ ~Tries(h, "wrong", i)
        BY <1>0, <2>2 DEF RefreshCheck, RefreshIssue, At, Tries
      <3>2. End(h) \/ To(h, "issue")
        BY <2>2 DEF RefreshCheck, RefreshIssue
      <3> QED BY <1>0, <3>1, <3>2, Unseen
    <2> QED BY <1>7, <2>1, <2>2
  <1>8. ASSUME NEW h \in Handlers, NEW token \in mails, NEW secret \in Passwords,
               ResetPassword(h, token, secret)
        PROVE  LimiterInv(i)'
    BY <1>0, <1>8, Unseen DEF ResetPassword
  <1>9. ASSUME NEW h \in Handlers, FindByResetToken(h) \/ ClearResetToken(h)
        PROVE  LimiterInv(i)'
    <2>1. UNCHANGED <<now, Mine(i)>> /\ ~Tries(h, "wrong", i)
      BY <1>0, <1>9 DEF FindByResetToken, ClearResetToken, At, Tries
    <2>2. End(h) \/ \E phase \in {"expired", "update"} : To(h, phase)
      BY <1>9 DEF FindByResetToken, ClearResetToken
    <2> QED BY <1>0, <2>1, <2>2, Unseen
  <1>10. ASSUME NEW h \in Handlers, UpdatePassword(h) PROVE LimiterInv(i)'
    BY <1>0, <1>10, PasswordUnseen
  <1>11. ASSUME NEW h \in Handlers, Break(h), handler[h].via = i PROVE LimiterInv(i)'
    BY <1>0, <1>11, RequestDropped
  <1>12. CASE ForgotPassword
    BY <1>0, <1>12, PhasesKept DEF ForgotPassword
  <1>13. ASSUME NEW value \in BOOLEAN, SetVerified(value) \/ SetLocked(value)
         PROVE  LimiterInv(i)'
    <2>1. \E fld \in {"unlocked", "proven"} : \E kinds, who : handler' = Seen(fld, kinds, who)
      BY <1>13 DEF SetVerified, SetLocked
    <2>2. UNCHANGED <<now, Mine(i)>>
      BY <1>0, <1>13 DEF SetVerified, SetLocked
    <2>3. \A g \in Handlers : /\ handler'[g].kind = handler[g].kind
                              /\ handler'[g].phase = handler[g].phase
                              /\ handler'[g].via = handler[g].via
      BY <2>1, SeenKeeps
    <2> QED BY <1>0, <2>2, <2>3, PhasesKept
  <1>14. CASE Tick
    BY <1>0, <1>14, TimePasses
  <1>15. CASE UNCHANGED vars
    <2>1. UNCHANGED <<now, Mine(i), handler>>
      BY <1>0, <1>15 DEF vars, Limiter
    <2> QED BY <1>0, <2>1, PhasesKept
  <1> QED BY <1>1, <1>2, <1>3, <1>4, <1>5, <1>6, <1>7, <1>8, <1>9, <1>10, <1>11, <1>12, <1>13,
             <1>14, <1>15 DEF Next

\* Every interface keeps a limiter.
LEMMA MapsKept == Maps /\ [Next]_vars => Maps'
  <1> SUFFICES ASSUME Maps, [Next]_vars PROVE Maps'
    OBVIOUS
  <1>1. ASSUME UNCHANGED Limiter PROVE Maps'
    BY <1>1 DEF Maps, Limiter
  <1>2. ASSUME NEW h \in Handlers, Verify(h) \/ RecordFailure(h) PROVE Maps'
    BY <1>2 DEF Verify, RecordFailure, Maps
  <1>3. ASSUME NEW h \in Handlers, Issue(h) PROVE Maps'
    BY <1>3 DEF Issue, Maps
  <1>4. ASSUME NEW h \in Handlers, Break(h) PROVE Maps'
    BY <1>4 DEF Break, Maps
  <1>5. ASSUME NEW h \in Handlers, NEW via \in Interfaces, NEW secret \in Passwords,
               Login(h, via, secret)
        PROVE  Maps'
    BY <1>5 DEF Login, Maps
  <1>6. CASE Tick
    BY <1>6 DEF Tick, Maps
  <1>7. ASSUME NEW h \in Handlers,
               \/ LockCheck(h) \/ VerifiedCheck(h) \/ Reject(h)
               \/ Refresh(h) \/ RefreshCheck(h) \/ RefreshIssue(h)
               \/ \E token \in mails, secret \in Passwords : ResetPassword(h, token, secret)
               \/ FindByResetToken(h) \/ UpdatePassword(h) \/ ClearResetToken(h)
        PROVE  UNCHANGED Limiter
    BY <1>7 DEF LockCheck, VerifiedCheck, Reject, Refresh, RefreshCheck, RefreshIssue,
                ResetPassword, FindByResetToken, UpdatePassword, ClearResetToken
  <1>8. CASE \/ ForgotPassword \/ UNCHANGED vars
             \/ \E value \in BOOLEAN : SetVerified(value) \/ SetLocked(value)
    BY <1>1, <1>8 DEF ForgotPassword, SetVerified, SetLocked, vars, Limiter
  <1> QED BY <1>1, <1>2, <1>3, <1>4, <1>5, <1>6, <1>7, <1>8 DEF Next

LEMMA LimiterInit == Init => Maps /\ \A i \in Interfaces : LimiterInv(i)
  <1> SUFFICES ASSUME Init, NEW i \in Interfaces PROVE Maps /\ LimiterInv(i)
    BY DEF Init, Maps
  <1>1. now = 0 /\ dropped[i] = 0 /\ failures[i] = {} /\ wrong[i] = {} /\ Maps
    BY DEF Init, Maps
  <1>2. \A h \in Handlers : handler[h].kind = "none"
    BY FreeHandler DEF Init
  <1>3. /\ Busy("begun", i) = {} /\ Busy("wrong", i) = {} /\ Recent(wrong[i]) = {}
        /\ \A time : Since({}, time) = {}
    BY <1>1, <1>2 DEF Busy, Tries, At, Recent, Since
  <1>4. LimiterTypes(i) /\ Numbered(failures[i])
    BY <1>1, FS_EmptySet DEF LimiterTypes, Numbered
  <1>5. Matched(i)
    BY <1>1, <1>3, FS_EmptySet DEF Matched
  <1>6. LetIn(i)
    <2>1. Cardinality(Recent(wrong[i])) = 0 /\ Cardinality(Busy("begun", i)) = 0
      BY <1>3, FS_EmptySet
    <2>2. Cardinality(Handlers) \in Nat /\ Cardinality(Handlers) > 0
      BY BusyFinite
    <2> QED BY <1>1, <2>1, <2>2, TimesAssumption DEF LetIn
  <1> QED BY <1>1, <1>2, <1>4, <1>5, <1>6 DEF LimiterInv

\* Though the limiter is asked before a password is tried and told after it, a
\* window sees through one interface at most max_login_attempts - 1 wrong
\* passwords, one more for every request that may be under way, and those whose
\* handler was dropped (login_action, login_impl, LoginRateLimiter), for any
\* number of requests and attempts.  The two interfaces count apart, so that
\* the account may see twice that.
THEOREM GuessesAreBounded == Spec => []GuessesBounded
  <1> DEFINE Limited == Maps /\ \A i \in Interfaces : LimiterInv(i)
  <1>1. ASSUME Limited, NEW i \in Interfaces
        PROVE  Cardinality(Recent(wrong[i])) <= MaxAttempts - 1 + Cardinality(Handlers) + dropped[i]
    <2>1. LimiterInv(i)
      BY <1>1
    <2>2. Cardinality(Recent(wrong[i])) \in Nat /\ dropped[i] \in Nat
      BY <2>1, RecentKept, FS_CardinalityType DEF LimiterInv, LimiterTypes
    <2> QED BY <2>1, <2>2, BusyFinite, TimesAssumption DEF LimiterInv, LetIn
  <1>2. Limited => GuessesBounded
    BY <1>1 DEF GuessesBounded
  <1>3. Inv /\ Limited /\ [Next]_vars => Limited'
    BY LimiterStep, MapsKept
  <1>4. Init => Limited
    BY LimiterInit
  <1> HIDE DEF Limited
  <1> QED BY InitInv, StepInv, <1>2, <1>3, <1>4, PTL DEF Spec
=============================================================================
