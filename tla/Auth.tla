--------------------------------- MODULE Auth ---------------------------------
(***************************************************************************)
(* One account of an auth collection and the handlers that race for it:    *)
(* logins, each interface with a limiter of its own, session refresh,      *)
(* password reset, e-mail verification, and the operator who locks and     *)
(* unlocks.  Every handler runs statements of its own, outside a           *)
(* transaction, on a blocking thread.                                      *)
(***************************************************************************)
EXTENDS Integers, FiniteSets

CONSTANTS
    Handlers,      \* request slots, each serving one request after another
    Passwords,
    Tokens,        \* reset tokens, fresh ones (nanoid)
    Nothing,       \* NULL
    MaxAttempts,   \* auth.max_login_attempts
    Window,        \* auth.login_lockout_seconds
    ResetLife,     \* auth.reset_token_expiry
    SessionLife,   \* token_expiry
    MaxTime,       \* bound on the clock
    MaxDrops       \* bound on the logins dropped between guess and record

ASSUME TimesAssumption == {MaxAttempts, Window, ResetLife, SessionLife, MaxTime, MaxDrops} \subseteq Nat
ASSUME NothingAssumption == Nothing \notin Tokens
ASSUME HandlersAssumption == IsFiniteSet(Handlers) /\ Handlers # {}

VARIABLES
    now,
    password, locked, verified,   \* columns of the account
    reset,         \* _reset_token and _reset_token_exp
    mails,         \* tokens that have been handed out
    failures,      \* by interface, its LoginRateLimiter: the Vec<Instant> of this e-mail
    session,       \* exp of the newest JWT, 0 when there is none
    handler,
    \* What happened, for the properties.
    wrong,         \* by interface, when a wrong password was tried, since its limiter was cleared
    dropped,       \* by interface, how many lost their handler before the record
    spent          \* tokens whose reset has been answered

vars == <<now, password, locked, verified, reset, mails, failures, session, handler, wrong, dropped, spent>>

\* The admin server and the gRPC server each make a limiter.
Interfaces == {"admin", "grpc"}

Times == 0..MaxTime
NoReset == [token |-> Nothing, exp |-> 0]
Reset == [token : Tokens \cup {Nothing}, exp : 0..MaxTime + ResetLife]

\* A request: unlocked, right and proven say whether, at some moment since it
\* came, the account was unlocked, its password was the one given, and its
\* address verified; fresh that no answered reset had used its token before.
\* via is the interface of a login; of the others either one will do.
Handler == [kind : {"login", "refresh", "reset", "none"}, via : Interfaces,
            phase : {"free", "begun", "lock", "verification", "issue", "wrong", "rejected",
                     "update", "clear", "expired"},
            secret : Passwords \cup {Nothing}, token : Tokens \cup {Nothing},
            unlocked : BOOLEAN, right : BOOLEAN, proven : BOOLEAN,
            fresh : BOOLEAN]

Free == [kind |-> "none", via |-> "admin", phase |-> "free",
         secret |-> Nothing, token |-> Nothing, unlocked |-> FALSE, right |-> FALSE, proven |-> FALSE, fresh |-> FALSE]

\* An entry is an instant with its number among those of the instant.
Entry == Times \X (Nat \ {0})
Entered(entries) == entries \cup {<<now, 1 + Cardinality({e \in entries : e[1] = now})>>}

\* retain(|t| now - t < window)
Recent(entries) == {e \in entries : now - e[1] < Window}

TypeOK ==
    /\ now \in Times /\ password \in Passwords
    /\ locked \in BOOLEAN /\ verified \in BOOLEAN
    /\ reset \in Reset /\ mails \in SUBSET Tokens
    /\ failures \in [Interfaces -> SUBSET Entry] /\ wrong \in [Interfaces -> SUBSET Entry]
    /\ session \in 0..MaxTime + SessionLife
    /\ handler \in [Handlers -> Handler]
    /\ dropped \in [Interfaces -> 0..MaxDrops] /\ spent \in SUBSET mails

Init ==
    /\ now = 0 /\ password \in Passwords
    /\ locked = FALSE /\ verified \in BOOLEAN
    /\ reset = NoReset /\ mails = {} /\ session = 0
    /\ handler = [h \in Handlers |-> Free]
    /\ failures = [i \in Interfaces |-> {}] /\ wrong = [i \in Interfaces |-> {}]
    /\ dropped = [i \in Interfaces |-> 0] /\ spent = {}

Account == <<password, locked, verified, reset>>
Limiter == <<failures, wrong, dropped>>

------------------------------------------------------------------------------
(* Steps of a handler.                                                      *)

At(h, kind, phase) == handler[h].kind = kind /\ handler[h].phase = phase
To(h, phase) == handler' = [handler EXCEPT ![h].phase = phase]
End(h) == handler' = [handler EXCEPT ![h] = Free]

Begin(h, kind, via, secret, token) ==
    handler' = [handler EXCEPT ![h] =
       [Free EXCEPT !.kind = kind, !.via = via, !.phase = "begun",
                    !.secret = secret, !.token = token,
                    !.unlocked = kind # "reset" /\ ~locked,
                    !.right = kind = "login" /\ secret = password,
                    !.proven = kind = "login" /\ verified,
                    !.fresh = kind = "reset" /\ token \notin spent]]

\* The account has become unlocked, or got another password, or been verified:
\* logins and refreshes that are under way have seen it so.
Seen(fld, kinds, who) == [g \in Handlers |->
    IF g \in who /\ handler[g].kind \in kinds THEN [handler[g] EXCEPT ![fld] = TRUE]
    ELSE handler[g]]

\* is_blocked, of the interface's limiter, before any work is done.
Login(h, via, secret) ==
    /\ At(h, "none", "free")
    /\ Cardinality(Recent(failures[via])) < MaxAttempts
    /\ failures' = [failures EXCEPT ![via] = Recent(@)]
    /\ Begin(h, "login", via, secret, Nothing)
    /\ UNCHANGED <<now, Account, mails, session, wrong, dropped, spent>>

\* The hash is read and verified, which takes a while.
Verify(h) ==
    /\ At(h, "login", "begun")
    /\ IF handler[h].secret = password
       THEN To(h, "lock") /\ UNCHANGED wrong
       ELSE To(h, "wrong") /\ wrong' = [wrong EXCEPT ![handler[h].via] = Entered(Recent(@))]
    /\ UNCHANGED <<now, Account, mails, failures, dropped, session, spent>>

\* Mutant: only an unknown address counts as a failure.
RecordNothing(h) ==
    /\ At(h, "login", "wrong") /\ End(h)
    /\ UNCHANGED <<now, Account, mails, Limiter, session, spent>>

\* record_failure: of a wrong password, and in the admin interface also of an
\* account that is locked or not verified.
RecordFailure(h) ==
    /\ \/ At(h, "login", "wrong")
       \/ At(h, "login", "rejected") /\ handler[h].via = "admin"
    /\ failures' = [failures EXCEPT ![handler[h].via] = Entered(Recent(@))]
    /\ End(h)
    /\ UNCHANGED <<now, Account, mails, session, wrong, dropped, spent>>

\* is_locked, on another connection (gRPC) or the same (admin).
LockCheck(h) ==
    /\ At(h, "login", "lock")
    /\ To(h, IF locked THEN "rejected" ELSE "verification")
    /\ UNCHANGED <<now, Account, mails, Limiter, session, spent>>

VerifiedCheck(h) ==
    /\ At(h, "login", "verification")
    /\ To(h, IF verified THEN "issue" ELSE "rejected")
    /\ UNCHANGED <<now, Account, mails, Limiter, session, spent>>

\* The gRPC login answers a locked or unverified account without recording it.
Reject(h) ==
    /\ At(h, "login", "rejected") /\ handler[h].via = "grpc" /\ End(h)
    /\ UNCHANGED <<now, Account, mails, Limiter, session, spent>>

\* The JWT is made and the interface's limiter cleared.
Issue(h) ==
    /\ At(h, "login", "issue")
    /\ session' = now + SessionLife
    /\ failures' = [failures EXCEPT ![handler[h].via] = {}]
    /\ wrong' = [wrong EXCEPT ![handler[h].via] = {}]
    /\ dropped' = [dropped EXCEPT ![handler[h].via] = 0]
    /\ End(h)
    /\ UNCHANGED <<now, Account, mails, spent>>

\* POST /admin/api/session-refresh with claims that are still valid.
Refresh(h) ==
    /\ At(h, "none", "free") /\ session > now
    /\ Begin(h, "refresh", "admin", Nothing, Nothing)
    /\ UNCHANGED <<now, Account, mails, Limiter, session, spent>>

\* Mutant: a refresh that trusts the claims.
RefreshCheckNone(h) ==
    /\ At(h, "refresh", "begun")
    /\ To(h, "issue")
    /\ UNCHANGED <<now, Account, mails, Limiter, session, spent>>

RefreshCheck(h) ==
    /\ At(h, "refresh", "begun")
    /\ \/ locked /\ End(h)
       \/ ~locked /\ To(h, "issue")
    /\ UNCHANGED <<now, Account, mails, Limiter, session, spent>>

RefreshIssue(h) ==
    /\ At(h, "refresh", "issue")
    /\ session' = now + SessionLife
    /\ End(h)
    /\ UNCHANGED <<now, Account, mails, Limiter, spent>>

------------------------------------------------------------------------------
(* Password reset.  UPDATE ... WHERE id: the statements do not ask again    *)
(* whether the token is still the one that was found.                       *)

Stored(token) ==
    /\ reset' = [token |-> token, exp |-> now + ResetLife]
    /\ mails' = mails \cup {token}

\* The blocking task of forgot_password, unless its own limiter (the same
\* code) refuses.  A mail that cannot be sent leaves the token stored.
ForgotPassword ==
    /\ \E token \in Tokens \ mails : Stored(token)
    /\ UNCHANGED <<now, password, locked, verified, Limiter, session, handler, spent>>

ResetPassword(h, token, secret) ==
    /\ At(h, "none", "free")
    /\ Begin(h, "reset", "admin", secret, token)
    /\ UNCHANGED <<now, Account, mails, Limiter, session, spent>>

FindByResetToken(h) ==
    /\ At(h, "reset", "begun")
    /\ \/ reset.token # handler[h].token /\ End(h)
       \/ /\ reset.token = handler[h].token
          /\ To(h, IF now >= reset.exp THEN "expired" ELSE "update")
    /\ UNCHANGED <<now, Account, mails, Limiter, session, spent>>

UpdatePassword(h) ==
    /\ At(h, "reset", "update")
    /\ password' = handler[h].secret
    /\ handler' = [Seen("right", {"login"}, {g \in Handlers : handler[g].secret = handler[h].secret})
                     EXCEPT ![h].phase = "clear"]
    /\ UNCHANGED <<now, locked, verified, reset, mails, Limiter, session, spent>>

\* Mutant: the columns are left as they are.
ClearNothing(h) ==
    /\ At(h, "reset", "clear") \/ At(h, "reset", "expired")
    /\ spent' = IF At(h, "reset", "clear") THEN spent \cup {handler[h].token} ELSE spent
    /\ End(h)
    /\ UNCHANGED <<now, Account, mails, Limiter, session>>

ClearResetToken(h) ==
    /\ At(h, "reset", "clear") \/ At(h, "reset", "expired")
    /\ reset' = NoReset
    /\ spent' = IF At(h, "reset", "clear") THEN spent \cup {handler[h].token} ELSE spent
    /\ End(h)
    /\ UNCHANGED <<now, password, locked, verified, mails, Limiter, session>>

\* A statement fails, or the client goes away and the handler is dropped while
\* it waits for its blocking task: what comes after does not happen.
Break(h) ==
    /\ handler[h].phase # "free"
    /\ End(h)
    /\ IF At(h, "login", "wrong")
       THEN /\ \A i \in Interfaces : dropped[i] < MaxDrops
            /\ dropped' = [dropped EXCEPT ![handler[h].via] = @ + 1]
       ELSE UNCHANGED dropped
    /\ UNCHANGED <<now, Account, mails, failures, wrong, session, spent>>

------------------------------------------------------------------------------
(* Verification, and the operator.                                          *)

\* mark_verified, at the end of verify_email; `user verify`, `user unverify`.
SetVerified(value) ==
    /\ verified' = value
    /\ handler' = Seen("proven", {"login"}, IF value THEN Handlers ELSE {})
    /\ UNCHANGED <<now, password, locked, reset, mails, Limiter, session, spent>>

\* lock_user, unlock_user
SetLocked(value) ==
    /\ locked' = value
    /\ handler' = Seen("unlocked", {"login", "refresh"}, IF value THEN {} ELSE Handlers)
    /\ UNCHANGED <<now, password, verified, reset, mails, Limiter, session, spent>>

Tick ==
    /\ now < MaxTime /\ now' = now + 1
    /\ wrong' = [i \in Interfaces |-> {e \in wrong[i] : now + 1 - e[1] < Window}]
    /\ UNCHANGED <<Account, mails, failures, dropped, session, handler, spent>>

Next ==
    \/ \E h \in Handlers :
         \/ \E via \in Interfaces, secret \in Passwords : Login(h, via, secret)
         \/ Verify(h) \/ RecordFailure(h) \/ LockCheck(h) \/ VerifiedCheck(h) \/ Reject(h)
         \/ Issue(h) \/ Refresh(h) \/ RefreshCheck(h) \/ RefreshIssue(h)
         \/ \E token \in mails, secret \in Passwords : ResetPassword(h, token, secret)
         \/ FindByResetToken(h) \/ UpdatePassword(h) \/ ClearResetToken(h) \/ Break(h)
    \/ ForgotPassword
    \/ \E value \in BOOLEAN : SetVerified(value) \/ SetLocked(value)
    \/ Tick

Spec == Init /\ [][Next]_vars

------------------------------------------------------------------------------
(* Properties.                                                              *)

\* However the attempts interleave, a window never sees more wrong passwords
\* through one interface than the limit, and those that were let in together
\* at the last place left, and those whose handler was dropped before it could
\* record them.  The account as a whole may see the bounds of both interfaces
\* added up: a failure recorded by one is not known to the other.
GuessesBounded ==
    \A i \in Interfaces :
       Cardinality(Recent(wrong[i])) <= MaxAttempts - 1 + Cardinality(Handlers) + dropped[i]

\* Though a login reads hash, lock and verification one after the other, and a
\* refresh trusts a token of its own: whoever is given a session had, at some
\* moment since it asked, the right password and a verified address, and an
\* account that was not locked.
IssueJustified ==
    \A h \in Handlers : handler[h].phase = "issue" =>
       /\ handler[h].unlocked
       /\ handler[h].kind = "login" => handler[h].right /\ handler[h].proven

\* A reset that changes the password came with a token that no reset answered
\* before it came had used, although the token is found, the password written
\* and the token cleared by three statements: a second use of a token is one
\* that overlapped the first.
ResetJustified ==
    \A h \in Handlers : At(h, "reset", "update") => handler[h].fresh
==============================================================================
