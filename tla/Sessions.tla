------------------------------ MODULE Sessions ------------------------------
(***************************************************************************)
(* Logins and sessions of the user whose password PasswordReset resets.    *)
(* A login reads the user, takes its time to compare the password with the *)
(* hash it read, and opens a session, which later requests go by.          *)
(***************************************************************************)
EXTENDS PasswordReset

CONSTANT Browser    \* browsers, each with the cookie of at most one session

VARIABLES
    visit,      \* the login request of every browser
    open,       \* browsers whose cookie names a stored session
    overtaken   \* history: logins that read a password which was changed since

sessions == <<visit, open, overtaken>>
sessionVars == <<vars, sessions>>

\* What a login's body gives as password: one that was set, or the first one.
\* It stands for its hash: salted hashes match nothing else.
Password == Submission \cup {None}
NoVisit == [at |-> "none", given |-> None, hash |-> None]

SessionTypeOK ==
    /\ TypeOK
    /\ visit \in [Browser -> [at : {"none", "compare", "handler"},
                              given : Password, hash : Password]]
    /\ open \subseteq Browser
    /\ overtaken \subseteq Browser

SessionInit ==
    /\ Init
    /\ visit = [b \in Browser |-> NoVisit]
    /\ open = {} /\ overtaken = {}

-----------------------------------------------------------------------------
(* POST auth/login: LocalAuthGuard, then the handler.                       *)

\* Mutant: the user comes out of a cache.
VerifyUserCached(b, p) ==
    /\ visit[b].at = "none"
    /\ visit' = [visit EXCEPT ![b] = [at |-> "compare", given |-> p, hash |-> None]]
    /\ overtaken' = overtaken \ {b}
    /\ UNCHANGED <<vars, open>>

\* The user is read, and bcrypt begins to compare.
VerifyUser(b, p) ==
    /\ visit[b].at = "none"
    /\ visit' = [visit EXCEPT ![b] = [at |-> "compare", given |-> p, hash |-> row.password]]
    /\ overtaken' = overtaken \ {b}
    /\ UNCHANGED <<vars, open>>

\* The password is wrong, or a query fails.  A session the browser had stays.
RejectLogin(b) ==
    /\ visit[b].at = "compare"
    /\ visit' = [visit EXCEPT ![b] = NoVisit]
    /\ UNCHANGED <<vars, open, overtaken>>

\* passport's logIn() stores a new session with the user as it was read.
OpenSession(b) ==
    /\ visit[b].at = "compare" /\ visit[b].given = visit[b].hash
    /\ visit' = [visit EXCEPT ![b].at = "handler"]
    /\ open' = open \cup {b}
    /\ UNCHANGED <<vars, overtaken>>

\* Turnstile and the push token: when they fail the answer is an error, and
\* the session is open all the same.
Login(b) ==
    /\ visit[b].at = "handler"
    /\ visit' = [visit EXCEPT ![b] = NoVisit]
    /\ UNCHANGED <<vars, open, overtaken>>

-----------------------------------------------------------------------------

Logout(b) ==
    /\ b \in open
    /\ open' = open \ {b}
    /\ UNCHANGED <<vars, visit, overtaken>>

\* The session is a day old: the cookie and the stored session expire.
ExpireSession(b) == Logout(b)

\* A step of the reset flow, and the logins it overtakes.
ResetStep ==
    /\ Next
    /\ overtaken' = IF row'.password = row.password THEN overtaken
                    ELSE overtaken \cup {b \in Browser : visit[b].at = "compare"}
    /\ UNCHANGED <<visit, open>>

SessionNext ==
    \/ ResetStep
    \/ \E b \in Browser :
          \/ \E p \in Password : VerifyUser(b, p)
          \/ RejectLogin(b) \/ OpenSession(b) \/ Login(b)
          \/ Logout(b) \/ ExpireSession(b)

SessionSpec == SessionInit /\ [][SessionNext]_sessionVars

-----------------------------------------------------------------------------
(* Properties.                                                              *)

\* A session is opened with the password the user has at that moment, also
\* right after a reset or after an initiation that wrote an old password back;
\* only a login under way while the password changes gets in with the one it
\* read (verifyUser).
OpenedByPassword ==
    \A b \in Browser :
        visit[b].at = "compare" /\ visit'[b].at = "handler" =>
            visit[b].given = row.password \/ b \in overtaken
SessionsNeedPassword == [][OpenedByPassword]_sessionVars

\* What makes it inductive: what a login compares with is the password, unless
\* that was changed since.
LoginsUpToDate ==
    \A b \in Browser :
        visit[b].at = "compare" => visit[b].hash = row.password \/ b \in overtaken

=============================================================================
