------------------------------ MODULE Accounts ------------------------------
(***************************************************************************)
(* Who may enter an account, and when (packages/auth, plugins/auth.ts,     *)
(* queries/sessions.ts, routes/sessions.ts, routes/account-data.ts): sign- *)
(* in links, passkeys, sessions and their two clocks, the console's step-  *)
(* up, and the account's end.                                              *)
(*                                                                         *)
(* One e-mail address, which one account after another may hold.  A slot   *)
(* is a browser: it has at most one session and one request in flight, and *)
(* a request knows of its session only what was true when it arrived       *)
(* (request.subject).  Better Auth is external: its sign-in, its session   *)
(* refresh and its passkey ceremony do what the code around them relies on.*)
(***************************************************************************)
EXTENDS Integers, FiniteSets

CONSTANTS
    Slot,           \* browsers
    Link,           \* sign-in links, reused
    MaxPasskeys,    \* bound
    MaxAccounts,    \* bound: accounts the address holds, one after another
    Nobody

ASSUME AccountsAssumption ==
    MaxPasskeys \in Nat \ {0} /\ MaxAccounts \in Nat /\ Nobody \notin Nat

VARIABLES
    account,    \* the number of the account that holds the address, or Nobody
    made,       \* accounts made so far
    isAdmin,    \* the account's role
    passkeys,   \* how many it has
    ses,        \* [Slot -> Nobody or a session]
    link,       \* [Link -> where it is, and how many accounts were gone when it was stored]
    req         \* [Slot -> Nobody or a request]

vars == <<account, made, isAdmin, passkeys, ses, link, req>>
rowVars == <<account, made, isAdmin, passkeys>>
-----------------------------------------------------------------------------
Method == {"passkey", "magic_link", "discord"}
\* authenticatedAt against the ten minutes and the twelve hours; expiresAt
\* against the day after which it is pushed on, and the thirty.
Age == {"fresh", "recent", "old"}
Life == {"new", "dayold", "lapsed"}
Opened(m) == [method |-> m, age |-> "fresh", life |-> "new"]
Gone == made - (IF account = Nobody THEN 0 ELSE 1)
NoLink == [at |-> "none", gone |-> 0]

Init ==
    /\ account = Nobody /\ made = 0 /\ isAdmin = FALSE
    /\ passkeys = 0
    /\ ses = [s \in Slot |-> Nobody]
    /\ link = [l \in Link |-> NoLink]
    /\ req = [s \in Slot |-> Nobody]
-----------------------------------------------------------------------------
\* POST /sign-in/magic-link: the row is stored and the mail sent.
AskForLink(l) ==
    /\ link[l].at = "none"
    /\ link' = [link EXCEPT ![l] = [at |-> "stored", gone |-> Gone]]
    /\ UNCHANGED <<rowVars, ses, req>>

\* Fifteen minutes; the row itself goes with run_retention.
LinkLapses(l) ==
    /\ link[l].at = "stored"
    /\ link' = [link EXCEPT ![l] = NoLink]
    /\ UNCHANGED <<rowVars, ses, req>>

\* GET /magic-link/verify: the row is found and used up ...
OpenLink(l) ==
    /\ link[l].at = "stored"
    /\ link' = [link EXCEPT ![l].at = "opening"]
    /\ UNCHANGED <<rowVars, ses, req>>

\* ... and the address is signed in, as the account it has or as a new one.
\* session.create: how it was opened, from the endpoint (authMethodForPath).
SignsIn(s, m) ==
    /\ ses[s] = Nobody
    /\ ses' = [ses EXCEPT ![s] = Opened(m)]
    /\ IF account # Nobody THEN UNCHANGED <<account, made, isAdmin, passkeys>>
       ELSE /\ made < MaxAccounts
            /\ account' = made + 1 /\ made' = made + 1
            /\ isAdmin' = FALSE /\ passkeys' = 0

LinkSignsIn(l, s) ==
    /\ link[l].at = "opening"
    /\ link' = [link EXCEPT ![l] = NoLink]
    /\ SignsIn(s, "magic_link")
    /\ UNCHANGED req

DiscordSignsIn(s) ==
    /\ SignsIn(s, "discord")
    /\ UNCHANGED <<link, req>>

\* requireVerifiedUser let it through.
PasskeySignsIn(s) ==
    /\ account # Nobody /\ passkeys > 0
    /\ SignsIn(s, "passkey")
    /\ UNCHANGED <<link, req>>

\* Better Auth's own sign-out.
SignsOut(s) ==
    /\ ses[s] # Nobody
    /\ ses' = [ses EXCEPT ![s] = Nobody]
    /\ UNCHANGED <<rowVars, link, req>>

\* A day of use moves expiresAt on, and nothing else (updateAge).
RefreshedAll(x) == [x EXCEPT !.life = "new", !.age = "fresh"]
Refreshed(x) == [x EXCEPT !.life = "new"]
Refreshes(s) ==
    /\ ses[s] # Nobody /\ ses[s].life = "dayold"
    /\ ses' = [ses EXCEPT ![s] = Refreshed(@)]
    /\ UNCHANGED <<rowVars, link, req>>

Later(a) == IF a = "fresh" THEN "recent" ELSE "old"
Ages(s) ==
    /\ ses[s] # Nobody /\ ses[s].age # "old"
    /\ ses' = [ses EXCEPT ![s].age = Later(@)]
    /\ UNCHANGED <<rowVars, link, req>>
\* A day is longer than the twelve hours.
Lapses(s) ==
    /\ ses[s] # Nobody /\ ses[s].life # "lapsed" /\ ses[s].age = "old"
    /\ ses' = [ses EXCEPT ![s].life = IF @ = "new" THEN "dayold" ELSE "lapsed"]
    /\ UNCHANGED <<rowVars, link, req>>

\* run_retention: what can no longer sign in.
RunRetention ==
    /\ \E s \in Slot : ses[s] # Nobody /\ ses[s].life = "lapsed"
    /\ ses' = [s \in Slot |-> IF ses[s] # Nobody /\ ses[s].life = "lapsed" THEN Nobody ELSE ses[s]]
    /\ UNCHANGED <<rowVars, link, req>>

\* role:set, by an operator.
SetRole ==
    /\ account # Nobody
    /\ isAdmin' = ~isAdmin
    /\ UNCHANGED <<account, made, passkeys, ses, link, req>>
-----------------------------------------------------------------------------
\* The preHandler: a request carries what its session was then.
Subject(s) == [of |-> account, method |-> ses[s].method]
Resolves(s, what, ok) ==
    /\ ses[s] # Nobody /\ ses[s].life # "lapsed"
    /\ req[s] = Nobody
    /\ ok
    /\ req' = [req EXCEPT ![s] = [what |-> what, by |-> Subject(s)]]
    /\ UNCHANGED <<rowVars, ses, link>>
Acts(s, what) ==
    /\ req[s] # Nobody /\ req[s].what = what
    /\ req' = [req EXCEPT ![s] = Nobody]
Existing(s) == account # Nobody /\ req[s].by.of = account

\* /passkey/verify-registration: the first from any fresh session, the next
\* from one opened with a passkey (countPasskeys); then the plugin inserts.
StartRegistration(s) ==
    Resolves(s, "register", ses[s].age = "fresh" /\ (passkeys = 0 \/ ses[s].method = "passkey"))
RegistersPasskey(s) ==
    /\ Acts(s, "register")
    /\ passkeys' = IF Existing(s) /\ passkeys < MaxPasskeys THEN passkeys + 1 ELSE passkeys
    /\ UNCHANGED <<account, made, isAdmin, ses, link>>

\* /passkey/delete-passkey: a fresh passkey session.
StartRemoval(s) ==
    Resolves(s, "unregister", ses[s].age = "fresh" /\ ses[s].method = "passkey")
RemovesPasskey(s) ==
    /\ Acts(s, "unregister")
    /\ passkeys' = IF Existing(s) /\ passkeys > 0 THEN passkeys - 1 ELSE passkeys
    /\ UNCHANGED <<account, made, isAdmin, ses, link>>

\* POST /v1/account/sessions/:id/revoke: found, allowed (mayRevoke), deleted.
StartRevoking(s) == Resolves(s, "revoke", TRUE)
MayRevoke(current, target) == target # "passkey" \/ current = "passkey"
RevokesSession(s) ==
    /\ Acts(s, "revoke")
    /\ \E t \in Slot :
         /\ ses' = IF Existing(s) /\ ses[t] # Nobody /\ MayRevoke(req[s].by.method, ses[t].method)
                   THEN [ses EXCEPT ![t] = Nobody] ELSE ses
    /\ UNCHANGED <<rowVars, link>>

\* POST /v1/account/sessions/revoke-others: one DELETE.
StartRevokingOthers(s) == Resolves(s, "others", TRUE)
RevokesOthers(s) ==
    /\ Acts(s, "others")
    /\ ses' = [t \in Slot |->
                 IF Existing(s) /\ t # s /\ ses[t] # Nobody /\ MayRevoke(req[s].by.method, ses[t].method)
                 THEN Nobody ELSE ses[t]]
    /\ UNCHANGED <<rowVars, link>>

\* The console: admin:access, and requireAdminStepUp.
StartAdminAct(s) ==
    Resolves(s, "admin", isAdmin /\ ses[s].method = "passkey" /\ ses[s].age # "old")
AdminActs(s) ==
    /\ Acts(s, "admin")
    /\ UNCHANGED <<rowVars, ses, link>>

\* POST /v1/account/delete: not an admin, fresh, and held to the ladder; then
\* delete_account, the cascade, and the address's unopened links.
StartDeletion(s) ==
    Resolves(s, "delete", ~isAdmin /\ ses[s].age = "fresh"
                          /\ (passkeys = 0 \/ ses[s].method = "passkey"))
ClearedNone == link
Cleared == [l \in Link |-> IF link[l].at = "stored" THEN NoLink ELSE link[l]]
DeletesAccount(s) ==
    /\ Acts(s, "delete")
    /\ IF Existing(s)
       THEN /\ account' = Nobody /\ isAdmin' = FALSE /\ passkeys' = 0
            /\ ses' = [t \in Slot |-> Nobody]
            /\ link' = Cleared
       ELSE UNCHANGED <<account, isAdmin, passkeys, ses, link>>
    /\ UNCHANGED made
-----------------------------------------------------------------------------
LinkStep(l) ==
    \/ AskForLink(l) \/ LinkLapses(l) \/ OpenLink(l)
    \/ \E s \in Slot : LinkSignsIn(l, s)
SessionStep(s) ==
    \/ DiscordSignsIn(s) \/ PasskeySignsIn(s)
    \/ SignsOut(s) \/ Refreshes(s) \/ Ages(s) \/ Lapses(s)
Starts(s) ==
    \/ StartRegistration(s) \/ StartRemoval(s) \/ StartRevoking(s)
    \/ StartRevokingOthers(s) \/ StartAdminAct(s) \/ StartDeletion(s)
Finishes(s) ==
    \/ RegistersPasskey(s) \/ RemovesPasskey(s) \/ RevokesSession(s)
    \/ RevokesOthers(s) \/ AdminActs(s) \/ DeletesAccount(s)

Next ==
    \/ \E l \in Link : LinkStep(l)
    \/ \E s \in Slot : SessionStep(s) \/ Starts(s) \/ Finishes(s)
    \/ RunRetention \/ SetRole

Spec == Init /\ [][Next]_vars

\* Time passes for a session that stays.
AccountsFairness == \A s \in Slot : WF_vars(Ages(s)) /\ SF_vars(AdminActs(s))
-----------------------------------------------------------------------------
(***************************************************************************)
(* What must hold                                                          *)
(***************************************************************************)
\* A link stored before a deletion opens no account after it, unless it was
\* being opened at that moment (deleteAccount: "an unused link from before the
\* deletion would quietly create a new account on click").
OldLinksAreDead ==
    \A l \in Link : link[l].at = "stored" => link[l].gone = Gone

\* Using the console does not keep it open: without signing in again a browser
\* stops being let in, however long its session is refreshed (plugins/auth.ts,
\* step-up.ts).
SignsInAgain(s) == ses[s] = Nobody /\ ses'[s] # Nobody
ConsoleCloses ==
    \A s \in Slot :
      <>[][~SignsInAgain(s)]_vars => <>[][~AdminActs(s)]_vars

=============================================================================
