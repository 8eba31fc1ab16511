------------------------------- MODULE Owners -------------------------------
(***************************************************************************)
(* Bot accounts and their credentials: the owner's password behind a       *)
(* stateless signed cookie, and the agent's key.                           *)
(*                                                                         *)
(* A cookie carries the version of the password hash it was issued under;  *)
(* nothing about it is stored.  A change of password reads the hash, then  *)
(* writes whatever is stored by then, then reads again for a new cookie:   *)
(* three statements, no transaction, no lock.  Each may be the last of a   *)
(* request.                                                                *)
(***************************************************************************)
EXTENDS Naturals, Sequences, FiniteSets

CONSTANTS
    Names,          \* bot names
    Passwords,      \* passwords their owners use
    OwnerRequests,  \* requests served at once
    MaxBots,        \* bound on registrations
    MaxFresh,       \* bound on salts and keys drawn
    MaxCookies      \* bound on the cookies kept by browsers

ASSUME OwnersAssumption == Passwords # {}

VARIABLES
    bots,           \* tb_bots, by id: name, status, password and salt of the hash, agent key;
                    \* and, remembered for the properties, the changes of password that were
                    \* stored but not answered when this hash was stored
    cookies,        \* cookies browsers hold: the bot, the version they carry, the password
                    \* their holder knows and the salt it was stored with
    ownerRequest,   \* where each request is
    fresh           \* salts and keys drawn so far

ownerVars == <<bots, cookies, ownerRequest, fresh>>

NoRequest == [step |-> "idle"]
Bots == DOMAIN bots
Active(b) == b \in Bots /\ bots[b].status = "active"
Idle(q) == ownerRequest[q].step = "idle"

\* Mutant: the version is derived from the password itself.
PasswordVersionUnsalted(pw, salt) == <<pw>>

\* PasswordVersion of a bcrypt hash: every hash has a salt of its own.
PasswordVersion(pw, salt) == <<pw, salt>>

VersionOf(b) == PasswordVersion(bots[b].pw, bots[b].salt)

\* Mutant: the version in the cookie is not compared.
AcceptedUnversioned(c) == Active(c.bot)

\* RequireOwnerSession: an active account whose hash is still the cookie's.
Accepted(c) == Active(c.bot) /\ VersionOf(c.bot) = c.version

NewCookie(b, pw, salt) ==
    /\ Cardinality(cookies) < MaxCookies
    /\ cookies' = cookies \cup {[bot |-> b, version |-> VersionOf(b), knows |-> pw, salt |-> salt]}

-----------------------------------------------------------------------------
(* Registration.                                                           *)

RegisterProbe(q, n, pw) ==
    /\ Idle(q)
    /\ \A b \in Bots : bots[b].name # n
    /\ ownerRequest' = [ownerRequest EXCEPT ![q] = [step |-> "insert", name |-> n, pw |-> pw]]
    /\ UNCHANGED <<bots, cookies, fresh>>

\* Mutant: the name is unique because it was free when the request asked.
NameFreeAsProbed(n) == TRUE

\* uk_bot_name.
NameFree(n) == \A b \in Bots : bots[b].name # n

\* InsertRegisteredBot with the signup grant, in one transaction.
Register(q) ==
    LET r == ownerRequest[q]
    IN  /\ r.step = "insert"
        /\ NameFree(r.name)
        /\ Len(bots) < MaxBots /\ fresh < MaxFresh
        /\ bots' = Append(bots, [name |-> r.name, status |-> "active", pw |-> r.pw,
                                 salt |-> fresh, key |-> fresh, overtook |-> {}])
        /\ fresh' = fresh + 1
        /\ ownerRequest' = [ownerRequest EXCEPT ![q] = NoRequest]
        /\ UNCHANGED cookies

-----------------------------------------------------------------------------
(* Sessions.                                                               *)

\* OwnerLogin verifies against the row it read; the cookie needs nothing more.
OwnerLogin(b) ==
    /\ Active(b)
    /\ NewCookie(b, bots[b].pw, bots[b].salt)
    /\ UNCHANGED <<bots, ownerRequest, fresh>>

\* 24 hours have passed, or the owner logged out: the server keeps nothing to end.
CookieEnds(c) ==
    /\ cookies' = cookies \ {c}
    /\ UNCHANGED <<bots, ownerRequest, fresh>>

\* requireOwnerAuth, before the operation reads anything of its own.
RequireOwnerSession(q, c) ==
    /\ Idle(q)
    /\ Accepted(c)
    /\ ownerRequest' = [ownerRequest EXCEPT ![q] = [step |-> "session", bot |-> c.bot]]
    /\ UNCHANGED <<bots, cookies, fresh>>

-----------------------------------------------------------------------------
(* Change of password.                                                     *)

\* The present password is asked for again and checked against the row as it is.
ChangeVerify(q, new) ==
    LET b == ownerRequest[q].bot
    IN  /\ ownerRequest[q].step = "session"
        /\ Active(b) /\ new # bots[b].pw
        /\ ownerRequest' = [ownerRequest EXCEPT ![q] = [step |-> "write", bot |-> b, new |-> new]]
        /\ UNCHANGED <<bots, cookies, fresh>>

\* The changes of b's password that are stored and not answered yet, by their salts.
Unanswered(b) ==
    {ownerRequest[q].salt :
        q \in {p \in OwnerRequests : ownerRequest[p].step = "cookie" /\ ownerRequest[p].bot = b}}

\* UpdatePasswordHashByID: by id alone, whatever the row holds by now.
ChangePassword(q) ==
    LET r == ownerRequest[q]
    IN  /\ r.step = "write"
        /\ fresh < MaxFresh
        /\ bots' = [bots EXCEPT ![r.bot].pw = r.new, ![r.bot].salt = fresh,
                                ![r.bot].overtook = Unanswered(r.bot)]
        /\ fresh' = fresh + 1
        /\ ownerRequest' = [ownerRequest EXCEPT ![q] =
                              [step |-> "cookie", bot |-> r.bot, new |-> r.new, salt |-> fresh]]
        /\ UNCHANGED cookies

\* The row is read once more and the new cookie carries the version it holds by
\* then, that of a change that came between included.
ChangeCookie(q) ==
    LET r == ownerRequest[q]
    IN  /\ r.step = "cookie"
        /\ IF Active(r.bot)
           THEN NewCookie(r.bot, r.new, r.salt)
           ELSE UNCHANGED cookies
        /\ ownerRequest' = [ownerRequest EXCEPT ![q] = NoRequest]
        /\ UNCHANGED <<bots, fresh>>

-----------------------------------------------------------------------------
(* Agent keys.                                                             *)

\* ResetKey reads the account; the limiter is asked in between.
ResetRead(q) ==
    LET b == ownerRequest[q].bot
    IN  /\ ownerRequest[q].step = "session"
        /\ Active(b)
        /\ ownerRequest' = [ownerRequest EXCEPT ![q] = [step |-> "reset", bot |-> b]]
        /\ UNCHANGED <<bots, cookies, fresh>>

ResetKey(q) ==
    LET r == ownerRequest[q]
    IN  /\ r.step = "reset"
        /\ fresh < MaxFresh
        /\ bots' = [bots EXCEPT ![r.bot].key = fresh]
        /\ fresh' = fresh + 1
        /\ ownerRequest' = [ownerRequest EXCEPT ![q] = NoRequest]
        /\ UNCHANGED cookies

\* VerifyAgentKey: whose agent the bearer of a key is.
AgentOf(key) == {b \in Bots : Active(b) /\ bots[b].key = key}

-----------------------------------------------------------------------------
\* A request ends where it is: refused, failed, lost with the process.
OwnerRequestEnds(q) ==
    /\ ~Idle(q)
    /\ ownerRequest' = [ownerRequest EXCEPT ![q] = NoRequest]
    /\ UNCHANGED <<bots, cookies, fresh>>

\* setPlatformAccountStatus: no credential is touched.
SetBotStatus(b, status) ==
    /\ b \in Bots /\ bots[b].status # status
    /\ bots' = [bots EXCEPT ![b].status = status]
    /\ UNCHANGED <<cookies, ownerRequest, fresh>>

OwnersInit(rows) ==
    /\ bots = rows /\ cookies = {} /\ fresh = Len(rows) + 1
    /\ ownerRequest = [q \in OwnerRequests |-> NoRequest]

OwnersNext ==
    \/ \E q \in OwnerRequests :
        \/ \E n \in Names, pw \in Passwords : RegisterProbe(q, n, pw)
        \/ Register(q)
        \/ \E c \in cookies : RequireOwnerSession(q, c)
        \/ \E new \in Passwords : ChangeVerify(q, new)
        \/ ChangePassword(q) \/ ChangeCookie(q)
        \/ ResetRead(q) \/ ResetKey(q)
        \/ OwnerRequestEnds(q)
    \/ \E b \in Bots : OwnerLogin(b)
    \/ \E c \in cookies : CookieEnds(c)

-----------------------------------------------------------------------------
(* Properties.                                                             *)

\* However many registrations probe a name at once, one account has it, and every agent
\* key opens one account (uk_bot_name, uk_api_key).
OneAccountPerName ==
    \A b \in Bots :
        /\ \A d \in Bots \ {b} : bots[b].name # bots[d].name
        /\ AgentOf(bots[b].key) \subseteq {b}

\* Whoever holds a cookie that is accepted knows the present password; or is a change of
\* password that had been stored and not answered when the present password was stored,
\* and was answered with its successor's version.  Nobody else: no cookie from before the
\* present password, and none of a change that was answered by then.
CookiesOfPresentPassword ==
    \A c \in cookies : Accepted(c) =>
        c.knows = bots[c.bot].pw \/ c.salt \in bots[c.bot].overtook

\* A cookie refused for its version stays refused, even when the password changes back.
SignedOutForGood ==
    [][\A c \in cookies \cap cookies' :
         Active(c.bot) /\ ~Accepted(c) => ~Accepted(c)']_ownerVars

\* However registrations, logins and changes of password overlap, a name and a key open
\* one account; a cookie opens it for whoever knows the present password, and for a change
\* of password that was under way when that one was stored; and a cookie once refused for
\* its version stays refused.
CredentialsAreCurrent ==
    [](OneAccountPerName /\ CookiesOfPresentPassword) /\ SignedOutForGood
=============================================================================
