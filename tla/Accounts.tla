------------------------------- MODULE Accounts -------------------------------
(***************************************************************************)
(* The accounts, how a person gets into one, and how admins manage them.   *)
(*                                                                         *)
(* A sign-in through Google or Lark looks for the account its identity     *)
(* made or joined before, then for one with its address, and creates one   *)
(* otherwise; the look-ups and the commit are separate transactions of     *)
(* concurrent requests.  Registration and administration write the same    *)
(* table, and what names an account (sessions, campaign assignments,       *)
(* registered event clients) has to follow.                                *)
(*                                                                         *)
(* Left out: names, departments and passwords (profile and reset_password  *)
(* touch nothing else), and tokens, which only name an account.            *)
(***************************************************************************)
EXTENDS Integers, FiniteSets

CONSTANTS
    Ids,          \* account ids handed out
    Unused, Gone, \* states of an id that has no row
    Logins,       \* identities at Google and at Lark
    Google,       \* those of Google
    NoLogin,
    Emails,       \* addresses
    EmailOf,      \* login -> the address its provider tells, or NoEmail
    NoEmail,
    Verified,     \* logins whose address the provider has verified
    Calls,        \* requests, each made at most once
    Plans,        \* sets of requests and sockets that come together
    Seeded,       \* id -> the row the installation starts with, or Unused
    Sockets,      \* event WebSockets
    UserOf,       \* socket -> account its token names
    Enrolled      \* assignments to start with

Roles == {"admin", "user"}
Types == {"agent", "trainer", "none"}

\* The columns of table users.
UserRows == [email : Emails \cup (Logins \ Google), google : Google \cup {NoLogin},
             lark : (Logins \ Google) \cup {NoLogin}, role : Roles, type : Types,
             active : BOOLEAN]

ASSUME LoginsAssumption ==
    /\ Google \subseteq Logins /\ Verified \subseteq Logins /\ NoLogin \notin Logins
    /\ EmailOf \in [Logins -> Emails \cup {NoEmail}] /\ NoEmail \notin Emails
ASSUME RowsAssumption ==
    Unused # Gone /\ {Unused, Gone} \cap (Ids \cup UserRows) = {}
\* The accounts to start with have addresses of their own and no identity.
ASSUME SeededAssumption ==
    /\ Seeded \in [Ids -> UserRows \cup {Unused}]
    /\ \A s \in Ids : Seeded[s] # Unused =>
          /\ Seeded[s].google = NoLogin /\ Seeded[s].lark = NoLogin
          /\ \A t \in Ids \ {s} : Seeded[t] # Unused =>
                Seeded[t].email # Seeded[s].email
\* What the request schemas let through.
ASSUME AccountCallsAssumption ==
    \A c \in Calls :
        /\ c.op = "sign_in" => c.login \in Logins
        /\ c.op \in {"register", "create_user"} => c.email \in Emails /\ c.role \in Roles
        /\ c.op = "create_user" => c.type \in Types
        /\ c.op = "update_user" => c.role \in Roles /\ c.type \in Types
        /\ c.op = "set_status" => c.active \in BOOLEAN
        /\ c.op = "auth_update" => c.role \subseteq Roles /\ c.active \subseteq BOOLEAN

VARIABLES
    users,       \* table users: id -> row, Unused or Gone
    assigned,    \* table campaign_agents: <<user, campaign>>
    sessions,    \* table sessions: what create_session inserted
    socket,      \* event WebSocket -> its progress and registered scope
    at,          \* request -> the step it waits at
    saw,         \* request -> what it has read
    home         \* history: login -> accounts it was signed in to

accountVars == <<users, assigned, sessions, socket, at, saw, home>>

-----------------------------------------------------------------------------
(* Plausible bugs *)

\* The table has no unique index.
KeysAreFree_none(row, others) == TRUE

-----------------------------------------------------------------------------
(* Rows *)

User(email, google, lark, role, type) ==
    [email |-> email, google |-> google, lark |-> lark, role |-> role,
     type |-> type, active |-> TRUE]

Rows == {s \in Ids : users[s] \notin {Unused, Gone}}

ByAddress(email) == {s \in Rows : users[s].email = email}

ByLogin(i) == {s \in Rows : i \in {users[s].google, users[s].lark}}

NewId == CHOOSE s \in Ids : users[s] = Unused

CanAdd == \E s \in Ids : users[s] = Unused

\* Lark accounts without an address get one of their own, open_id@lark.oauth.
Address(i) == IF EmailOf[i] = NoEmail THEN i ELSE EmailOf[i]

\* Google's address counts only when verified, Lark's always.
MayJoinByAddress(i) ==
    EmailOf[i] # NoEmail /\ (i \in Google => i \in Verified)

NewUser(i) ==
    User(Address(i), IF i \in Google THEN i ELSE NoLogin,
         IF i \in Google THEN NoLogin ELSE i, "user", "agent")

Linked(row, i) == IF i \in Google THEN [row EXCEPT !.google = i]
                  ELSE [row EXCEPT !.lark = i]

\* The unique indexes of the table.
KeysAreFree(row, others) ==
    \A s \in others :
        /\ users[s].email # row.email
        /\ row.google # NoLogin => users[s].google # row.google
        /\ row.lark # NoLogin => users[s].lark # row.lark

Nothing == [none |-> TRUE]

Final == {"done", "refused", "failed"}

Go(c, step) ==
    /\ at' = [at EXCEPT ![c] = step]
    /\ saw' = IF step \in Final THEN [saw EXCEPT ![c] = Nothing] ELSE saw

Read(c, step, what) ==
    /\ at' = [at EXCEPT ![c] = step]
    /\ saw' = [saw EXCEPT ![c] = what]

Tables == <<users, assigned, sessions, socket, home>>

AccountsInit ==
    /\ users = Seeded
    /\ assigned = Enrolled
    /\ sessions = {}
    /\ \E plan \in Plans :
          /\ at = [c \in Calls |-> IF c \in plan THEN "waiting" ELSE "absent"]
          /\ socket = [w \in Sockets |->
                [step |-> IF w \in plan THEN "new" ELSE "closed", scope |-> {}]]
    /\ saw = [c \in Calls |-> Nothing]
    /\ home = [i \in Logins |-> {}]

-----------------------------------------------------------------------------
(* Signing in with Google or Lark *)

IsSignIn(c) == c.op = "sign_in"

\* The callback returns the account found, unless it is inactive; the account
\* was joined all the same.
Land(c, s) ==
    /\ home' = [home EXCEPT ![c.login] = @ \cup {s}]
    /\ Go(c, IF users[s] \notin {Unused, Gone} /\ ~users[s].active
             THEN "refused" ELSE "done")

\* By google_sub or lark_open_id.  Lark then stores the profile.
FindLogin(c) ==
    /\ IsSignIn(c) /\ at[c] = "waiting"
    /\ IF ByLogin(c.login) = {}
       THEN Go(c, "by_address") /\ UNCHANGED home
       ELSE \E s \in ByLogin(c.login) :
                IF c.login \in Google THEN Land(c, s)
                ELSE Read(c, "profile", [id |-> s]) /\ UNCHANGED home
    /\ UNCHANGED <<users, assigned, sessions, socket>>

\* An UPDATE that meets no row fails the request.
StoreProfile(c) ==
    /\ IsSignIn(c) /\ at[c] = "profile"
    /\ IF saw[c].id \in Rows THEN Land(c, saw[c].id)
       ELSE Go(c, "failed") /\ UNCHANGED home
    /\ UNCHANGED <<users, assigned, sessions, socket>>

FindAddress(c) ==
    /\ IsSignIn(c) /\ at[c] = "by_address"
    /\ LET found == IF MayJoinByAddress(c.login)
                    THEN ByAddress(EmailOf[c.login]) ELSE {}
       IN  IF found # {}
           THEN Read(c, "linking", [id |-> CHOOSE s \in found : TRUE])
           ELSE Go(c, IF c.login \in Google /\ EmailOf[c.login] = NoEmail
                      THEN "refused" ELSE "creating")
    /\ UNCHANGED Tables

Link(c) ==
    /\ IsSignIn(c) /\ at[c] = "linking"
    /\ LET s == saw[c].id
       IN  IF /\ s \in Rows
              /\ KeysAreFree(Linked(users[s], c.login), Rows \ {s})
           THEN /\ users' = [users EXCEPT ![s] = Linked(@, c.login)]
                /\ Land(c, s)
           ELSE Go(c, "failed") /\ UNCHANGED <<users, home>>
    /\ UNCHANGED <<assigned, sessions, socket>>

CreateSignedIn(c) ==
    /\ IsSignIn(c) /\ at[c] = "creating" /\ CanAdd
    /\ IF KeysAreFree(NewUser(c.login), Rows)
       THEN /\ users' = [users EXCEPT ![NewId] = NewUser(c.login)]
            /\ home' = [home EXCEPT ![c.login] = @ \cup {NewId}]
            /\ Go(c, "done")
       ELSE Go(c, "failed") /\ UNCHANGED <<users, home>>
    /\ UNCHANGED <<assigned, sessions, socket>>

-----------------------------------------------------------------------------
(* Registration and administration *)

AdminOps == {"create_user", "update_user", "set_status", "auth_update",
             "delete_user", "create_campaign", "update_campaign", "archive",
             "add_scenarios", "remove_scenario", "set_scenario"}

\* get_current_user and require_admin: the account as it is now, active.
Authenticate(c) ==
    /\ c.op \in AdminOps /\ at[c] = "waiting"
    /\ IF c.actor \in Rows /\ users[c.actor].active /\ users[c.actor].role = "admin"
       THEN Read(c, "asked", [me |-> users[c.actor]])
       ELSE Go(c, "refused")
    /\ UNCHANGED Tables

\* register, and create_user of an admin: look for the address, then insert.
IsNewUser(c) == c.op = "register" \/ c.op = "create_user"

CheckAddress(c) ==
    /\ IsNewUser(c) /\ at[c] = (IF c.op = "register" THEN "waiting" ELSE "asked")
    /\ Go(c, IF ByAddress(c.email) = {} THEN "inserting" ELSE "refused")
    /\ UNCHANGED Tables

InsertUser(c) ==
    /\ IsNewUser(c) /\ at[c] = "inserting" /\ CanAdd
    /\ LET type == IF c.op = "create_user" THEN c.type
                   ELSE IF c.role = "user" THEN "agent" ELSE "none"
           row == User(c.email, NoLogin, NoLogin, c.role, type)
       IN  IF KeysAreFree(row, Rows)
           THEN users' = [users EXCEPT ![NewId] = row] /\ Go(c, "done")
           ELSE Go(c, "failed") /\ UNCHANGED users
    /\ UNCHANGED <<assigned, sessions, socket, home>>

Given(optional, old) == IF optional = {} THEN old ELSE CHOOSE v \in optional : TRUE

\* The fields a call sets; auth_update sets those it is given, never the type.
Wanted(c, row) ==
    CASE c.op = "update_user" -> [row EXCEPT !.role = c.role, !.type = c.type]
      [] c.op = "set_status"  -> [row EXCEPT !.active = c.active]
      [] c.op = "auth_update" -> [row EXCEPT !.role = Given(c.role, @),
                                             !.active = Given(c.active, @)]

IsTargeted(c) ==
    c.op \in {"update_user", "set_status", "auth_update", "delete_user"}

\* The own row is the one that authentication loaded; another is read now.
Loaded(c) == IF c.target = c.actor THEN saw[c].me ELSE users[c.target]

\* Nobody demotes, deactivates or deletes themselves, except by auth_update.
Refuses(c) ==
    /\ c.target = c.actor
    /\ \/ c.op = "update_user" /\ Loaded(c).role = "admin" /\ c.role # "admin"
       \/ c.op = "set_status" /\ ~c.active
       \/ c.op = "delete_user"

LoadTarget(c) ==
    /\ IsTargeted(c) /\ at[c] = "asked"
    /\ IF c.target \in Rows /\ ~Refuses(c)
       THEN Read(c, "loaded", [row |-> Loaded(c)])
       ELSE Go(c, "refused")
    /\ UNCHANGED Tables

\* The UPDATE names the fields that differ from what was loaded.
Written(c) ==
    LET old == saw[c].row
        new == Wanted(c, old)
        now == users[c.target]
    IN  [now EXCEPT
            !.role = IF new.role # old.role THEN new.role ELSE @,
            !.type = IF new.type # old.type THEN new.type ELSE @,
            !.active = IF new.active # old.active THEN new.active ELSE @]

WriteUser(c) ==
    /\ IsTargeted(c) /\ c.op # "delete_user" /\ at[c] = "loaded"
    /\ IF c.target \in Rows
       THEN /\ users' = [users EXCEPT ![c.target] = Written(c)]
            /\ Go(c, IF c.op = "set_status" /\ ~c.active THEN "closing" ELSE "done")
       ELSE Go(c, "failed") /\ UNCHANGED users
    /\ UNCHANGED <<assigned, sessions, socket, home>>

\* disconnect_user: the clients registered at this moment, unless the refresh
\* after the commit did not find the row any more.
DisconnectUser(c) ==
    /\ c.op = "set_status" /\ at[c] = "closing"
    /\ \/ /\ socket' = [w \in Sockets |->
                IF UserOf[w] = c.target /\ socket[w].step = "connected"
                THEN [socket[w] EXCEPT !.step = "closed"] ELSE socket[w]]
          /\ Go(c, "done")
       \/ c.target \notin Rows /\ Go(c, "failed") /\ UNCHANGED socket
    /\ UNCHANGED <<users, assigned, sessions, home>>

SessionsOf(s) == {x \in sessions : x.agent = s}

\* sessions.agent_id is NOT NULL: setting it to NULL in some row fails.
NullifySessions(c) ==
    /\ c.op = "delete_user" /\ at[c] = "loaded"
    /\ Go(c, IF SessionsOf(c.target) = {} THEN "deleting" ELSE "failed")
    /\ UNCHANGED Tables

\* No foreign key holds the sessions; the one of campaign_agents cascades.
\* Nobody closes the event clients of the account.
DeleteUser(c) ==
    /\ c.op = "delete_user" /\ at[c] = "deleting"
    /\ users' = [users EXCEPT ![c.target] = Gone]
    /\ assigned' = {pair \in assigned : pair[1] # c.target}
    /\ Go(c, "done")
    /\ UNCHANGED <<sessions, socket, home>>

-----------------------------------------------------------------------------
(* Properties *)

\* Whatever else happens to accounts meanwhile, all sign-ins of one identity
\* (get_or_create_google_user, get_or_create_lark_user) enter the same account
\* for as long as that account exists.
IdentityKeepsItsAccount ==
    \A i \in Logins : Cardinality(home[i] \cap Rows) <= 1

\* delete_user "nullifies session references first": no session names an
\* account that was deleted.
SessionsKeepTheirAgent ==
    \A x \in sessions : x.agent \in Rows

-----------------------------------------------------------------------------
(* The inductive invariant of the accounts *)

\* s was, and while it exists is, the account with i's address.
KnownAs(s, i) ==
    /\ s \in Ids /\ users[s] # Unused
    /\ s \in Rows => users[s].email = Address(i)

\* An address is of one account, and an identity's account has its address.
AddressesDecide ==
    /\ \A s, t \in Rows : users[s].email = users[t].email => s = t
    /\ \A s \in Rows, i \in Logins :
          i \in {users[s].google, users[s].lark} => users[s].email = Address(i)

\* What a sign-in found is still that account when it comes to use it.
HomesAreKnown == \A i \in Logins : \A s \in home[i] : KnownAs(s, i)

SignInsAgree ==
    \A c \in Calls :
        /\ IsSignIn(c) /\ at[c] \in {"profile", "linking"} =>
              KnownAs(saw[c].id, c.login)
        /\ IsSignIn(c) /\ at[c] = "creating" /\ c.login \in Google =>
              EmailOf[c.login] # NoEmail

\* The rows an administrator's request works on are rows.
UpdatesAreOfRows ==
    \A c \in Calls :
        /\ at[c] = "asked" => saw[c].me \in UserRows
        /\ IsTargeted(c) /\ at[c] = "loaded" => saw[c].row \in UserRows
=============================================================================
