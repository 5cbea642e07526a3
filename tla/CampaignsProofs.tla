---------------------------- MODULE CampaignsProofs ----------------------------
(***************************************************************************)
(* Accounts and campaigns for any accounts, identities, campaigns, clients *)
(* and requests: one account per identity, scopes that were once true, and *)
(* invitations each of whose conditions has held.                          *)
(*                                                                         *)
(* The argument: an address never moves from one account to another and    *)
(* decides where an identity goes, so that whatever a sign-in has found    *)
(* stays right or disappears.  The past of an agent's assignments and what *)
(* a request has witnessed only grow; so what was read before is still     *)
(* among them when it is used, however late.                               *)
(***************************************************************************)
EXTENDS Campaigns, FiniteSetTheorems, TLAPS

-----------------------------------------------------------------------------
(* Requests move one at a time *)

Others(c) == \A d \in Calls \ {c} : at'[d] = at[d] /\ saw'[d] = saw[d]

Requests == DOMAIN at = Calls /\ DOMAIN saw = Calls

LEMMA Going ==
    ASSUME Requests, NEW c \in Calls, NEW step, Go(c, step)
    PROVE  /\ Requests' /\ Others(c)
           /\ at'[c] = step
           /\ step \in Final => saw'[c] = Nothing
           /\ step \notin Final => saw'[c] = saw[c]
BY DEF Requests, Others, Go

LEMMA Reading ==
    ASSUME Requests, NEW c \in Calls, NEW step, NEW what, Read(c, step, what)
    PROVE  /\ Requests' /\ Others(c)
           /\ at'[c] = step /\ saw'[c] = what
BY DEF Requests, Others, Read

-----------------------------------------------------------------------------
(* What a request has witnessed only grows *)

LEMMA Witnessed ==
    ASSUME Witness, NEW c \in Invites, NEW k \in Names, NEW x \in Scenarios
    PROVE  /\ \/ at'[c] \in {"waiting", "absent"}
              \/ at[c] \in Final
              => since'[c] = since[c]
           /\ /\ at'[c] \notin {"waiting", "absent", "refused", "failed"}
              /\ at[c] \notin Final
              => since'[c][<<k, x>>] = since[c][<<k, x>>] \cup Facts(c.actor, k, x)'
BY DEF Witness

LEMMA Witnesses ==
    ASSUME Witness, NEW c \in Invites, NEW k \in Names, NEW x \in Scenarios,
           at'[c] \notin {"waiting", "absent", "refused", "failed"},
           at[c] \notin Final
    PROVE  /\ since[c][<<k, x>>] \subseteq since'[c][<<k, x>>]
           /\ <<c.actor, k>> \in assigned' => "assigned" \in since'[c][<<k, x>>]
           /\ campaign'[k].status = "active" => "active" \in since'[c][<<k, x>>]
           /\ x \in campaign'[k].scenarios => "member" \in since'[c][<<k, x>>]
           /\ x \in live' => "live" \in since'[c][<<k, x>>]
<1>1. since'[c][<<k, x>>] = since[c][<<k, x>>] \cup Facts(c.actor, k, x)'
    BY Witnessed
<1>2. /\ <<c.actor, k>> \in assigned' => "assigned" \in Facts(c.actor, k, x)'
      /\ campaign'[k].status = "active" => "active" \in Facts(c.actor, k, x)'
      /\ x \in campaign'[k].scenarios => "member" \in Facts(c.actor, k, x)'
      /\ x \in live' => "live" \in Facts(c.actor, k, x)'
    BY DEF Facts, Active
<1> QED
    BY <1>1, <1>2

LEMMA PastGrows ==
    ASSUME Witness
    PROVE  \A s \in Ids :
              /\ past[s] \subseteq past'[s] /\ CampaignsOf(s)' \in past'[s]
              /\ past[s] \subseteq SUBSET Names => past'[s] \subseteq SUBSET Names
BY DEF Witness, CampaignsOf

-----------------------------------------------------------------------------
(* What a step leaves of the parts it does not touch *)

PeoplePart == AddressesDecide /\ HomesAreKnown /\ SignInsAgree

InvitePart == AnswersAreWitnessed /\ SessionsAreOfCalls /\ InvitationsAreGenuine

\* Accounts stay what they are, or disappear for good.
AccountsKeep ==
    \A s \in Ids : users[s] # Unused =>
        /\ users'[s] # Unused
        /\ s \in Rows' => s \in Rows /\ users'[s].email = users[s].email

LEMMA FoundIsKept ==
    ASSUME AccountsKeep, NEW s, NEW i, KnownAs(s, i)
    PROVE  KnownAs(s, i)'
BY DEF AccountsKeep, KnownAs, Address

LEMMA PeopleMoveOn ==
    ASSUME IInv, NEW c \in Calls, Others(c), AccountsKeep, AddressesDecide',
           \A i \in Logins : \A s \in home'[i] : s \in home[i] \/ KnownAs(s, i)',
           IsSignIn(c) => at'[c] \in Final
    PROVE  PeoplePart'
<1>1. \A s, i : KnownAs(s, i) => KnownAs(s, i)'
    BY FoundIsKept
<1>2. HomesAreKnown'
    BY <1>1 DEF IInv, HomesAreKnown
<1>3. SignInsAgree'
    <2>1. \A d \in Calls \ {c} : at'[d] = at[d] /\ saw'[d] = saw[d]
        BY DEF Others
    <2>2. IsSignIn(c) => at'[c] \notin {"profile", "linking", "creating"}
        BY DEF Final
    <2>3. \A d \in Calls : IsSignIn(d) /\ at'[d] \in {"profile", "linking"} =>
                                KnownAs(saw[d].id, d.login)'
        <3> SUFFICES ASSUME NEW d \in Calls, IsSignIn(d),
                            at'[d] \in {"profile", "linking"}, NEW s, s = saw'[d].id
                     PROVE  KnownAs(s, d.login)'
            OBVIOUS
        <3>1. d # c /\ KnownAs(s, d.login)
            BY <2>1, <2>2 DEF IInv, SignInsAgree
        <3> QED
            BY <1>1, <3>1
    <2> QED
        BY <2>1, <2>2, <2>3 DEF IInv, SignInsAgree, IsSignIn
<1> QED
    BY <1>2, <1>3 DEF PeoplePart

LEMMA PeopleUndisturbed ==
    ASSUME PeoplePart, UNCHANGED <<users, home>>,
           \A d \in Calls : IsSignIn(d) => at'[d] = at[d] /\ saw'[d] = saw[d]
    PROVE  PeoplePart'
BY DEF PeoplePart, AddressesDecide, HomesAreKnown, SignInsAgree, KnownAs, Rows, Address, IsSignIn

\* What is on its way to a client comes from the past, that of this step included.
LEMMA ScopesMoveOn ==
    ASSUME IInv, Witness,
           \A w \in Sockets :
               \/ socket'[w] = socket[w]
               \/ socket'[w].step \in {"scoped", "connected"} =>
                     socket'[w].scope \in past'[UserOf[w]],
           \A d \in Calls : at'[d] \in {"scopes", "telling"} =>
               \/ at'[d] = at[d] /\ saw'[d] = saw[d]
               \/ /\ saw'[d].left \subseteq Ids
                  /\ at'[d] = "telling" =>
                        saw'[d].id \in Ids /\ saw'[d].ks \in past'[saw'[d].id]
    PROVE  ScopesComeFromThePast'
<1> USE DEF IInv, ScopesComeFromThePast
<1>1. \A s \in Ids : /\ past[s] \subseteq past'[s] /\ CampaignsOf(s)' \in past'[s]
                   /\ past'[s] \subseteq SUBSET Names
    BY PastGrows
<1>2. \A w \in Sockets : UserOf[w] \in Ids
    BY OpenedAssumption
<1> QED
    BY <1>1, <1>2

LEMMA ScopesUndisturbed ==
    ASSUME IInv, Witness, UNCHANGED socket,
           \A d \in Calls : at'[d] \in {"scopes", "telling"} =>
                at'[d] = at[d] /\ saw'[d] = saw[d]
    PROVE  ScopesComeFromThePast'
BY ScopesMoveOn

\* What the answers to the questions of c have established.
Answers(c) ==
    /\ c.op = "create_session" =>
          LET known == since[c][<<c.k, c.x>>] IN
          /\ at[c] = "assignment" /\ saw[c].status = "active" => "active" \in known
          /\ at[c] \in {"membership", "scenario", "persona"} =>
                saw[c].admin \/ {"assigned", "active"} \subseteq known
          /\ at[c] \in {"scenario", "persona"} => "member" \in known
          /\ at[c] = "persona" => "live" \in known
    /\ c.op = "list_scenarios" /\ at[c] = "collecting" =>
          \A k \in saw[c].ks, x \in Scenarios :
              k \in Names /\ {"assigned", "active"} \subseteq since[c][<<k, x>>]

SessionIsGenuine(s) ==
    {"member", "live"} \cup (IF s.admin THEN {} ELSE {"assigned", "active"})
        \subseteq since[s.by][<<s.k, s.x>>]

ListIsGenuine(c) ==
    at[c] = "done" /\ c.op = "list_scenarios" =>
        \A x \in saw[c].listed : \E k \in Names :
            {"assigned", "active", "member", "live"} \subseteq since[c][<<k, x>>]

\* What is established stays so while others move.
LEMMA AnswersStay ==
    ASSUME IInv, Witness, NEW c \in Invites, at'[c] = at[c], saw'[c] = saw[c]
    PROVE  Answers(c)'
<1>1. c \in Calls /\ Answers(c)
    BY DEF IInv, AnswersAreWitnessed, Answers, Invites
<1>2. CASE c.op = "create_session"
    <2>1. c.k \in Names /\ c.x \in Scenarios
        BY <1>1, <1>2, CampaignCallsAssumption
    <2>2. at[c] \in {"assignment", "membership", "scenario", "persona"} =>
              since[c][<<c.k, c.x>>] \subseteq since'[c][<<c.k, c.x>>]
        BY <2>1, Witnesses DEF Final
    <2> QED
        BY <1>1, <1>2, <2>2 DEF Answers
<1>3. CASE c.op = "list_scenarios" /\ at[c] = "collecting"
    <2>1. \A k \in Names, x \in Scenarios :
              since[c][<<k, x>>] \subseteq since'[c][<<k, x>>]
        BY <1>3, Witnesses DEF Final
    <2> QED
        BY <1>1, <1>3, <2>1 DEF Answers
<1> QED
    BY <1>2, <1>3 DEF Answers

\* A request that has its answer learns nothing more.
LEMMA EndedKnows ==
    ASSUME Witness, NEW c \in Invites, at[c] \in Final
    PROVE  since'[c] = since[c]
BY DEF Witness

\* A step of nobody, or of a request that asks for no training.
LEMMA InvitesUndisturbed ==
    ASSUME IInv, Witness, UNCHANGED sessions,
           \A d \in Invites : at'[d] = at[d] /\ saw'[d] = saw[d]
    PROVE  InvitePart'
<1> USE DEF IInv
<1>1. \A d \in Invites : Answers(d)'
    BY AnswersStay
<1>2. AnswersAreWitnessed'
    BY <1>1 DEF AnswersAreWitnessed, Answers, Invites
<1>3. SessionsAreOfCalls'
    BY DEF SessionsAreOfCalls
<1>4. InvitationsAreGenuine'
    <2>1. \A s \in sessions : since'[s.by] = since[s.by]
        BY EndedKnows DEF SessionsAreOfCalls, Final
    <2>2. \A c \in Invites : at[c] = "done" => since'[c] = since[c]
        BY EndedKnows DEF Final
    <2> QED
        BY <2>1, <2>2 DEF InvitationsAreGenuine
<1> QED
    BY <1>2, <1>3, <1>4 DEF InvitePart

\* What an administrator's request has loaded stays of use.
WorkPart == UpdatesAreOfRows /\ ChangesAreOfCampaigns

ChangesCampaign(c) ==
    c.op \in {"update_campaign", "archive", "add_scenarios", "remove_scenario"}

\* The request c is right about what it has loaded.
WorksWell(c) ==
    /\ at[c] = "asked" => saw[c].me \in UserRows
    /\ IsTargeted(c) /\ at[c] = "loaded" => saw[c].row \in UserRows
    /\ ChangesCampaign(c) /\ at[c] \in {"loaded", "scenarios", "replaced", "members"} =>
          Exists(c.k)
    /\ at[c] \in {"scenarios", "replaced", "members"} => saw[c].new \subseteq Scenarios

CampaignsStay == \A k \in Names : Exists(k) => Exists(k)'

LEMMA WorkGoesOn ==
    ASSUME WorkPart, NEW c \in Calls, Others(c), CampaignsStay, WorksWell(c)'
    PROVE  WorkPart'
<1>1. \A d \in Calls : ChangesCampaign(d) => d.k \in Names
    BY CampaignCallsAssumption DEF ChangesCampaign
<1>2. UpdatesAreOfRows'
    BY DEF WorkPart, UpdatesAreOfRows, Others, WorksWell, IsTargeted
<1>3. ChangesAreOfCampaigns'
    BY <1>1
    DEF WorkPart, ChangesAreOfCampaigns, Others, WorksWell, ChangesCampaign, CampaignsStay
<1> QED
    BY <1>2, <1>3 DEF WorkPart

LEMMA Wholly ==
    ASSUME TypeOK', PeoplePart', WorkPart', ScopesComeFromThePast', InvitePart'
    PROVE  IInv'
BY DEF IInv, PeoplePart, WorkPart, InvitePart

\* A request reads, or is refused: nothing is written.
LEMMA ReadStep ==
    ASSUME IInv, NEW c \in Calls, ~IsSignIn(c), c \notin Invites, Witness,
           UNCHANGED campaignTables, Requests', Others(c),
           at'[c] \notin {"scopes", "telling"}, WorksWell(c)'
    PROVE  IInv'
<1>1. UNCHANGED <<users, assigned, sessions, socket, home, campaign, live>>
    BY DEF campaignTables
<1>2. UNCHANGED Rows /\ CampaignsStay
    BY <1>1 DEF Rows, CampaignsStay, Exists
<1>3. TypeOK'
    BY <1>1, <1>2 DEF IInv, TypeOK, Requests, Exists
<1>4. PeoplePart'
    BY <1>1, PeopleUndisturbed DEF IInv, PeoplePart, Others
<1>5. WorkPart'
    BY <1>2, WorkGoesOn DEF IInv, WorkPart
<1>6. ScopesComeFromThePast'
    BY <1>1, ScopesUndisturbed DEF Others
<1>7. InvitePart'
    BY <1>1, InvitesUndisturbed DEF Others, Invites
<1> QED
    BY <1>3, <1>4, <1>5, <1>6, <1>7, Wholly

-----------------------------------------------------------------------------
(* The steps of Accounts *)

LEMMA RequestsAre == IInv => Requests
BY DEF IInv, TypeOK, Requests

LEMMA RowsAreTyped ==
    ASSUME TypeOK, NEW s \in Rows
    PROVE  s \in Ids /\ users[s] \in UserRows
BY DEF TypeOK, Rows

LEMMA AuthenticateStep ==
    ASSUME IInv, NEW c \in Calls, Authenticate(c), Aside
    PROVE  IInv'
<1>1. c.op \in AdminOps /\ UNCHANGED campaignTables /\ Witness
    BY DEF Authenticate, Aside, Tables, campaignTables
<1>2. ~IsSignIn(c) /\ c \notin Invites
    BY <1>1 DEF AdminOps, IsSignIn, Invites
<1>3. /\ Requests' /\ Others(c)
      /\ \/ at'[c] = "refused"
         \/ at'[c] = "asked" /\ saw'[c] = [me |-> users[c.actor]] /\ c.actor \in Rows
    BY RequestsAre, Going, Reading DEF Authenticate
<1>4. WorksWell(c)'
    BY <1>3, RowsAreTyped DEF WorksWell, IInv
<1> QED
    BY <1>1, <1>2, <1>3, <1>4, ReadStep

LEMMA CheckAddressStep ==
    ASSUME IInv, NEW c \in Calls, CheckAddress(c), Aside
    PROVE  IInv'
<1>1. IsNewUser(c) /\ UNCHANGED campaignTables /\ Witness
    BY DEF CheckAddress, Aside, Tables, campaignTables
<1>2. ~IsSignIn(c) /\ c \notin Invites
    BY <1>1 DEF IsNewUser, IsSignIn, Invites
<1>3. Requests' /\ Others(c) /\ at'[c] \in {"inserting", "refused"}
    BY RequestsAre, Going, Reading DEF CheckAddress
<1>4. WorksWell(c)'
    BY <1>3 DEF WorksWell
<1> QED
    BY <1>1, <1>2, <1>3, <1>4, ReadStep

LEMMA LoadTargetStep ==
    ASSUME IInv, NEW c \in Calls, LoadTarget(c), Aside
    PROVE  IInv'
<1>1. IsTargeted(c) /\ at[c] = "asked" /\ UNCHANGED campaignTables /\ Witness
    BY DEF LoadTarget, Aside, Tables, campaignTables
<1>2. ~IsSignIn(c) /\ c \notin Invites /\ ~ChangesCampaign(c)
    BY <1>1 DEF IsTargeted, IsSignIn, Invites, ChangesCampaign
<1>3. /\ Requests' /\ Others(c)
      /\ \/ at'[c] = "refused"
         \/ at'[c] = "loaded" /\ saw'[c] = [row |-> Loaded(c)] /\ c.target \in Rows
    BY RequestsAre, Going, Reading DEF LoadTarget
<1>4. c.target \in Rows => Loaded(c) \in UserRows
    BY <1>1, RowsAreTyped DEF IInv, UpdatesAreOfRows, Loaded
<1>5. WorksWell(c)'
    BY <1>2, <1>3, <1>4 DEF WorksWell
<1> QED
    BY <1>1, <1>2, <1>3, <1>5, ReadStep

LEMMA NullifySessionsStep ==
    ASSUME IInv, NEW c \in Calls, NullifySessions(c), Aside
    PROVE  IInv'
<1>1. c.op = "delete_user" /\ UNCHANGED campaignTables /\ Witness
    BY DEF NullifySessions, Aside, Tables, campaignTables
<1>2. ~IsSignIn(c) /\ c \notin Invites
    BY <1>1 DEF IsSignIn, Invites
<1>3. Requests' /\ Others(c) /\ at'[c] \in {"deleting", "failed"}
    BY RequestsAre, Going DEF NullifySessions
<1>4. WorksWell(c)'
    BY <1>3 DEF WorksWell
<1> QED
    BY <1>1, <1>2, <1>3, <1>4, ReadStep

\* A sign-in looks something up, or enters the account that it found.
LEMMA SignInStep ==
    ASSUME IInv, NEW c \in Calls, IsSignIn(c), Witness, Requests', Others(c),
           UNCHANGED <<users, assigned, sessions, socket, campaign, live>>,
           at'[c] \in {"refused", "done", "failed", "profile", "by_address", "linking",
                      "creating"},
           \/ UNCHANGED home
           \/ \E s : /\ KnownAs(s, c.login)
                    /\ home' = [home EXCEPT ![c.login] = @ \cup {s}],
           at'[c] \in {"profile", "linking"} => KnownAs(saw'[c].id, c.login),
           at'[c] = "creating" /\ c.login \in Google => EmailOf[c.login] # NoEmail
    PROVE  IInv'
<1>1. UNCHANGED Rows /\ CampaignsStay /\ c.login \in Logins /\ c \notin Invites
    BY AccountCallsAssumption DEF Rows, CampaignsStay, Exists, IsSignIn, Invites
<1>2. \A s, i : KnownAs(s, i)' <=> KnownAs(s, i)
    BY <1>1 DEF KnownAs, Address
<1>3. home' \in [Logins -> SUBSET Ids]
      /\ \A i \in Logins : \A s \in home'[i] : s \in home[i] \/ KnownAs(s, i)
    BY <1>1 DEF IInv, TypeOK, KnownAs
<1>4. TypeOK'
    BY <1>1, <1>3 DEF IInv, TypeOK, Requests, Exists
<1>5. PeoplePart'
    <2>1. AddressesDecide'
        BY <1>1 DEF IInv, AddressesDecide, Address
    <2>2. HomesAreKnown'
        BY <1>2, <1>3 DEF IInv, HomesAreKnown
    <2>3. \A d \in Calls : IsSignIn(d) /\ at'[d] \in {"profile", "linking"} =>
                                KnownAs(saw'[d].id, d.login)
        BY DEF IInv, SignInsAgree, Others
    <2>4. \A d \in Calls : /\ IsSignIn(d) /\ at'[d] \in {"profile", "linking"}
                            => KnownAs(saw[d].id, d.login)'
        <3> SUFFICES ASSUME NEW d \in Calls, IsSignIn(d),
                            at'[d] \in {"profile", "linking"}, NEW s, s = saw'[d].id
                     PROVE  KnownAs(s, d.login)'
            OBVIOUS
        <3> QED
            BY <1>2, <2>3
    <2>5. \A d \in Calls : IsSignIn(d) /\ at'[d] = "creating" /\ d.login \in Google =>
                                EmailOf[d.login] # NoEmail
        BY DEF IInv, SignInsAgree, Others
    <2> QED
        BY <2>1, <2>2, <2>4, <2>5 DEF PeoplePart, SignInsAgree, IsSignIn
<1>6. WorkPart'
    BY <1>1, WorkGoesOn DEF IInv, WorkPart, WorksWell, IsTargeted, ChangesCampaign, IsSignIn
<1>7. ScopesComeFromThePast'
    BY ScopesUndisturbed DEF Others
<1>8. InvitePart'
    BY <1>1, InvitesUndisturbed DEF Others, Invites
<1> QED
    BY <1>4, <1>5, <1>6, <1>7, <1>8, Wholly

LEMMA LoginsAreOfCalls ==
    ASSUME NEW c \in Calls, IsSignIn(c)
    PROVE  c.login \in Logins
BY AccountCallsAssumption DEF IsSignIn

LEMMA FindLoginStep ==
    ASSUME IInv, NEW c \in Calls, FindLogin(c), Aside
    PROVE  IInv'
<1>1. /\ IsSignIn(c) /\ Witness
      /\ UNCHANGED <<users, assigned, sessions, socket, campaign, live>>
    BY DEF FindLogin, Aside
<1>2. \A s \in ByLogin(c.login) : KnownAs(s, c.login)
    BY <1>1, LoginsAreOfCalls, RowsAreTyped
    DEF IInv, AddressesDecide, ByLogin, KnownAs, Rows
<1>3. CASE ByLogin(c.login) = {}
    <2>1. Go(c, "by_address") /\ UNCHANGED home
        BY <1>3 DEF FindLogin
    <2>2. Requests' /\ Others(c) /\ at'[c] = "by_address"
        BY <2>1, RequestsAre, Going
    <2> QED
        BY <1>1, <2>1, <2>2, SignInStep
<1>4. ASSUME NEW s \in ByLogin(c.login), Land(c, s)
      PROVE  IInv'
    <2>1. Requests' /\ Others(c) /\ at'[c] \in {"refused", "done"}
        BY <1>4, RequestsAre, Going DEF Land
    <2>2. home' = [home EXCEPT ![c.login] = @ \cup {s}]
        BY <1>4 DEF Land
    <2> QED
        BY <1>1, <1>2, <2>1, <2>2, SignInStep
<1>5. ASSUME NEW s \in ByLogin(c.login), Read(c, "profile", [id |-> s]), UNCHANGED home
      PROVE  IInv'
    <2>1. /\ Requests' /\ Others(c) /\ at'[c] = "profile" /\ saw'[c] = [id |-> s]
        BY <1>5, RequestsAre, Reading
    <2>2. KnownAs(saw'[c].id, c.login)
        BY <1>2, <2>1
    <2> QED
        BY <1>1, <1>5, <2>1, <2>2, SignInStep
<1> QED
    BY <1>3, <1>4, <1>5 DEF FindLogin

LEMMA StoreProfileStep ==
    ASSUME IInv, NEW c \in Calls, StoreProfile(c), Aside
    PROVE  IInv'
<1>1. /\ IsSignIn(c) /\ Witness
      /\ UNCHANGED <<users, assigned, sessions, socket, campaign, live>>
    BY DEF StoreProfile, Aside
<1>2. KnownAs(saw[c].id, c.login)
    BY DEF StoreProfile, IInv, SignInsAgree
<1>3. Requests' /\ Others(c) /\ at'[c] \in {"refused", "done", "failed"}
    BY RequestsAre, Going DEF StoreProfile, Land
<1>4. \/ UNCHANGED home
      \/ home' = [home EXCEPT ![c.login] = @ \cup {saw[c].id}]
    BY DEF StoreProfile, Land
<1> QED
    BY <1>1, <1>2, <1>3, <1>4, SignInStep

LEMMA FindAddressStep ==
    ASSUME IInv, NEW c \in Calls, FindAddress(c), Aside
    PROVE  IInv'
<1>1. /\ IsSignIn(c) /\ Witness /\ c.login \in Logins
      /\ UNCHANGED <<users, assigned, sessions, socket, home, campaign, live>>
    BY LoginsAreOfCalls DEF FindAddress, Aside, Tables
<1> DEFINE found == IF MayJoinByAddress(c.login)
                    THEN ByAddress(EmailOf[c.login]) ELSE {}
           chosen == CHOOSE s \in found : TRUE
<1>2. \A s \in found : KnownAs(s, c.login)
    BY <1>1 DEF MayJoinByAddress, ByAddress, KnownAs, Address, Rows
<1>3. CASE found # {}
    <2>1. chosen \in found
        BY <1>3
    <2>2. Read(c, "linking", [id |-> chosen])
        BY <1>3 DEF FindAddress
    <2> HIDE DEF chosen
    <2>3. Requests' /\ Others(c) /\ at'[c] = "linking" /\ saw'[c].id = chosen
        BY <2>2, RequestsAre, Reading
    <2>4. KnownAs(saw'[c].id, c.login)
        BY <1>2, <2>1, <2>3
    <2> QED
        BY <1>1, <2>3, <2>4, SignInStep
<1>4. CASE found = {}
    <2>1. Go(c, IF c.login \in Google /\ EmailOf[c.login] = NoEmail
                THEN "refused" ELSE "creating")
        BY <1>4 DEF FindAddress
    <2>2. /\ Requests' /\ Others(c) /\ at'[c] \in {"refused", "creating"}
          /\ at'[c] = "creating" /\ c.login \in Google => EmailOf[c.login] # NoEmail
        BY <2>1, RequestsAre, Going
    <2> QED
        BY <1>1, <2>2, SignInStep
<1> QED
    BY <1>3, <1>4

\* A step that changes accounts only, in a way they can follow.
LEMMA AccountStep ==
    ASSUME IInv, NEW c \in Calls, c \notin Invites, Witness, Requests', Others(c),
           at'[c] \in {"refused", "done", "failed", "closing"},
           IsSignIn(c) => at'[c] # "closing",
           UNCHANGED <<sessions, socket, campaign, live>>,
           users' \in [Ids -> UserRows \cup {Unused, Gone}],
           AccountsKeep, AddressesDecide',
           home' \in [Logins -> SUBSET Ids],
           \A i \in Logins : \A s \in home'[i] : s \in home[i] \/ KnownAs(s, i)',
           assigned' \subseteq assigned,
           \A pair \in assigned' : pair[1] \in Rows => pair[1] \in Rows'
    PROVE  IInv'
<1>1. CampaignsStay /\ \A k \in Names : Exists(k)' <=> Exists(k)
    BY DEF CampaignsStay, Exists
<1>2. assigned' \subseteq Rows' \X {k \in Names : Exists(k)'}
    <2> SUFFICES ASSUME NEW pair \in assigned'
                 PROVE  pair \in Rows' \X {k \in Names : Exists(k)'}
        OBVIOUS
    <2>1. pair \in Rows \X {k \in Names : Exists(k)}
        BY DEF IInv, TypeOK
    <2> QED
        BY <1>1, <2>1
<1>3. TypeOK'
    BY <1>2 DEF IInv, TypeOK, Requests
<1>4. PeoplePart'
    BY PeopleMoveOn DEF Final
<1>5. WorkPart'
    BY <1>1, WorkGoesOn DEF IInv, WorkPart, WorksWell
<1>6. ScopesComeFromThePast'
    BY ScopesUndisturbed DEF Others
<1>7. InvitePart'
    BY InvitesUndisturbed DEF Others, Invites
<1> QED
    BY <1>3, <1>4, <1>5, <1>6, <1>7, Wholly

\* Nothing happens to accounts: the request fails or is refused.
LEMMA FailStep ==
    ASSUME IInv, NEW c \in Calls, c \notin Invites, Witness, Requests', Others(c),
           at'[c] \in {"refused", "done", "failed", "closing"},
           IsSignIn(c) => at'[c] # "closing",
           UNCHANGED <<users, assigned, sessions, socket, home, campaign, live>>
    PROVE  IInv'
<1>1. UNCHANGED Rows
    BY DEF Rows
<1>2. AccountsKeep /\ AddressesDecide'
    BY <1>1 DEF AccountsKeep, IInv, AddressesDecide, Address
<1> QED
    BY <1>1, <1>2, AccountStep DEF IInv, TypeOK

\* The row an identity is linked to.
LEMMA LinkedRow ==
    ASSUME NEW row \in UserRows, NEW i \in Logins
    PROVE  /\ Linked(row, i) \in UserRows /\ Linked(row, i).email = row.email
           /\ Linked(row, i).google \in {row.google, i}
           /\ Linked(row, i).lark \in {row.lark, i}
BY DEF Linked, UserRows

LEMMA LinkStep ==
    ASSUME IInv, NEW c \in Calls, Link(c), Aside
    PROVE  IInv'
<1> SUFFICES ASSUME NEW s, s = saw[c].id PROVE IInv'
    OBVIOUS
<1> DEFINE row == Linked(users[s], c.login)
<1>1. /\ IsSignIn(c) /\ Witness /\ c.login \in Logins /\ c \notin Invites
      /\ UNCHANGED <<assigned, sessions, socket, campaign, live>>
    BY LoginsAreOfCalls DEF Link, Aside, IsSignIn, Invites
<1>2. KnownAs(s, c.login)
    BY DEF Link, IInv, SignInsAgree
<1>3. CASE Go(c, "failed") /\ UNCHANGED <<users, home>>
    <2>1. Requests' /\ Others(c) /\ at'[c] = "failed"
        BY <1>3, RequestsAre, Going
    <2> QED
        BY <1>1, <1>3, <2>1, FailStep
<1>4. CASE /\ s \in Rows /\ KeysAreFree(row, Rows \ {s})
           /\ users' = [users EXCEPT ![s] = row] /\ Land(c, s)
    <2>1. Requests' /\ Others(c) /\ at'[c] \in {"refused", "done"}
        BY <1>4, RequestsAre, Going DEF Land
    <2>2. /\ s \in Ids /\ users[s] \in UserRows /\ users[s].email = Address(c.login)
          /\ row \in UserRows /\ row.email = users[s].email
          /\ row.google \in {users[s].google, c.login}
          /\ row.lark \in {users[s].lark, c.login}
        BY <1>1, <1>2, <1>4, RowsAreTyped, LinkedRow DEF IInv, KnownAs
    <2> HIDE DEF row
    <2>3. row \notin {Unused, Gone} /\ users[s] \notin {Unused, Gone}
        BY <2>2, RowsAssumption
    <2>4. /\ users' \in [Ids -> UserRows \cup {Unused, Gone}]
          /\ users'[s] = row /\ \A t \in Ids \ {s} : users'[t] = users[t]
        BY <1>4, <2>2 DEF IInv, TypeOK
    <2>5. Rows' = Rows
        BY <2>2, <2>3, <2>4 DEF Rows
    <2>6. AccountsKeep
        BY <2>2, <2>3, <2>4, <2>5 DEF AccountsKeep
    <2>7. \A t \in Rows : t \in Ids
        BY DEF Rows
    <2>8. AddressesDecide'
        BY <1>4, <2>2, <2>4, <2>5, <2>7 DEF IInv, AddressesDecide, Address
    <2>9. home' = [home EXCEPT ![c.login] = @ \cup {s}]
        BY <1>4 DEF Land
    <2>10. KnownAs(s, c.login)'
        BY <2>2, <2>3, <2>4 DEF KnownAs, Address
    <2>11. /\ home' \in [Logins -> SUBSET Ids]
           /\ \A i \in Logins : \A t \in home'[i] : t \in home[i] \/ KnownAs(t, i)'
        BY <1>1, <2>2, <2>9, <2>10 DEF IInv, TypeOK
    <2> QED
        BY <1>1, <2>1, <2>4, <2>5, <2>6, <2>8, <2>11, AccountStep
<1> QED
    BY <1>3, <1>4 DEF Link

\* A row of its own address under an id that was not in use.
LEMMA RowInserted ==
    ASSUME IInv, CanAdd, NEW row \in UserRows, KeysAreFree(row, Rows),
           \A i \in Logins : i \in {row.google, row.lark} => row.email = Address(i),
           NEW id, id = NewId, users' = [users EXCEPT ![id] = row]
    PROVE  /\ id \in Ids /\ users'[id] = row /\ row \notin {Unused, Gone}
           /\ users' \in [Ids -> UserRows \cup {Unused, Gone}]
           /\ Rows \subseteq Rows'
           /\ AccountsKeep /\ AddressesDecide'
<1>1. id \in Ids /\ users[id] = Unused
    BY DEF CanAdd, NewId
<1>2. row \notin {Unused, Gone}
    BY RowsAssumption
<1>3. /\ users' \in [Ids -> UserRows \cup {Unused, Gone}]
      /\ users'[id] = row /\ \A t \in Ids \ {id} : users'[t] = users[t]
    BY <1>1 DEF IInv, TypeOK
<1>4. Rows' = Rows \cup {id} /\ id \notin Rows
    BY <1>1, <1>2, <1>3 DEF Rows
<1>5. \A t \in Rows : t \in Ids \ {id}
    BY <1>4 DEF Rows
<1>6. AccountsKeep
    BY <1>1, <1>2, <1>3, <1>4 DEF AccountsKeep
<1>7. \A t \in Rows : users[t].email # row.email
    BY DEF KeysAreFree
<1>8. AddressesDecide'
    BY <1>3, <1>4, <1>5, <1>7 DEF IInv, AddressesDecide, Address
<1> QED
    BY <1>1, <1>2, <1>3, <1>4, <1>6, <1>8

LEMMA CreateSignedInStep ==
    ASSUME IInv, NEW c \in Calls, CreateSignedIn(c), Aside
    PROVE  IInv'
<1> SUFFICES ASSUME NEW id, id = NewId PROVE IInv'
    OBVIOUS
<1> DEFINE row == NewUser(c.login)
<1>1. /\ IsSignIn(c) /\ Witness /\ c.login \in Logins /\ c \notin Invites
      /\ UNCHANGED <<assigned, sessions, socket, campaign, live>>
    BY LoginsAreOfCalls DEF CreateSignedIn, Aside, IsSignIn, Invites
<1>2. CASE Go(c, "failed") /\ UNCHANGED <<users, home>>
    <2>1. Requests' /\ Others(c) /\ at'[c] = "failed"
        BY <1>2, RequestsAre, Going
    <2> QED
        BY <1>1, <1>2, <2>1, FailStep
<1>3. CASE /\ KeysAreFree(row, Rows) /\ users' = [users EXCEPT ![id] = row]
           /\ home' = [home EXCEPT ![c.login] = @ \cup {id}]
           /\ Go(c, "done") /\ CanAdd
    <2>1. Requests' /\ Others(c) /\ at'[c] = "done"
        BY <1>3, RequestsAre, Going
    <2>2. c.login \in Google => EmailOf[c.login] # NoEmail
        BY <1>1 DEF CreateSignedIn, IInv, SignInsAgree
    <2>3. Address(c.login) \in Emails \cup (Logins \ Google)
        BY <1>1, <2>2, LoginsAssumption DEF Address
    <2>4. row \in UserRows /\ row.email = Address(c.login)
          /\ \A i \in Logins : i \in {row.google, row.lark} => i = c.login
        BY <1>1, <2>3, LoginsAssumption DEF NewUser, User, UserRows, Roles, Types
    <2>5. \A i \in Logins : i \in {row.google, row.lark} => row.email = Address(i)
        BY <2>4
    <2> HIDE DEF row
    <2>6. /\ id \in Ids /\ users'[id] = row /\ row \notin {Unused, Gone}
          /\ users' \in [Ids -> UserRows \cup {Unused, Gone}]
          /\ Rows \subseteq Rows'
          /\ AccountsKeep /\ AddressesDecide'
        BY <1>3, <2>4, <2>5, RowInserted
    <2>7. KnownAs(id, c.login)'
        BY <2>4, <2>6 DEF KnownAs, Address
    <2>8. /\ home' \in [Logins -> SUBSET Ids]
          /\ \A i \in Logins : \A t \in home'[i] : t \in home[i] \/ KnownAs(t, i)'
        BY <1>1, <1>3, <2>6, <2>7 DEF IInv, TypeOK
    <2> QED
        BY <1>1, <2>1, <2>6, <2>8, AccountStep
<1> QED
    BY <1>2, <1>3 DEF CreateSignedIn

LEMMA InsertUserStep ==
    ASSUME IInv, NEW c \in Calls, InsertUser(c), Aside
    PROVE  IInv'
<1> SUFFICES ASSUME NEW id, id = NewId PROVE IInv'
    OBVIOUS
<1> DEFINE type == IF c.op = "create_user" THEN c.type
                   ELSE IF c.role = "user" THEN "agent" ELSE "none"
           row == User(c.email, NoLogin, NoLogin, c.role, type)
<1>1. /\ IsNewUser(c) /\ Witness
      /\ UNCHANGED <<assigned, sessions, socket, home, campaign, live>>
    BY DEF InsertUser, Aside
<1>2. c \notin Invites /\ ~IsSignIn(c)
    BY <1>1 DEF IsNewUser, Invites, IsSignIn
<1>3. CASE Go(c, "failed") /\ UNCHANGED users
    <2>1. Requests' /\ Others(c) /\ at'[c] = "failed"
        BY <1>3, RequestsAre, Going
    <2> QED
        BY <1>1, <1>2, <1>3, <2>1, FailStep
<1>4. CASE /\ KeysAreFree(row, Rows) /\ users' = [users EXCEPT ![id] = row]
           /\ Go(c, "done") /\ CanAdd
    <2>1. Requests' /\ Others(c) /\ at'[c] = "done"
        BY <1>4, RequestsAre, Going
    <2>2. c.email \in Emails /\ c.role \in Roles /\ type \in Types
        BY <1>1, AccountCallsAssumption DEF IsNewUser, Types
    <2>3. row \in UserRows /\ row.google = NoLogin /\ row.lark = NoLogin
        BY <2>2 DEF User, UserRows
    <2>4. \A i \in Logins : i \notin {row.google, row.lark}
        BY <2>3, LoginsAssumption
    <2> HIDE DEF row
    <2>5. /\ users' \in [Ids -> UserRows \cup {Unused, Gone}]
          /\ Rows \subseteq Rows'
          /\ AccountsKeep /\ AddressesDecide'
        BY <1>4, <2>3, <2>4, RowInserted
    <2> QED
        BY <1>1, <1>2, <2>1, <2>5, AccountStep DEF IInv, TypeOK
<1> QED
    BY <1>3, <1>4 DEF InsertUser

LEMMA WantedRow ==
    ASSUME NEW c \in Calls, IsTargeted(c), c.op # "delete_user", NEW row \in UserRows
    PROVE  /\ Wanted(c, row).role \in Roles /\ Wanted(c, row).type \in Types
           /\ Wanted(c, row).active \in BOOLEAN
<1>1. row.role \in Roles /\ row.type \in Types /\ row.active \in BOOLEAN
    BY DEF UserRows
<1>2. CASE c.op = "update_user"
    <2>1. Wanted(c, row) = [row EXCEPT !.role = c.role, !.type = c.type]
        BY <1>2 DEF Wanted
    <2>2. c.role \in Roles /\ c.type \in Types
        BY <1>2, AccountCallsAssumption
    <2> QED
        BY <2>1, <2>2 DEF UserRows
<1>3. CASE c.op = "set_status"
    <2>1. Wanted(c, row) = [row EXCEPT !.active = c.active]
        BY <1>3 DEF Wanted
    <2>2. c.active \in BOOLEAN
        BY <1>3, AccountCallsAssumption
    <2> QED
        BY <2>1, <2>2 DEF UserRows
<1>4. CASE c.op = "auth_update"
    <2>1. Wanted(c, row) = [row EXCEPT !.role = Given(c.role, row.role),
                                       !.active = Given(c.active, row.active)]
        BY <1>4 DEF Wanted
    <2>2. c.role \subseteq Roles /\ c.active \subseteq BOOLEAN
        BY <1>4, AccountCallsAssumption
    <2>3. Given(c.role, row.role) \in Roles /\ Given(c.active, row.active) \in BOOLEAN
        BY <1>1, <2>2 DEF Given
    <2> QED
        BY <2>1, <2>3 DEF UserRows
<1> QED
    BY <1>2, <1>3, <1>4 DEF IsTargeted

LEMMA WriteUserStep ==
    ASSUME IInv, NEW c \in Calls, WriteUser(c), Aside
    PROVE  IInv'
<1> SUFFICES ASSUME NEW row, row = Written(c) PROVE IInv'
    OBVIOUS
<1>1. /\ IsTargeted(c) /\ c.op # "delete_user" /\ Witness /\ at[c] = "loaded"
      /\ UNCHANGED <<assigned, sessions, socket, home, campaign, live>>
    BY DEF WriteUser, Aside
<1>2. c \notin Invites /\ ~IsSignIn(c)
    BY <1>1 DEF IsTargeted, Invites, IsSignIn
<1>3. CASE Go(c, "failed") /\ UNCHANGED users
    <2>1. Requests' /\ Others(c) /\ at'[c] = "failed"
        BY <1>3, RequestsAre, Going
    <2> QED
        BY <1>1, <1>2, <1>3, <2>1, FailStep
<1>4. CASE /\ c.target \in Rows /\ users' = [users EXCEPT ![c.target] = row]
           /\ Go(c, IF c.op = "set_status" /\ ~c.active THEN "closing" ELSE "done")
    <2>1. Requests' /\ Others(c) /\ at'[c] \in {"closing", "done"}
        BY <1>4, RequestsAre, Going
    <2> DEFINE now == users[c.target]
               old == saw[c].row
               new == Wanted(c, old)
    <2>2. c.target \in Ids /\ now \in UserRows /\ old \in UserRows
        BY <1>1, <1>4, RowsAreTyped DEF IInv, UpdatesAreOfRows
    <2>3. new.role \in Roles /\ new.type \in Types /\ new.active \in BOOLEAN
        BY <1>1, <2>2, WantedRow
    <2>4. row = [now EXCEPT
                    !.role = IF new.role # old.role THEN new.role ELSE @,
                    !.type = IF new.type # old.type THEN new.type ELSE @,
                    !.active = IF new.active # old.active THEN new.active ELSE @]
        BY DEF Written
    <2> HIDE DEF new, old, now
    <2>5. /\ row \in UserRows /\ row.email = now.email
          /\ row.google = now.google /\ row.lark = now.lark
        BY <2>2, <2>3, <2>4 DEF UserRows
    <2>6. row \notin {Unused, Gone} /\ now \notin {Unused, Gone}
        BY <2>2, <2>5, RowsAssumption
    <2>7. /\ users' \in [Ids -> UserRows \cup {Unused, Gone}]
          /\ users'[c.target] = row
          /\ \A t \in Ids \ {c.target} : users'[t] = users[t]
        BY <1>4, <2>2, <2>5 DEF IInv, TypeOK
    <2>8. Rows' = Rows
        BY <2>2, <2>6, <2>7 DEF Rows, now
    <2>9. AccountsKeep
        BY <2>2, <2>5, <2>6, <2>7, <2>8 DEF AccountsKeep, now
    <2>10. \A t \in Rows : t \in Ids
        BY DEF Rows
    <2>11. \A t \in Rows : /\ users'[t].email = users[t].email
                           /\ users'[t].google = users[t].google
                           /\ users'[t].lark = users[t].lark
        BY <2>5, <2>7, <2>10 DEF now
    <2>12. AddressesDecide'
        BY <2>8, <2>11 DEF IInv, AddressesDecide, Address
    <2> QED
        BY <1>1, <1>2, <2>1, <2>7, <2>8, <2>9, <2>12, AccountStep DEF IInv, TypeOK
<1> QED
    BY <1>3, <1>4 DEF WriteUser

LEMMA DeleteUserStep ==
    ASSUME IInv, NEW c \in Calls, DeleteUser(c), Aside
    PROVE  IInv'
<1>1. /\ c.op = "delete_user" /\ Witness
      /\ users' = [users EXCEPT ![c.target] = Gone]
      /\ assigned' = {pair \in assigned : pair[1] # c.target}
      /\ UNCHANGED <<sessions, socket, home, campaign, live>>
    BY DEF DeleteUser, Aside
<1>2. c \notin Invites /\ ~IsSignIn(c)
    BY <1>1 DEF Invites, IsSignIn
<1>3. Requests' /\ Others(c) /\ at'[c] = "done"
    BY RequestsAre, Going DEF DeleteUser
<1>4. /\ users' \in [Ids -> UserRows \cup {Unused, Gone}]
      /\ \A t \in Ids : users'[t] = IF t = c.target THEN Gone ELSE users[t]
    BY <1>1 DEF IInv, TypeOK
<1>5. Rows' = Rows \ {c.target}
    BY <1>4 DEF Rows
<1>6. AccountsKeep
    BY <1>4, <1>5, RowsAssumption DEF AccountsKeep
<1>7. \A t \in Rows' : t \in Rows /\ users'[t] = users[t]
    BY <1>4, <1>5 DEF Rows
<1>8. AddressesDecide'
    BY <1>7 DEF IInv, AddressesDecide, Address
<1>9. /\ assigned' \subseteq assigned
      /\ \A pair \in assigned' : pair[1] \in Rows => pair[1] \in Rows'
    BY <1>1, <1>5
<1> QED
    BY <1>1, <1>2, <1>3, <1>4, <1>6, <1>8, <1>9, AccountStep DEF IInv, TypeOK

-----------------------------------------------------------------------------
(* The steps of campaign administration *)

\* A step that leaves the accounts alone.
LEMMA CampaignStep ==
    ASSUME IInv, NEW c \in Calls, ~IsSignIn(c), c \notin Invites, Witness,
           Requests', Others(c), UNCHANGED <<users, home, sessions>>,
           assigned' \subseteq Rows \X {k \in Names : Exists(k)'},
           campaign' \in [Names -> CampaignRows], live' \subseteq Scenarios,
           socket' \in [Sockets -> [step : SocketSteps, scope : SUBSET Names]],
           CampaignsStay, WorksWell(c)', ScopesComeFromThePast'
    PROVE  IInv'
<1>1. UNCHANGED Rows
    BY DEF Rows
<1>2. TypeOK'
    BY <1>1 DEF IInv, TypeOK, Requests
<1>3. PeoplePart'
    BY PeopleUndisturbed DEF IInv, PeoplePart, Others
<1>4. WorkPart'
    BY WorkGoesOn DEF IInv, WorkPart
<1>5. InvitePart'
    BY InvitesUndisturbed DEF Others, Invites
<1> QED
    BY <1>2, <1>3, <1>4, <1>5, Wholly

LEMMA DisconnectUserStep ==
    ASSUME IInv, NEW c \in Calls, DisconnectUser(c), Aside
    PROVE  IInv'
<1>1. /\ c.op = "set_status" /\ Witness
      /\ UNCHANGED <<users, assigned, sessions, home, campaign, live>>
    BY DEF DisconnectUser, Aside
<1>2. c \notin Invites /\ ~IsSignIn(c)
    BY <1>1 DEF Invites, IsSignIn
<1>3. Requests' /\ Others(c) /\ at'[c] \in {"done", "failed"}
    BY RequestsAre, Going DEF DisconnectUser
<1>4. /\ socket' \in [Sockets -> [step : SocketSteps, scope : SUBSET Names]]
      /\ \A w \in Sockets : socket'[w] = socket[w] \/ socket'[w].step = "closed"
    <2>1. CASE UNCHANGED socket
        BY <2>1 DEF IInv, TypeOK
    <2>2. CASE socket' = [w \in Sockets |->
                   IF UserOf[w] = c.target /\ socket[w].step = "connected"
                   THEN [socket[w] EXCEPT !.step = "closed"] ELSE socket[w]]
        BY <2>2 DEF IInv, TypeOK, SocketSteps
    <2> QED
        BY <2>1, <2>2 DEF DisconnectUser
<1>5. ScopesComeFromThePast'
    BY <1>1, <1>3, <1>4, ScopesMoveOn DEF Others
<1>6. CampaignsStay /\ UNCHANGED {k \in Names : Exists(k)}
    BY <1>1 DEF CampaignsStay, Exists
<1>7. WorksWell(c)'
    BY <1>3 DEF WorksWell
<1> QED
    BY <1>1, <1>2, <1>3, <1>4, <1>5, <1>6, <1>7, CampaignStep DEF IInv, TypeOK

LEMMA CheckNameStep ==
    ASSUME IInv, NEW c \in Calls, CheckName(c) \/ CheckAgents(c), Witness
    PROVE  IInv'
<1>1. c.op = "create_campaign" /\ UNCHANGED campaignTables
    BY DEF CheckName, CheckAgents
<1>2. ~IsSignIn(c) /\ c \notin Invites
    BY <1>1 DEF IsSignIn, Invites
<1>3. Requests' /\ Others(c) /\ at'[c] \in {"agents", "inserting", "refused"}
    BY RequestsAre, Going DEF CheckName, CheckAgents
<1>4. WorksWell(c)'
    BY <1>3 DEF WorksWell
<1> QED
    BY <1>1, <1>2, <1>3, <1>4, ReadStep

LEMMA InsertCampaignStep ==
    ASSUME IInv, NEW c \in Calls, InsertCampaign(c), Witness
    PROVE  IInv'
<1>1. /\ c.op = "create_campaign" /\ c.k \in Names /\ c.scenarios \subseteq Scenarios
      /\ UNCHANGED <<users, sessions, socket, home, live>>
    BY CampaignCallsAssumption DEF InsertCampaign
<1>2. ~IsSignIn(c) /\ c \notin Invites
    BY <1>1 DEF IsSignIn, Invites
<1>3. Requests' /\ Others(c) /\ at'[c] \in {"done", "failed"}
    BY RequestsAre, Going DEF InsertCampaign
<1>4. WorksWell(c)'
    BY <1>3 DEF WorksWell
<1>5. ScopesComeFromThePast'
    BY <1>1, <1>3, ScopesUndisturbed DEF Others
<1>6. CASE UNCHANGED <<campaign, assigned>>
    BY <1>1, <1>2, <1>3, <1>4, <1>5, <1>6, CampaignStep
    DEF IInv, TypeOK, CampaignsStay, Exists
<1>7. CASE /\ campaign' = [campaign EXCEPT
                  ![c.k] = [status |-> "draft", scenarios |-> c.scenarios]]
           /\ assigned' = assigned \cup (c.agents \X {c.k})
           /\ c.agents \subseteq Rows
    <2>1. [status |-> "draft", scenarios |-> c.scenarios] \in CampaignRows
        BY <1>1 DEF CampaignRows, Statuses
    <2>2. /\ campaign' \in [Names -> CampaignRows]
          /\ campaign'[c.k].status = "draft"
          /\ \A k \in Names \ {c.k} : campaign'[k] = campaign[k]
        BY <1>1, <1>7, <2>1 DEF IInv, TypeOK
    <2>3. CampaignsStay /\ Exists(c.k)'
        BY <2>2 DEF CampaignsStay, Exists
    <2>4. assigned' \subseteq Rows \X {k \in Names : Exists(k)'}
        <3>1. \A pair \in assigned : pair \in Rows \X {k \in Names : Exists(k)'}
            BY <2>3 DEF IInv, TypeOK, CampaignsStay
        <3>2. \A pair \in c.agents \X {c.k} : pair \in Rows \X {k \in Names : Exists(k)'}
            BY <1>1, <1>7, <2>3
        <3> QED
            BY <1>7, <3>1, <3>2
    <2> QED
        BY <1>1, <1>2, <1>3, <1>4, <1>5, <2>2, <2>3, <2>4, CampaignStep DEF IInv, TypeOK
<1> QED
    BY <1>6, <1>7 DEF InsertCampaign

LEMMA LoadCampaignStep ==
    ASSUME IInv, NEW c \in Calls, LoadCampaign(c), Witness
    PROVE  IInv'
<1>1. ChangesCampaign(c) /\ UNCHANGED campaignTables
    BY DEF LoadCampaign, ChangesCampaign
<1>2. ~IsSignIn(c) /\ c \notin Invites /\ ~IsTargeted(c)
    BY <1>1 DEF IsSignIn, Invites, ChangesCampaign, IsTargeted
<1>3. /\ Requests' /\ Others(c)
      /\ \/ at'[c] = "refused"
         \/ at'[c] = "loaded" /\ Exists(c.k)
    BY RequestsAre, Going, Reading DEF LoadCampaign
<1>4. WorksWell(c)'
    BY <1>1, <1>2, <1>3 DEF WorksWell, campaignTables, Exists
<1> QED
    BY <1>1, <1>2, <1>3, <1>4, ReadStep

LEMMA ReplaceStep ==
    ASSUME IInv, NEW c \in Calls, ReplaceScenarios(c) \/ ReplaceAgents(c), Witness
    PROVE  IInv'
<1>1. /\ c.op = "update_campaign" /\ at[c] \in {"loaded", "scenarios"}
      /\ UNCHANGED campaignTables
    BY DEF ReplaceScenarios, ReplaceAgents
<1>2. ~IsSignIn(c) /\ c \notin Invites /\ ~IsTargeted(c)
    BY <1>1 DEF IsSignIn, Invites, IsTargeted
<1>3. Exists(c.k) /\ c.scenarios \subseteq SUBSET Scenarios
    BY <1>1, CampaignCallsAssumption DEF IInv, ChangesAreOfCampaigns
<1>4. CASE Go(c, "refused")
    <2>1. Requests' /\ Others(c) /\ at'[c] = "refused"
        BY <1>4, RequestsAre, Going
    <2> QED
        BY <1>1, <1>2, <2>1, ReadStep DEF WorksWell
<1>5. ASSUME NEW step \in {"scenarios", "replaced"}, NEW what, Read(c, step, what),
             what.new \subseteq Scenarios
      PROVE  IInv'
    <2>1. Requests' /\ Others(c) /\ at'[c] = step /\ saw'[c] = what
        BY <1>5, RequestsAre, Reading
    <2>2. WorksWell(c)'
        BY <1>1, <1>2, <1>3, <1>5, <2>1 DEF WorksWell, campaignTables, Exists
    <2> QED
        BY <1>1, <1>2, <1>5, <2>1, <2>2, ReadStep
<1>6. CASE ReplaceScenarios(c)
    <2> DEFINE new == UNION c.scenarios
               old == IF c.scenarios = {} THEN {} ELSE campaign[c.k].scenarios
               what == [status |-> saw[c].status, new |-> new, old |-> old]
    <2>1. Read(c, "scenarios", what) \/ Go(c, "refused")
        BY <1>6 DEF ReplaceScenarios
    <2>2. what.new = UNION c.scenarios
        OBVIOUS
    <2>3. what.new \subseteq Scenarios
        BY <1>3, <2>2
    <2> HIDE DEF what
    <2> QED
        BY <1>4, <1>5, <2>1, <2>3
<1>7. CASE ReplaceAgents(c)
    <2> DEFINE in == UNION c.agents
               out == IF c.agents = {} THEN {} ELSE {pair \in assigned : pair[2] = c.k}
               what == [status |-> saw[c].status, new |-> saw[c].new,
                        old |-> saw[c].old, in |-> in, out |-> out]
    <2>1. Read(c, "replaced", what) \/ Go(c, "refused")
        BY <1>7 DEF ReplaceAgents
    <2>2. what.new = saw[c].new
        OBVIOUS
    <2>3. what.new \subseteq Scenarios
        BY <1>7, <2>2 DEF ReplaceAgents, IInv, ChangesAreOfCampaigns
    <2> HIDE DEF what
    <2> QED
        BY <1>4, <1>5, <2>1, <2>3
<1> QED
    BY <1>6, <1>7

LEMMA CommitUpdateStep ==
    ASSUME IInv, NEW c \in Calls, CommitUpdate(c), Witness
    PROVE  IInv'
<1> DEFINE kept == campaign[c.k].scenarios \ saw[c].old
           rows == saw[c].in \X {c.k}
           status == IF c.status \subseteq {saw[c].status} THEN campaign[c.k].status
                     ELSE CHOOSE s \in c.status : TRUE
           new == kept \cup saw[c].new
<1>1. /\ c.op = "update_campaign" /\ at[c] = "replaced"
      /\ c.k \in Names /\ c.status \subseteq Statuses \ {"none"}
      /\ UNCHANGED <<users, sessions, socket, home, live>>
    BY CampaignCallsAssumption DEF CommitUpdate
<1>2. ~IsSignIn(c) /\ c \notin Invites /\ ~IsTargeted(c)
    BY <1>1 DEF IsSignIn, Invites, IsTargeted
<1>3. Exists(c.k) /\ saw[c].new \subseteq Scenarios
    BY <1>1 DEF IInv, ChangesAreOfCampaigns
<1>4. CASE Go(c, "failed") /\ UNCHANGED <<campaign, assigned>>
    <2>1. Requests' /\ Others(c) /\ at'[c] = "failed"
        BY <1>4, RequestsAre, Going
    <2>2. ScopesComeFromThePast'
        BY <1>1, <2>1, ScopesUndisturbed DEF Others
    <2> QED
        BY <1>1, <1>2, <1>4, <2>1, <2>2, CampaignStep
        DEF IInv, TypeOK, CampaignsStay, Exists, WorksWell
<1>5. CASE /\ saw[c].in \subseteq Rows
           /\ campaign' = [campaign EXCEPT ![c.k] = [status |-> status, scenarios |-> new]]
           /\ assigned' = (assigned \ saw[c].out) \cup rows
           /\ IF saw[c].in = {} THEN Go(c, "done")
              ELSE Read(c, "scopes", [left |-> saw[c].in])
    <2>1. /\ Requests' /\ Others(c)
          /\ \/ at'[c] = "done"
             \/ at'[c] = "scopes" /\ saw'[c].left = saw[c].in
        BY <1>5, RequestsAre, Going, Reading
    <2>2. campaign[c.k] \in CampaignRows
        BY <1>1 DEF IInv, TypeOK
    <2>3. status \in Statuses \ {"none"} /\ new \subseteq Scenarios
        BY <1>1, <1>3, <2>2 DEF Exists, CampaignRows
    <2> HIDE DEF status, new
    <2>4. [status |-> status, scenarios |-> new] \in CampaignRows
        BY <2>3 DEF CampaignRows
    <2>5. /\ campaign' \in [Names -> CampaignRows]
          /\ campaign'[c.k].status = status
          /\ \A k \in Names \ {c.k} : campaign'[k] = campaign[k]
        BY <1>1, <1>5, <2>4 DEF IInv, TypeOK
    <2>6. CampaignsStay /\ Exists(c.k)'
        BY <2>3, <2>5 DEF CampaignsStay, Exists
    <2>7. assigned' \subseteq Rows \X {k \in Names : Exists(k)'}
        <3>1. \A pair \in assigned : pair \in Rows \X {k \in Names : Exists(k)'}
            BY <2>6 DEF IInv, TypeOK, CampaignsStay
        <3>2. \A pair \in rows : pair \in Rows \X {k \in Names : Exists(k)'}
            BY <1>1, <1>5, <2>6
        <3> QED
            BY <1>5, <3>1, <3>2
    <2>8. Rows \subseteq Ids
        BY DEF Rows
    <2>9. ScopesComeFromThePast'
        BY <1>1, <1>5, <2>1, <2>8, ScopesMoveOn DEF Others
    <2>10. WorksWell(c)'
        BY <2>1 DEF WorksWell
    <2> QED
        BY <1>1, <1>2, <2>1, <2>5, <2>6, <2>7, <2>9, <2>10, CampaignStep
        DEF IInv, TypeOK
<1> QED
    BY <1>4, <1>5 DEF CommitUpdate

LEMMA ReadScopeStep ==
    ASSUME IInv, NEW c \in Calls, ReadScope(c), Witness
    PROVE  IInv'
<1>1. c.op = "update_campaign" /\ at[c] = "scopes" /\ UNCHANGED campaignTables
    BY DEF ReadScope
<1>2. ~IsSignIn(c) /\ c \notin Invites
    BY <1>1 DEF IsSignIn, Invites
<1>3. PICK s \in saw[c].left :
          Read(c, "telling", [left |-> saw[c].left \ {s}, id |-> s, ks |-> CampaignsOf(s)])
    BY DEF ReadScope, ScopeAfter
<1>4. /\ Requests' /\ Others(c) /\ at'[c] = "telling"
      /\ saw'[c] = [left |-> saw[c].left \ {s}, id |-> s, ks |-> CampaignsOf(s)]
    BY <1>3, RequestsAre, Reading
<1>5. saw[c].left \subseteq Ids /\ s \in Ids
    BY <1>1, <1>3 DEF IInv, ScopesComeFromThePast
<1>6. CampaignsOf(s) \in past'[s]
    BY <1>5, PastGrows DEF IInv, ScopesComeFromThePast
<1>7. /\ saw'[c].left \subseteq Ids
      /\ saw'[c].id \in Ids /\ saw'[c].ks \in past'[saw'[c].id]
    BY <1>4, <1>5, <1>6
<1>8. ScopesComeFromThePast'
    BY <1>1, <1>4, <1>7, ScopesMoveOn DEF Others, campaignTables
<1>9. WorksWell(c)'
    BY <1>4 DEF WorksWell
<1>10. UNCHANGED <<users, assigned, sessions, socket, home, campaign, live>>
    BY <1>1 DEF campaignTables
<1>11. CampaignsStay /\ UNCHANGED {k \in Names : Exists(k)}
    BY <1>10 DEF CampaignsStay, Exists
<1> QED
    BY <1>2, <1>4, <1>8, <1>9, <1>10, <1>11, CampaignStep DEF IInv, TypeOK

LEMMA UpdateClientScopeStep ==
    ASSUME IInv, NEW c \in Calls, UpdateClientScope(c), Witness
    PROVE  IInv'
<1>1. /\ c.op = "update_campaign" /\ at[c] = "telling"
      /\ UNCHANGED <<users, assigned, sessions, home, campaign, live>>
    BY DEF UpdateClientScope
<1>2. ~IsSignIn(c) /\ c \notin Invites
    BY <1>1 DEF IsSignIn, Invites
<1>3. /\ Requests' /\ Others(c)
      /\ \/ at'[c] = "done"
         \/ at'[c] = "scopes" /\ saw'[c] = [left |-> saw[c].left]
    BY RequestsAre, Going, Reading DEF UpdateClientScope
<1>4. saw[c].left \subseteq Ids /\ saw[c].id \in Ids /\ saw[c].ks \in past[saw[c].id]
    BY <1>1 DEF IInv, ScopesComeFromThePast
<1>5. saw[c].ks \in past'[saw[c].id]
    BY <1>4, PastGrows
<1>6. PICK ks : ks = saw[c].ks
    OBVIOUS
<1>7. \A w \in Sockets : socket[w] \in [step : SocketSteps, scope : SUBSET Names]
    BY DEF IInv, TypeOK
<1>8. ks \subseteq Names
    BY <1>4, <1>6 DEF IInv, ScopesComeFromThePast
<1>9. /\ socket' \in [Sockets -> [step : SocketSteps, scope : SUBSET Names]]
      /\ \A w \in Sockets :
            \/ socket'[w] = socket[w]
            \/ UserOf[w] = saw[c].id /\ socket'[w].scope = ks
    <2>1. socket' = [w \in Sockets |->
              IF UserOf[w] = saw[c].id /\ socket[w].step = "connected"
              THEN [socket[w] EXCEPT !.scope = ks] ELSE socket[w]]
        BY <1>6 DEF UpdateClientScope
    <2>2. \A w \in Sockets :
              LET new == [socket[w] EXCEPT !.scope = ks]
              IN  new \in [step : SocketSteps, scope : SUBSET Names] /\ new.scope = ks
        BY <1>7, <1>8
    <2> QED
        BY <1>7, <2>1, <2>2
<1>10. ScopesComeFromThePast'
    BY <1>3, <1>4, <1>5, <1>6, <1>9, ScopesMoveOn DEF Others
<1>11. CampaignsStay /\ UNCHANGED {k \in Names : Exists(k)}
    BY <1>1 DEF CampaignsStay, Exists
<1>12. WorksWell(c)'
    BY <1>3 DEF WorksWell
<1> QED
    BY <1>1, <1>2, <1>3, <1>9, <1>10, <1>11, <1>12, CampaignStep DEF IInv, TypeOK

LEMMA ArchiveStep ==
    ASSUME IInv, NEW c \in Calls, Archive(c), Witness
    PROVE  IInv'
<1>1. /\ c.op = "archive" /\ at[c] = "loaded" /\ c.k \in Names
      /\ UNCHANGED <<users, assigned, sessions, socket, home, live>>
    BY CampaignCallsAssumption DEF Archive
<1>2. ~IsSignIn(c) /\ c \notin Invites
    BY <1>1 DEF IsSignIn, Invites
<1>3. Requests' /\ Others(c) /\ at'[c] = "done"
    BY RequestsAre, Going DEF Archive
<1>4. /\ campaign' \in [Names -> CampaignRows]
      /\ campaign'[c.k].status = "archived"
      /\ \A k \in Names \ {c.k} : campaign'[k] = campaign[k]
    <2>1. campaign[c.k] \in CampaignRows
        BY <1>1 DEF IInv, TypeOK
    <2>2. /\ [campaign[c.k] EXCEPT !.status = "archived"] \in CampaignRows
          /\ [campaign[c.k] EXCEPT !.status = "archived"].status = "archived"
        BY <2>1 DEF CampaignRows, Statuses
    <2> QED
        BY <1>1, <2>2 DEF Archive, IInv, TypeOK
<1>5. CampaignsStay
    BY <1>4 DEF CampaignsStay, Exists
<1>6. assigned' \subseteq Rows \X {k \in Names : Exists(k)'}
    BY <1>1, <1>5 DEF IInv, TypeOK, CampaignsStay
<1>7. WorksWell(c)'
    BY <1>3 DEF WorksWell
<1>8. ScopesComeFromThePast'
    BY <1>1, <1>3, ScopesUndisturbed DEF Others
<1> QED
    BY <1>1, <1>2, <1>3, <1>4, <1>5, <1>6, <1>7, <1>8, CampaignStep DEF IInv, TypeOK

LEMMA ReadMembersStep ==
    ASSUME IInv, NEW c \in Calls, ReadMembers(c), Witness
    PROVE  IInv'
<1>1. /\ c.op \in {"add_scenarios", "remove_scenario"} /\ at[c] = "loaded"
      /\ UNCHANGED campaignTables
    BY DEF ReadMembers
<1>2. ~IsSignIn(c) /\ c \notin Invites /\ ~IsTargeted(c)
    BY <1>1 DEF IsSignIn, Invites, IsTargeted
<1>3. Exists(c.k) /\ live \subseteq Scenarios
    BY <1>1 DEF IInv, TypeOK, ChangesAreOfCampaigns
<1>4. PICK old : old = campaign[c.k].scenarios
    OBVIOUS
<1>5. /\ Requests' /\ Others(c)
      /\ \/ at'[c] = "refused"
         \/ at'[c] = "members" /\ saw'[c].new \subseteq Scenarios
    BY <1>3, <1>4, RequestsAre, Going, Reading DEF ReadMembers
<1>6. WorksWell(c)'
    BY <1>1, <1>2, <1>3, <1>5 DEF WorksWell, campaignTables, Exists
<1> QED
    BY <1>1, <1>2, <1>5, <1>6, ReadStep

LEMMA WriteMembersStep ==
    ASSUME IInv, NEW c \in Calls, WriteMembers(c), Witness
    PROVE  IInv'
<1>1. /\ c.op \in {"add_scenarios", "remove_scenario"} /\ at[c] = "members"
      /\ c.k \in Names
      /\ UNCHANGED <<users, assigned, sessions, socket, home, live>>
    BY CampaignCallsAssumption DEF WriteMembers
<1>2. ~IsSignIn(c) /\ c \notin Invites
    BY <1>1 DEF IsSignIn, Invites
<1>3. Requests' /\ Others(c) /\ at'[c] \in {"done", "failed"}
    BY RequestsAre, Going DEF WriteMembers
<1>4. /\ campaign' \in [Names -> CampaignRows]
      /\ \A k \in Names : campaign'[k].status = campaign[k].status
    <2>1. CASE UNCHANGED campaign
        BY <2>1 DEF IInv, TypeOK
    <2>2. ASSUME NEW new \in SUBSET Scenarios,
                 campaign' = [campaign EXCEPT ![c.k] = [@ EXCEPT !.scenarios = new]]
          PROVE  /\ campaign' \in [Names -> CampaignRows]
                 /\ \A k \in Names : campaign'[k].status = campaign[k].status
        <3>1. campaign[c.k] \in CampaignRows
            BY <1>1 DEF IInv, TypeOK
        <3>2. LET row == [campaign[c.k] EXCEPT !.scenarios = new]
              IN  row \in CampaignRows /\ row.status = campaign[c.k].status
            BY <3>1 DEF CampaignRows
        <3> QED
            BY <1>1, <2>2, <3>2 DEF IInv, TypeOK
    <2> DEFINE old == campaign[c.k].scenarios
               new == IF c.op = "add_scenarios" THEN old \cup saw[c].new
                      ELSE old \ c.scenarios
    <2>3. new \subseteq Scenarios
        BY <1>1 DEF IInv, TypeOK, CampaignRows, ChangesAreOfCampaigns
    <2>4. \/ UNCHANGED campaign
          \/ campaign' = [campaign EXCEPT ![c.k] = [@ EXCEPT !.scenarios = new]]
        BY <1>1 DEF WriteMembers, IInv, TypeOK
    <2> HIDE DEF new
    <2> QED
        BY <2>1, <2>2, <2>3, <2>4
<1>5. CampaignsStay /\ \A k \in Names : Exists(k)' <=> Exists(k)
    BY <1>4 DEF CampaignsStay, Exists
<1>6. assigned' \subseteq Rows \X {k \in Names : Exists(k)'}
    BY <1>1, <1>5 DEF IInv, TypeOK
<1>7. WorksWell(c)'
    BY <1>3 DEF WorksWell
<1>8. ScopesComeFromThePast'
    BY <1>1, <1>3, ScopesUndisturbed DEF Others
<1> QED
    BY <1>1, <1>2, <1>3, <1>4, <1>5, <1>6, <1>7, <1>8, CampaignStep DEF IInv, TypeOK

LEMMA SetScenarioStep ==
    ASSUME IInv, NEW c \in Calls, SetScenario(c), Witness
    PROVE  IInv'
<1>1. /\ c.op = "set_scenario" /\ c.scenario \in Scenarios
      /\ UNCHANGED <<users, assigned, sessions, socket, home, campaign>>
    BY CampaignCallsAssumption DEF SetScenario
<1>2. ~IsSignIn(c) /\ c \notin Invites
    BY <1>1 DEF IsSignIn, Invites
<1>3. Requests' /\ Others(c) /\ at'[c] = "done"
    BY RequestsAre, Going DEF SetScenario
<1>4. live' \subseteq Scenarios
    BY <1>1 DEF SetScenario, IInv, TypeOK
<1>5. CampaignsStay /\ \A k \in Names : Exists(k)' <=> Exists(k)
    BY <1>1 DEF CampaignsStay, Exists
<1>6. assigned' \subseteq Rows \X {k \in Names : Exists(k)'}
    BY <1>1, <1>5 DEF IInv, TypeOK
<1>7. WorksWell(c)'
    BY <1>3 DEF WorksWell
<1>8. ScopesComeFromThePast'
    BY <1>1, <1>3, ScopesUndisturbed DEF Others
<1> QED
    BY <1>1, <1>2, <1>3, <1>4, <1>5, <1>6, <1>7, <1>8, CampaignStep DEF IInv, TypeOK

-----------------------------------------------------------------------------
(* The steps of agents *)

InviteSteps == {"campaign", "campaigns", "assignment", "membership", "scenario",
                "persona", "collecting", "done", "refused"}

\* A request of an agent gets an answer that is right, and perhaps a session.
LEMMA InviteStep ==
    ASSUME IInv, NEW c \in Invites, at[c] \notin Final, Witness, Requests', Others(c),
           UNCHANGED <<users, assigned, socket, home, campaign, live>>,
           at'[c] \in InviteSteps, Answers(c)', ListIsGenuine(c)',
           \/ UNCHANGED sessions
           \/ /\ at'[c] = "done"
              /\ \A s \in sessions' \ sessions : s.by = c /\ SessionIsGenuine(s)'
    PROVE  IInv'
<1>1. c \in Calls /\ ~IsSignIn(c) /\ ~IsTargeted(c) /\ ~ChangesCampaign(c)
    BY DEF Invites, IsSignIn, IsTargeted, ChangesCampaign
<1>2. UNCHANGED Rows /\ CampaignsStay /\ UNCHANGED {k \in Names : Exists(k)}
    BY DEF Rows, CampaignsStay, Exists
<1>3. TypeOK'
    BY <1>2 DEF IInv, TypeOK, Requests
<1>4. PeoplePart'
    BY <1>1, PeopleUndisturbed DEF IInv, PeoplePart, Others
<1>5. WorksWell(c)'
    BY <1>1 DEF WorksWell, InviteSteps, IsTargeted, ChangesCampaign
<1>6. WorkPart'
    BY <1>1, <1>2, <1>5, WorkGoesOn DEF IInv, WorkPart
<1>7. ScopesComeFromThePast'
    BY <1>1, ScopesUndisturbed DEF Others, InviteSteps
<1>8. \A d \in Invites \ {c} : d \in Calls /\ at'[d] = at[d] /\ saw'[d] = saw[d]
    BY DEF Others, Invites
<1>9. AnswersAreWitnessed'
    <2>1. \A d \in Invites : Answers(d)'
        BY <1>8, AnswersStay
    <2> QED
        BY <2>1 DEF AnswersAreWitnessed, Answers, Invites
<1>10. \A s \in sessions : s.by \in Invites \ {c} /\ at[s.by] = "done"
    BY DEF IInv, SessionsAreOfCalls, Final
<1>11. SessionsAreOfCalls'
    BY <1>8, <1>10 DEF SessionsAreOfCalls
<1>12. InvitationsAreGenuine'
    <2>1. \A s \in sessions : SessionIsGenuine(s)'
        <3>1. \A s \in sessions : since'[s.by] = since[s.by] /\ SessionIsGenuine(s)
            BY <1>10, EndedKnows DEF Final, IInv, InvitationsAreGenuine, SessionIsGenuine
        <3> QED
            BY <3>1 DEF SessionIsGenuine
    <2>2. \A d \in Invites : ListIsGenuine(d)'
        <3>1. \A d \in Invites \ {c} : /\ ListIsGenuine(d)
                                       /\ at[d] = "done" => since'[d] = since[d]
            BY EndedKnows DEF Final, IInv, InvitationsAreGenuine, ListIsGenuine
        <3> QED
            BY <1>8, <3>1 DEF ListIsGenuine
    <2> QED
        BY <2>1, <2>2 DEF InvitationsAreGenuine, SessionIsGenuine, ListIsGenuine
<1> QED
    BY <1>3, <1>4, <1>6, <1>7, <1>9, <1>11, <1>12, Wholly DEF InvitePart

\* A refusal establishes nothing.
LEMMA RefusedStep ==
    ASSUME IInv, NEW c \in Invites, at[c] \notin Final, Witness,
           Go(c, "refused"), UNCHANGED campaignTables
    PROVE  IInv'
<1>1. /\ Requests' /\ Others(c) /\ at'[c] = "refused"
      /\ UNCHANGED <<users, assigned, sessions, socket, home, campaign, live>>
    BY RequestsAre, Going DEF Invites, campaignTables
<1>2. Answers(c)' /\ ListIsGenuine(c)'
    BY <1>1 DEF Answers, ListIsGenuine
<1> QED
    BY <1>1, <1>2, InviteStep DEF InviteSteps

\* A step of create_session: it knows what it knew, and what holds now.
LEMMA SessionAnswer ==
    ASSUME IInv, Witness, NEW c \in Calls, c.op = "create_session", at[c] \notin Final,
           at'[c] \in {"assignment", "membership", "scenario", "persona", "done"},
           UNCHANGED <<assigned, campaign, live>>
    PROVE  /\ c \in Invites /\ c.k \in Names /\ c.x \in Scenarios /\ Answers(c)
           /\ since[c][<<c.k, c.x>>] \subseteq since'[c][<<c.k, c.x>>]
           /\ <<c.actor, c.k>> \in assigned => "assigned" \in since'[c][<<c.k, c.x>>]
           /\ campaign[c.k].status = "active" => "active" \in since'[c][<<c.k, c.x>>]
           /\ c.x \in campaign[c.k].scenarios => "member" \in since'[c][<<c.k, c.x>>]
           /\ c.x \in live => "live" \in since'[c][<<c.k, c.x>>]
<1>1. c \in Invites /\ c.k \in Names /\ c.x \in Scenarios
    BY CampaignCallsAssumption DEF Invites
<1>2. Answers(c)
    BY DEF IInv, AnswersAreWitnessed, Answers
<1>3. at'[c] \notin {"waiting", "absent", "refused", "failed"}
    OBVIOUS
<1> QED
    BY <1>1, <1>2, <1>3, Witnesses

LEMMA InviteBegins ==
    ASSUME IInv, NEW c \in Calls, Invite(c), Witness
    PROVE  IInv'
<1>1. c \in Invites /\ at[c] \notin Final /\ UNCHANGED campaignTables
    BY DEF Invite, Final
<1>2. CASE Go(c, "refused")
    BY <1>1, <1>2, RefusedStep
<1>3. CASE ~Go(c, "refused")
    <2>1. Requests' /\ Others(c) /\ at'[c] \in {"campaign", "campaigns"}
        BY <1>3, RequestsAre, Going, Reading DEF Invite
    <2>2. Answers(c)' /\ ListIsGenuine(c)'
        BY <2>1 DEF Answers, ListIsGenuine
    <2>3. UNCHANGED <<users, assigned, sessions, socket, home, campaign, live>>
        BY <1>1 DEF campaignTables
    <2> QED
        BY <1>1, <2>1, <2>2, <2>3, InviteStep DEF InviteSteps
<1> QED
    BY <1>2, <1>3

LEMMA LoadContextStep ==
    ASSUME IInv, NEW c \in Calls, LoadContext(c), Witness
    PROVE  IInv'
<1>1. /\ c.op = "create_session" /\ c \in Invites /\ at[c] \notin Final
      /\ UNCHANGED campaignTables
    BY DEF LoadContext, Final, Invites
<1>2. CASE Go(c, "refused")
    BY <1>1, <1>2, RefusedStep
<1>3. CASE ~Go(c, "refused")
    <2>1. PICK status, admin : status = campaign[c.k].status /\ admin = saw[c].admin
        OBVIOUS
    <2>2. Read(c, "assignment", [admin |-> admin, status |-> status])
        BY <1>3, <2>1 DEF LoadContext
    <2>3. /\ Requests' /\ Others(c) /\ at'[c] = "assignment"
          /\ saw'[c].status = campaign[c.k].status
        BY <2>1, <2>2, RequestsAre, Reading
    <2>4. UNCHANGED <<users, assigned, sessions, socket, home, campaign, live>>
        BY <1>1 DEF campaignTables
    <2>5. campaign[c.k].status = "active" => "active" \in since'[c][<<c.k, c.x>>]
        BY <1>1, <2>3, <2>4, SessionAnswer
    <2>6. Answers(c)' /\ ListIsGenuine(c)'
        BY <1>1, <2>3, <2>5 DEF Answers, ListIsGenuine
    <2> QED
        BY <1>1, <2>3, <2>4, <2>6, InviteStep DEF InviteSteps
<1> QED
    BY <1>2, <1>3

LEMMA RequireAssignmentStep ==
    ASSUME IInv, NEW c \in Calls, RequireAssignment(c), Witness
    PROVE  IInv'
<1>1. /\ c.op = "create_session" /\ c \in Invites /\ at[c] = "assignment"
      /\ at[c] \notin Final /\ UNCHANGED campaignTables
    BY DEF RequireAssignment, Final, Invites
<1>2. CASE Go(c, "refused")
    BY <1>1, <1>2, RefusedStep
<1>3. CASE ~Go(c, "refused")
    <2>1. MayTrain(c, saw[c].admin, saw[c].status) /\ Go(c, "membership")
        BY <1>3 DEF RequireAssignment
    <2>2. Requests' /\ Others(c) /\ at'[c] = "membership" /\ saw'[c] = saw[c]
        BY <2>1, RequestsAre, Going DEF Final
    <2>3. UNCHANGED <<users, assigned, sessions, socket, home, campaign, live>>
        BY <1>1 DEF campaignTables
    <2>4. /\ Answers(c)
          /\ since[c][<<c.k, c.x>>] \subseteq since'[c][<<c.k, c.x>>]
          /\ <<c.actor, c.k>> \in assigned => "assigned" \in since'[c][<<c.k, c.x>>]
        BY <1>1, <2>2, <2>3, SessionAnswer
    <2>5. saw[c].status = "active" => "active" \in since'[c][<<c.k, c.x>>]
        BY <1>1, <2>4 DEF Answers
    <2>6. saw[c].admin \/ {"assigned", "active"} \subseteq since'[c][<<c.k, c.x>>]
        BY <2>1, <2>4, <2>5 DEF MayTrain
    <2>7. Answers(c)' /\ ListIsGenuine(c)'
        BY <1>1, <2>2, <2>6 DEF Answers, ListIsGenuine
    <2> QED
        BY <1>1, <2>2, <2>3, <2>7, InviteStep DEF InviteSteps
<1> QED
    BY <1>2, <1>3

LEMMA RequireMembershipStep ==
    ASSUME IInv, NEW c \in Calls, RequireMembership(c), Witness
    PROVE  IInv'
<1>1. /\ c.op = "create_session" /\ c \in Invites /\ at[c] = "membership"
      /\ at[c] \notin Final /\ UNCHANGED campaignTables
    BY DEF RequireMembership, Final, Invites
<1>2. CASE Go(c, "refused")
    BY <1>1, <1>2, RefusedStep
<1>3. CASE ~Go(c, "refused")
    <2>1. c.x \in campaign[c.k].scenarios /\ Go(c, "scenario")
        BY <1>3 DEF RequireMembership
    <2>2. Requests' /\ Others(c) /\ at'[c] = "scenario" /\ saw'[c] = saw[c]
        BY <2>1, RequestsAre, Going DEF Final
    <2>3. UNCHANGED <<users, assigned, sessions, socket, home, campaign, live>>
        BY <1>1 DEF campaignTables
    <2>4. /\ Answers(c)
          /\ since[c][<<c.k, c.x>>] \subseteq since'[c][<<c.k, c.x>>]
          /\ "member" \in since'[c][<<c.k, c.x>>]
        BY <1>1, <2>1, <2>2, <2>3, SessionAnswer
    <2>5. Answers(c)' /\ ListIsGenuine(c)'
        BY <1>1, <2>2, <2>4 DEF Answers, ListIsGenuine
    <2> QED
        BY <1>1, <2>2, <2>3, <2>5, InviteStep DEF InviteSteps
<1> QED
    BY <1>2, <1>3

LEMMA FindScenarioStep ==
    ASSUME IInv, NEW c \in Calls, FindScenario(c), Witness
    PROVE  IInv'
<1>1. /\ c.op = "create_session" /\ c \in Invites /\ at[c] = "scenario"
      /\ at[c] \notin Final /\ UNCHANGED campaignTables
    BY DEF FindScenario, Final, Invites
<1>2. CASE Go(c, "refused")
    BY <1>1, <1>2, RefusedStep
<1>3. CASE ~Go(c, "refused")
    <2>1. c.x \in live /\ Go(c, "persona")
        BY <1>3 DEF FindScenario
    <2>2. Requests' /\ Others(c) /\ at'[c] = "persona" /\ saw'[c] = saw[c]
        BY <2>1, RequestsAre, Going DEF Final
    <2>3. UNCHANGED <<users, assigned, sessions, socket, home, campaign, live>>
        BY <1>1 DEF campaignTables
    <2>4. /\ Answers(c)
          /\ since[c][<<c.k, c.x>>] \subseteq since'[c][<<c.k, c.x>>]
          /\ "live" \in since'[c][<<c.k, c.x>>]
        BY <1>1, <2>1, <2>2, <2>3, SessionAnswer
    <2>5. Answers(c)' /\ ListIsGenuine(c)'
        BY <1>1, <2>2, <2>4 DEF Answers, ListIsGenuine
    <2> QED
        BY <1>1, <2>2, <2>3, <2>5, InviteStep DEF InviteSteps
<1> QED
    BY <1>2, <1>3

LEMMA InsertSessionStep ==
    ASSUME IInv, NEW c \in Calls, InsertSession(c), Witness
    PROVE  IInv'
<1>1. /\ c.op = "create_session" /\ c \in Invites /\ at[c] = "persona"
      /\ at[c] \notin Final
      /\ UNCHANGED <<users, assigned, socket, home, campaign, live>>
    BY DEF InsertSession, Final, Invites
<1>2. Requests' /\ Others(c) /\ at'[c] = "done"
    BY RequestsAre, Going DEF InsertSession
<1>3. Answers(c) /\ since[c][<<c.k, c.x>>] \subseteq since'[c][<<c.k, c.x>>]
    BY <1>1, <1>2, SessionAnswer
<1>4. PICK s : s = [by |-> c, agent |-> c.actor, admin |-> saw[c].admin,
                    k |-> c.k, x |-> c.x]
    OBVIOUS
<1>5. s.admin \/ {"assigned", "active"} \subseteq since'[c][<<c.k, c.x>>]
    BY <1>1, <1>3, <1>4 DEF Answers
<1>6. {"member", "live"} \subseteq since'[c][<<c.k, c.x>>]
    BY <1>1, <1>3 DEF Answers
<1>7. s.by = c /\ s.k = c.k /\ s.x = c.x
    BY <1>4
<1>8. SessionIsGenuine(s)'
    BY <1>5, <1>6, <1>7 DEF SessionIsGenuine
<1>9. sessions' = sessions \cup {s}
    BY <1>4 DEF InsertSession
<1>10. Answers(c)' /\ ListIsGenuine(c)'
    BY <1>1, <1>2 DEF Answers, ListIsGenuine
<1>11. \A t \in sessions' \ sessions : t.by = c /\ SessionIsGenuine(t)'
    <2>1. \A t \in sessions' \ sessions : t = s
        BY <1>9
    <2> QED
        BY <1>7, <1>8, <2>1 DEF SessionIsGenuine
<1> QED
    BY <1>1, <1>2, <1>10, <1>11, InviteStep DEF InviteSteps

LEMMA ListCampaignsStep ==
    ASSUME IInv, NEW c \in Calls, ListCampaigns(c), Witness
    PROVE  IInv'
<1>1. /\ c.op = "list_scenarios" /\ c \in Invites /\ at[c] = "campaigns"
      /\ at[c] \notin Final /\ UNCHANGED campaignTables
    BY DEF ListCampaigns, Final, Invites
<1>2. UNCHANGED <<users, assigned, sessions, socket, home, campaign, live>>
    BY <1>1 DEF campaignTables
<1>3. PICK ks : ks = {k \in CampaignsOf(c.actor) : Active(k)}
    OBVIOUS
<1>4. CASE Read(c, "done", [listed |-> {}])
    <2>1. Requests' /\ Others(c) /\ at'[c] = "done" /\ saw'[c].listed = {}
        BY <1>4, RequestsAre, Reading
    <2>2. Answers(c)' /\ ListIsGenuine(c)'
        BY <1>1, <2>1 DEF Answers, ListIsGenuine
    <2> QED
        BY <1>1, <1>2, <2>1, <2>2, InviteStep DEF InviteSteps
<1>5. CASE Read(c, "collecting", [ks |-> ks])
    <2>1. Requests' /\ Others(c) /\ at'[c] = "collecting" /\ saw'[c].ks = ks
        BY <1>5, RequestsAre, Reading
    <2>2. at'[c] \notin {"waiting", "absent", "refused", "failed"}
        BY <2>1
    <2>3. \A k \in ks, x \in Scenarios :
              k \in Names /\ {"assigned", "active"} \subseteq since'[c][<<k, x>>]
        BY <1>1, <1>2, <1>3, <2>2, Witnesses DEF CampaignsOf, Active
    <2>4. Answers(c)' /\ ListIsGenuine(c)'
        BY <1>1, <2>1, <2>3 DEF Answers, ListIsGenuine
    <2> QED
        BY <1>1, <1>2, <2>1, <2>4, InviteStep DEF InviteSteps
<1> QED
    BY <1>3, <1>4, <1>5 DEF ListCampaigns

LEMMA ListScenariosStep ==
    ASSUME IInv, NEW c \in Calls, ListScenarios(c), Witness
    PROVE  IInv'
<1>1. /\ c.op = "list_scenarios" /\ c \in Invites /\ at[c] = "collecting"
      /\ at[c] \notin Final /\ UNCHANGED campaignTables
    BY DEF ListScenarios, Final, Invites
<1>2. UNCHANGED <<users, assigned, sessions, socket, home, campaign, live>>
    BY <1>1 DEF campaignTables
<1>3. PICK listed : listed = live \cap UNION {campaign[k].scenarios : k \in saw[c].ks}
    OBVIOUS
<1>4. Requests' /\ Others(c) /\ at'[c] = "done" /\ saw'[c].listed = listed
    BY <1>3, RequestsAre, Reading DEF ListScenarios
<1>5. \A k \in saw[c].ks, x \in Scenarios :
          k \in Names /\ {"assigned", "active"} \subseteq since[c][<<k, x>>]
    BY <1>1 DEF IInv, AnswersAreWitnessed
<1>6. ASSUME NEW x \in listed
      PROVE  \E k \in Names :
                 {"assigned", "active", "member", "live"} \subseteq since'[c][<<k, x>>]
    <2>1. PICK k \in saw[c].ks : x \in campaign[k].scenarios
        BY <1>3, <1>6
    <2>2. x \in live /\ x \in Scenarios /\ k \in Names
        BY <1>3, <1>5, <1>6 DEF IInv, TypeOK
    <2>3. at'[c] \notin {"waiting", "absent", "refused", "failed"}
        BY <1>4
    <2>4. /\ since[c][<<k, x>>] \subseteq since'[c][<<k, x>>]
          /\ "member" \in since'[c][<<k, x>>] /\ "live" \in since'[c][<<k, x>>]
        BY <1>1, <1>2, <2>1, <2>2, <2>3, Witnesses
    <2> QED
        BY <1>5, <2>2, <2>4
<1>7. Answers(c)' /\ ListIsGenuine(c)'
    BY <1>1, <1>4, <1>6 DEF Answers, ListIsGenuine
<1> QED
    BY <1>1, <1>2, <1>4, <1>7, InviteStep DEF InviteSteps

-----------------------------------------------------------------------------
(* The steps of event clients *)

\* A client moves; what it takes along comes from the past.
LEMMA ClientStep ==
    ASSUME IInv, NEW w \in Sockets, NEW step \in SocketSteps, NEW scope \in SUBSET Names,
           Step(w, step, scope), UNCHANGED Rest, Witness,
           step \in {"scoped", "connected"} => scope \in past'[UserOf[w]]
    PROVE  IInv'
<1>1. UNCHANGED <<users, assigned, sessions, home, at, saw, campaign, live>>
    BY DEF Rest
<1>2. UNCHANGED Rows /\ UNCHANGED {k \in Names : Exists(k)}
    BY <1>1 DEF Rows, Exists
<1>3. /\ socket' \in [Sockets -> [step : SocketSteps, scope : SUBSET Names]]
      /\ socket'[w].step = step /\ socket'[w].scope = scope
      /\ \A v \in Sockets \ {w} : socket'[v] = socket[v]
    BY DEF Step, IInv, TypeOK
<1>4. TypeOK'
    BY <1>1, <1>2, <1>3 DEF IInv, TypeOK
<1>5. PeoplePart'
    BY <1>1, PeopleUndisturbed DEF IInv, PeoplePart
<1>6. WorkPart'
    BY <1>1 DEF IInv, WorkPart, UpdatesAreOfRows, ChangesAreOfCampaigns, IsTargeted, Exists
<1>7. ScopesComeFromThePast'
    BY <1>1, <1>3, ScopesMoveOn
<1>8. InvitePart'
    BY <1>1, InvitesUndisturbed
<1> QED
    BY <1>4, <1>5, <1>6, <1>7, <1>8, Wholly

LEMMA SocketsMove ==
    ASSUME IInv, NEW w \in Sockets, Witness,
           CheckClient(w) \/ ReadOwnCampaigns(w) \/ Register(w) \/ Leave(w)
    PROVE  IInv'
<1>1. UserOf[w] \in Ids
    BY OpenedAssumption
<1>2. socket[w].scope \in SUBSET Names
    BY DEF IInv, TypeOK
<1>3. CASE CheckClient(w)
    <2>1. PICK step \in {"checked", "closed"} : Step(w, step, {})
        BY <1>3 DEF CheckClient
    <2> QED
        BY <1>3, <2>1, ClientStep DEF CheckClient, SocketSteps
<1>4. CASE ReadOwnCampaigns(w)
    <2>1. PICK scope : scope = CampaignsOf(UserOf[w])
        OBVIOUS
    <2>2. scope \in SUBSET Names /\ scope \in past'[UserOf[w]]
        BY <1>1, <2>1, PastGrows DEF CampaignsOf, IInv, ScopesComeFromThePast
    <2>3. Step(w, "scoped", scope) /\ UNCHANGED Rest
        BY <1>4, <2>1 DEF ReadOwnCampaigns
    <2> QED
        BY <2>2, <2>3, ClientStep DEF SocketSteps
<1>5. CASE Register(w)
    <2>1. PICK scope : scope = socket[w].scope
        OBVIOUS
    <2>2. scope \in past'[UserOf[w]]
        BY <1>1, <1>5, <2>1, PastGrows DEF Register, IInv, ScopesComeFromThePast
    <2>3. Step(w, "connected", scope) /\ UNCHANGED Rest
        BY <1>5, <2>1 DEF Register
    <2> QED
        BY <1>2, <2>1, <2>2, <2>3, ClientStep DEF SocketSteps
<1>6. CASE Leave(w)
    BY <1>6, ClientStep DEF Leave, SocketSteps
<1> QED
    BY <1>3, <1>4, <1>5, <1>6

-----------------------------------------------------------------------------
(* The invariant *)

LEMMA InitialInvariant == Init => IInv
<1> SUFFICES ASSUME Init PROVE IInv
    OBVIOUS
<1>1. /\ users = Seeded /\ assigned = Enrolled /\ sessions = {}
      /\ campaign = [k \in Names |-> Opened[k]] /\ live = Scenarios
      /\ past = [s \in Ids |-> {CampaignsOf(s)}]
      /\ home = [i \in Logins |-> {}] /\ saw = [c \in Calls |-> Nothing]
    BY DEF Init, AccountsInit
<1>2. /\ DOMAIN at = Calls /\ \A c \in Calls : at[c] \in {"waiting", "absent"}
      /\ socket \in [Sockets -> [step : SocketSteps, scope : SUBSET Names]]
      /\ \A w \in Sockets : socket[w].step \in {"new", "closed"}
    BY DEF Init, AccountsInit, SocketSteps
<1>3. Rows = {s \in Ids : Seeded[s] # Unused}
    BY <1>1, SeededAssumption, RowsAssumption DEF Rows
<1>4. TypeOK
    <2>1. users \in [Ids -> UserRows \cup {Unused, Gone}]
        BY <1>1, SeededAssumption
    <2>2. assigned \subseteq Rows \X {k \in Names : Exists(k)}
        BY <1>1, <1>3, OpenedAssumption DEF Exists
    <2>3. campaign \in [Names -> CampaignRows] /\ live \subseteq Scenarios
        BY <1>1, OpenedAssumption
    <2>4. home \in [Logins -> SUBSET Ids] /\ DOMAIN saw = Calls
        BY <1>1
    <2> QED
        BY <1>2, <2>1, <2>2, <2>3, <2>4 DEF TypeOK
<1>5. AddressesDecide
    <2>1. \A s \in Rows : users[s].google = NoLogin /\ users[s].lark = NoLogin
        BY <1>1, <1>3, SeededAssumption
    <2>2. \A s, t \in Rows : users[s].email = users[t].email => s = t
        BY <1>1, <1>3, SeededAssumption
    <2> QED
        BY <2>1, <2>2, LoginsAssumption DEF AddressesDecide
<1>6. HomesAreKnown /\ SignInsAgree /\ UpdatesAreOfRows /\ ChangesAreOfCampaigns
    BY <1>1, <1>2
    DEF HomesAreKnown, SignInsAgree, UpdatesAreOfRows, ChangesAreOfCampaigns
<1>7. ScopesComeFromThePast
    BY <1>1, <1>2 DEF ScopesComeFromThePast, CampaignsOf
<1>8. AnswersAreWitnessed
    BY <1>2 DEF AnswersAreWitnessed
<1>9. SessionsAreOfCalls /\ InvitationsAreGenuine
    BY <1>1, <1>2 DEF SessionsAreOfCalls, InvitationsAreGenuine, Invites
<1> QED
    BY <1>4, <1>5, <1>6, <1>7, <1>8, <1>9 DEF IInv

LEMMA Stuttering ==
    ASSUME IInv, UNCHANGED vars
    PROVE  IInv'
<1>1. /\ UNCHANGED <<users, assigned, sessions, socket, at, saw, home>>
      /\ UNCHANGED <<campaign, live, past, since>>
    BY DEF vars, accountVars
<1>2. UNCHANGED Rows /\ UNCHANGED {k \in Names : Exists(k)}
    BY <1>1 DEF Rows, Exists
<1>3. TypeOK'
    BY <1>1, <1>2 DEF IInv, TypeOK
<1>4. PeoplePart'
    BY <1>1, PeopleUndisturbed DEF IInv, PeoplePart
<1>5. WorkPart'
    BY <1>1 DEF IInv, WorkPart, UpdatesAreOfRows, ChangesAreOfCampaigns, IsTargeted, Exists
<1>6. ScopesComeFromThePast'
    BY <1>1 DEF IInv, ScopesComeFromThePast, CampaignsOf
<1>7. AnswersAreWitnessed'
    BY <1>1 DEF IInv, AnswersAreWitnessed
<1>8. SessionsAreOfCalls' /\ InvitationsAreGenuine'
    BY <1>1 DEF IInv, SessionsAreOfCalls, InvitationsAreGenuine
<1> QED
    BY <1>3, <1>4, <1>5, <1>6, <1>7, <1>8, Wholly DEF InvitePart

LEMMA InductiveStep == IInv /\ [Next]_vars => IInv'
<1> SUFFICES ASSUME IInv, [Next]_vars PROVE IInv'
    OBVIOUS
<1>1. CASE UNCHANGED vars
    BY <1>1, Stuttering
<1>2. ASSUME NEW c \in Calls, Aside,
             \/ FindLogin(c) \/ StoreProfile(c) \/ FindAddress(c) \/ Link(c)
             \/ CreateSignedIn(c)
      PROVE  IInv'
    BY <1>2, FindLoginStep, StoreProfileStep, FindAddressStep, LinkStep, CreateSignedInStep
<1>3. ASSUME NEW c \in Calls, Aside,
             \/ Authenticate(c) \/ CheckAddress(c) \/ InsertUser(c) \/ LoadTarget(c)
             \/ WriteUser(c) \/ DisconnectUser(c) \/ NullifySessions(c) \/ DeleteUser(c)
      PROVE  IInv'
    BY <1>3, AuthenticateStep, CheckAddressStep, InsertUserStep, LoadTargetStep,
       WriteUserStep, DisconnectUserStep, NullifySessionsStep, DeleteUserStep
<1>4. ASSUME NEW c \in Calls, Witness,
             \/ CheckName(c) \/ CheckAgents(c) \/ InsertCampaign(c) \/ LoadCampaign(c)
             \/ ReplaceScenarios(c) \/ ReplaceAgents(c) \/ CommitUpdate(c)
             \/ ReadScope(c) \/ UpdateClientScope(c) \/ Archive(c)
      PROVE  IInv'
    BY <1>4, CheckNameStep, InsertCampaignStep, LoadCampaignStep, ReplaceStep,
       CommitUpdateStep, ReadScopeStep, UpdateClientScopeStep, ArchiveStep
<1>5. ASSUME NEW c \in Calls, Witness,
             ReadMembers(c) \/ WriteMembers(c) \/ SetScenario(c)
      PROVE  IInv'
    BY <1>5, ReadMembersStep, WriteMembersStep, SetScenarioStep
<1>6. ASSUME NEW c \in Calls, Witness,
             \/ Invite(c) \/ LoadContext(c) \/ RequireAssignment(c)
             \/ RequireMembership(c) \/ FindScenario(c) \/ InsertSession(c)
             \/ ListCampaigns(c) \/ ListScenarios(c)
      PROVE  IInv'
    BY <1>6, InviteBegins, LoadContextStep, RequireAssignmentStep, RequireMembershipStep,
       FindScenarioStep, InsertSessionStep, ListCampaignsStep, ListScenariosStep
<1>7. ASSUME NEW w \in Sockets, Witness,
             CheckClient(w) \/ ReadOwnCampaigns(w) \/ Register(w) \/ Leave(w)
      PROVE  IInv'
    BY <1>7, SocketsMove
<1> QED
    BY <1>1, <1>2, <1>3, <1>4, <1>5, <1>6, <1>7 DEF Next

\* Every reachable state satisfies IInv: an address is of one account and
\* decides where an identity goes (get_or_create_google_user,
\* get_or_create_lark_user); whatever a request has read was true once.
THEOREM Invariance == Spec => []IInv
BY InitialInvariant, InductiveStep, PTL DEF Spec

\* The tables keep their types, and campaign_agents its foreign keys: only
\* accounts are assigned, and only to campaigns.
THEOREM TypeCorrect == Spec => []TypeOK
<1>1. IInv => TypeOK
    BY DEF IInv
<1> QED
    BY <1>1, Invariance, PTL

LEMMA OneHome == IInv => IdentityKeepsItsAccount
<1> SUFFICES ASSUME IInv, NEW i \in Logins
             PROVE  Cardinality(home[i] \cap Rows) <= 1
    BY DEF IdentityKeepsItsAccount
<1>1. \A s, t \in home[i] \cap Rows : s = t
    <2> SUFFICES ASSUME NEW s \in home[i] \cap Rows, NEW t \in home[i] \cap Rows
                 PROVE  s = t
        OBVIOUS
    <2>1. users[s].email = Address(i) /\ users[t].email = Address(i)
        BY DEF IInv, HomesAreKnown, KnownAs
    <2> QED
        BY <2>1 DEF IInv, AddressesDecide
<1>2. CASE home[i] \cap Rows = {}
    BY <1>2, FS_EmptySet
<1>3. CASE \E s : s \in home[i] \cap Rows
    <2>1. PICK s : home[i] \cap Rows = {s}
        BY <1>1, <1>3
    <2> QED
        BY <2>1, FS_Singleton
<1> QED
    BY <1>2, <1>3

\* Whatever happens to accounts meanwhile, all sign-ins of one identity
\* (get_or_create_google_user, get_or_create_lark_user) enter the same account
\* for as long as that account exists.
THEOREM OneAccount == Spec => []IdentityKeepsItsAccount
BY OneHome, Invariance, PTL

\* What a registered client hears about (events_websocket, and
\* event_manager.update_user_scope of update_campaign) are the campaigns that
\* its user was assigned to at one moment.
THEOREM OnceTrue == Spec => []ScopeWasOnceTrue
<1>1. IInv => ScopeWasOnceTrue
    BY DEF IInv, ScopesComeFromThePast, ScopeWasOnceTrue
<1> QED
    BY <1>1, Invariance, PTL

\* Each condition of validate_campaign_context and of
\* get_agent_campaign_scenarios was true at some moment of the request that got
\* a session or was shown a scenario, though they are read one after the other.
THEOREM GenuineInvitations == Spec => []InvitationsAreGenuine
<1>1. IInv => InvitationsAreGenuine
    BY DEF IInv
<1> QED
    BY <1>1, Invariance, PTL
=============================================================================
