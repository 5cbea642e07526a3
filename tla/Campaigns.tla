------------------------------ MODULE Campaigns ------------------------------
(***************************************************************************)
(* Campaigns: who is assigned, which scenarios belong, who may train in    *)
(* them, and which campaigns the event clients of a user hear about.       *)
(*                                                                         *)
(* Admins create, update and archive campaigns and move scenarios in and   *)
(* out; agents list their scenarios and create sessions after an ordered   *)
(* validation; an event client reads its campaigns before it registers     *)
(* and is told of later changes.  Every request reads first and commits    *)
(* later, among the account requests of Accounts.                          *)
(*                                                                         *)
(* A campaign is named by its name; renaming, descriptions, dates (an      *)
(* update with wrong dates leaves nothing), campaign roles and the access  *)
(* of trainers are left out.                                               *)
(***************************************************************************)
EXTENDS Accounts

CONSTANTS
    Names,        \* names, here also ids, of campaigns
    Scenarios,
    Opened        \* name -> the campaign the behaviour starts with

Statuses == {"none", "draft", "active", "completed", "archived"}

SocketSteps == {"new", "checked", "scoped", "connected", "closed"}
CampaignRows == [status : Statuses, scenarios : SUBSET Scenarios]

ASSUME OpenedAssumption ==
    /\ Opened \in [Names -> CampaignRows] /\ UserOf \in [Sockets -> Ids]
    /\ Enrolled \subseteq {s \in Ids : Seeded[s] # Unused}
                        \X {k \in Names : Opened[k].status # "none"}
\* What the request schemas and paths let through.
ASSUME CampaignCallsAssumption ==
    \A c \in Calls :
        /\ c.op = "create_campaign" =>
              c.k \in Names /\ c.scenarios \subseteq Scenarios
        /\ c.op = "update_campaign" =>
              /\ c.k \in Names /\ c.status \subseteq Statuses \ {"none"}
              /\ c.scenarios \subseteq SUBSET Scenarios
        /\ c.op \in {"archive", "add_scenarios", "remove_scenario"} => c.k \in Names
        /\ c.op = "set_scenario" => c.scenario \in Scenarios
        /\ c.op = "create_session" => c.k \in Names /\ c.x \in Scenarios

VARIABLES
    campaign,     \* name -> status and scenarios (table campaign_scenarios)
    live,         \* scenarios with is_active
    past,         \* history: user -> the assignments it has had
    since         \* history: request -> what has held for it since it began

vars == <<accountVars, campaign, live, past, since>>

campaignTables == <<users, assigned, sessions, socket, home, campaign, live>>

CampaignsOf(s) == {k \in Names : <<s, k>> \in assigned}

Invites == {c \in Calls : c.op \in {"create_session", "list_scenarios"}}

Active(k) == campaign[k].status = "active"

\* What holds now of the conditions for training in scenario x of campaign k.
Facts(s, k, x) ==
    {f \in {"assigned", "active", "member", "live"} :
        CASE f = "assigned" -> <<s, k>> \in assigned
          [] f = "active"   -> Active(k)
          [] f = "member"   -> x \in campaign[k].scenarios
          [] f = "live"     -> x \in live}

Init ==
    /\ AccountsInit
    /\ campaign = [k \in Names |-> Opened[k]]
    /\ live = Scenarios
    /\ past = [s \in Ids |-> {CampaignsOf(s)}]
    /\ since = [c \in Invites |-> [p \in Names \X Scenarios |-> {}]]

-----------------------------------------------------------------------------
(* Plausible bugs *)

\* Agents are told of the updated campaign only.
ScopeAfter_one(c, s) == {c.k}

\* The status of the campaign is not looked at.
MayTrain_anytime(c, admin, status) == admin \/ <<c.actor, c.k>> \in assigned

-----------------------------------------------------------------------------
(* Campaign administration *)

Exists(k) == campaign[k].status # "none"

AgentsAreValid(us) ==
    \A s \in us : /\ s \in Rows /\ users[s].active
                  /\ users[s].role = "user" /\ users[s].type = "agent"

\* create_campaign: the name and the scenarios, then the agents.
CheckName(c) ==
    /\ c.op = "create_campaign" /\ at[c] = "asked"
    /\ Go(c, IF ~Exists(c.k) /\ c.scenarios \subseteq live
             THEN "agents" ELSE "refused")
    /\ UNCHANGED campaignTables

CheckAgents(c) ==
    /\ c.op = "create_campaign" /\ at[c] = "agents"
    /\ Go(c, IF AgentsAreValid(c.agents) THEN "inserting" ELSE "refused")
    /\ UNCHANGED campaignTables

\* The keys of the tables are checked by the INSERTs.
InsertCampaign(c) ==
    /\ c.op = "create_campaign" /\ at[c] = "inserting"
    /\ IF ~Exists(c.k) /\ c.agents \subseteq Rows
       THEN /\ campaign' = [campaign EXCEPT
                  ![c.k] = [status |-> "draft", scenarios |-> c.scenarios]]
            /\ assigned' = assigned \cup (c.agents \X {c.k})
            /\ Go(c, "done")
       ELSE Go(c, "failed") /\ UNCHANGED <<campaign, assigned>>
    /\ UNCHANGED <<users, sessions, socket, home, live>>

\* The campaign an update, an archive or a change of scenarios starts from.
LoadCampaign(c) ==
    /\ c.op \in {"update_campaign", "archive", "add_scenarios", "remove_scenario"}
    /\ at[c] = "asked"
    /\ IF Exists(c.k) /\ campaign[c.k].status # "archived"
       THEN Read(c, "loaded", [status |-> campaign[c.k].status])
       ELSE Go(c, "refused")
    /\ UNCHANGED campaignTables

\* update_campaign validates and replaces scenarios, then agents.  The DELETE
\* of a replacement removes the rows that are there when it runs.
ReplaceScenarios(c) ==
    /\ c.op = "update_campaign" /\ at[c] = "loaded"
    /\ LET new == UNION c.scenarios
           old == IF c.scenarios = {} THEN {} ELSE campaign[c.k].scenarios
       IN  IF new \subseteq live
           THEN Read(c, "scenarios",
                     [status |-> saw[c].status, new |-> new, old |-> old])
           ELSE Go(c, "refused")
    /\ UNCHANGED campaignTables

ReplaceAgents(c) ==
    /\ c.op = "update_campaign" /\ at[c] = "scenarios"
    /\ LET in == UNION c.agents
           out == IF c.agents = {} THEN {} ELSE {pair \in assigned : pair[2] = c.k}
       IN  IF AgentsAreValid(in)
           THEN Read(c, "replaced",
                     [status |-> saw[c].status, new |-> saw[c].new,
                      old |-> saw[c].old, in |-> in, out |-> out])
           ELSE Go(c, "refused")
    /\ UNCHANGED campaignTables

\* The INSERTs meet the keys: rows another request put there meanwhile, and
\* agents whose account is gone, fail the update as a whole.  The status is
\* written when it differs from the one loaded.
CommitUpdate(c) ==
    /\ c.op = "update_campaign" /\ at[c] = "replaced"
    /\ LET kept == campaign[c.k].scenarios \ saw[c].old
           rows == saw[c].in \X {c.k}
           status == IF c.status \subseteq {saw[c].status} THEN campaign[c.k].status
                     ELSE CHOOSE s \in c.status : TRUE
       IN  IF /\ kept \cap saw[c].new = {}
              /\ (assigned \ saw[c].out) \cap rows = {}
              /\ saw[c].in \subseteq Rows
           THEN /\ campaign' = [campaign EXCEPT
                       ![c.k] = [status |-> status, scenarios |-> kept \cup saw[c].new]]
                /\ assigned' = (assigned \ saw[c].out) \cup rows
                /\ IF saw[c].in = {} THEN Go(c, "done")
                   ELSE Read(c, "scopes", [left |-> saw[c].in])
           ELSE Go(c, "failed") /\ UNCHANGED <<campaign, assigned>>
    /\ UNCHANGED <<users, sessions, socket, home, live>>

\* "Update WebSocket scopes for affected agents": for each agent of the
\* request, read its campaigns, then tell its registered clients.
ScopeAfter(c, s) == CampaignsOf(s)

ReadScope(c) ==
    /\ c.op = "update_campaign" /\ at[c] = "scopes"
    /\ \E s \in saw[c].left :
           Read(c, "telling", [left |-> saw[c].left \ {s}, id |-> s,
                               ks |-> ScopeAfter(c, s)])
    /\ UNCHANGED campaignTables

UpdateClientScope(c) ==
    /\ c.op = "update_campaign" /\ at[c] = "telling"
    /\ socket' = [w \in Sockets |->
          IF UserOf[w] = saw[c].id /\ socket[w].step = "connected"
          THEN [socket[w] EXCEPT !.scope = saw[c].ks] ELSE socket[w]]
    /\ IF saw[c].left = {} THEN Go(c, "done")
       ELSE Read(c, "scopes", [left |-> saw[c].left])
    /\ UNCHANGED <<users, assigned, sessions, home, campaign, live>>

Archive(c) ==
    /\ c.op = "archive" /\ at[c] = "loaded"
    /\ campaign' = [campaign EXCEPT ![c.k].status = "archived"]
    /\ Go(c, "done")
    /\ UNCHANGED <<users, assigned, sessions, socket, home, live>>

-----------------------------------------------------------------------------
(* Scenarios *)

\* add_scenarios_to_campaign skips members and inserts the rest, which fails
\* when somebody else inserted one of them meanwhile.
ReadMembers(c) ==
    /\ c.op \in {"add_scenarios", "remove_scenario"} /\ at[c] = "loaded"
    /\ IF c.op = "add_scenarios"
       THEN IF c.scenarios \subseteq live
            THEN Read(c, "members", [new |-> c.scenarios \ campaign[c.k].scenarios])
            ELSE Go(c, "refused")
       ELSE IF c.scenarios \subseteq campaign[c.k].scenarios
            THEN Read(c, "members", [new |-> {}]) ELSE Go(c, "refused")
    /\ UNCHANGED campaignTables

WriteMembers(c) ==
    /\ c.op \in {"add_scenarios", "remove_scenario"} /\ at[c] = "members"
    /\ IF saw[c].new \cap campaign[c.k].scenarios # {}
       THEN Go(c, "failed") /\ UNCHANGED campaign
       ELSE /\ campaign' = [campaign EXCEPT ![c.k].scenarios =
                   IF c.op = "add_scenarios" THEN @ \cup saw[c].new
                   ELSE @ \ c.scenarios]
            /\ Go(c, "done")
    /\ UNCHANGED <<users, assigned, sessions, socket, home, live>>

\* update_scenario and delete_scenario: no row is removed.
SetScenario(c) ==
    /\ c.op = "set_scenario" /\ at[c] = "asked"
    /\ live' = IF c.active THEN live \cup {c.scenario} ELSE live \ {c.scenario}
    /\ Go(c, "done")
    /\ UNCHANGED <<users, assigned, sessions, socket, home, campaign>>

-----------------------------------------------------------------------------
(* Agents: creating a session, listing scenarios *)

\* An inactive or deleted account is nobody, and nobody is assigned.
Invite(c) ==
    /\ c \in Invites /\ at[c] = "waiting"
    /\ IF c.actor \in Rows /\ users[c.actor].active
       THEN LET admin == users[c.actor].role = "admin"
            IN  IF c.op = "create_session" THEN Read(c, "campaign", [admin |-> admin])
                ELSE IF admin \/ users[c.actor].type = "agent"
                THEN Go(c, "campaigns") ELSE Go(c, "refused")
       ELSE Go(c, "refused")
    /\ UNCHANGED campaignTables

\* validate_campaign_context: the campaign in whatever state, ...
LoadContext(c) ==
    /\ c.op = "create_session" /\ at[c] = "campaign"
    /\ IF Exists(c.k)
       THEN Read(c, "assignment", [admin |-> saw[c].admin,
                                   status |-> campaign[c.k].status])
       ELSE Go(c, "refused")
    /\ UNCHANGED campaignTables

\* ... unless the user is an admin the assignment and the loaded status, ...
MayTrain(c, admin, status) ==
    admin \/ (<<c.actor, c.k>> \in assigned /\ status = "active")

RequireAssignment(c) ==
    /\ c.op = "create_session" /\ at[c] = "assignment"
    /\ Go(c, IF MayTrain(c, saw[c].admin, saw[c].status)
             THEN "membership" ELSE "refused")
    /\ UNCHANGED campaignTables

\* ... and the scenario in the campaign.
RequireMembership(c) ==
    /\ c.op = "create_session" /\ at[c] = "membership"
    /\ Go(c, IF c.x \in campaign[c.k].scenarios THEN "scenario" ELSE "refused")
    /\ UNCHANGED campaignTables

\* create_session of the service finds the scenario, closes its transaction
\* and waits for the persona; the campaign may have no published standard.
FindScenario(c) ==
    /\ c.op = "create_session" /\ at[c] = "scenario"
    /\ \/ c.x \in live /\ Go(c, "persona")
       \/ Go(c, "refused")
    /\ UNCHANGED campaignTables

InsertSession(c) ==
    /\ c.op = "create_session" /\ at[c] = "persona"
    /\ sessions' = sessions \cup {[by |-> c, agent |-> c.actor,
                                   admin |-> saw[c].admin, k |-> c.k, x |-> c.x]}
    /\ Go(c, "done")
    /\ UNCHANGED <<users, assigned, socket, home, campaign, live>>

\* get_agent_campaign_scenarios: the active campaigns of the user, ...
ListCampaigns(c) ==
    /\ c.op = "list_scenarios" /\ at[c] = "campaigns"
    /\ LET ks == {k \in CampaignsOf(c.actor) : Active(k)}
       IN  IF ks = {} THEN Read(c, "done", [listed |-> {}])
           ELSE Read(c, "collecting", [ks |-> ks])
    /\ UNCHANGED campaignTables

\* ... and then their active scenarios, each once.
ListScenarios(c) ==
    /\ c.op = "list_scenarios" /\ at[c] = "collecting"
    /\ Read(c, "done",
            [listed |-> live \cap UNION {campaign[k].scenarios : k \in saw[c].ks}])
    /\ UNCHANGED campaignTables

-----------------------------------------------------------------------------
(* Event clients *)

Rest == <<users, assigned, sessions, home, at, saw, campaign, live>>

Step(w, step, scope) == socket' = [socket EXCEPT ![w] = [step |-> step, scope |-> scope]]

\* events_websocket: the account, its campaigns, then the registration.
CheckClient(w) ==
    /\ socket[w].step = "new"
    /\ Step(w, IF UserOf[w] \in Rows /\ users[UserOf[w]].active
               THEN "checked" ELSE "closed", {})
    /\ UNCHANGED Rest

ReadOwnCampaigns(w) ==
    /\ socket[w].step = "checked"
    /\ Step(w, "scoped", CampaignsOf(UserOf[w]))
    /\ UNCHANGED Rest

Register(w) ==
    /\ socket[w].step = "scoped"
    /\ Step(w, "connected", socket[w].scope)
    /\ UNCHANGED Rest

Leave(w) ==
    /\ socket[w].step = "connected"
    /\ Step(w, "closed", {})
    /\ UNCHANGED Rest

-----------------------------------------------------------------------------

\* Between its first and its last step a request of an agent may meet any of
\* the facts that hold meanwhile.
Witness ==
    /\ past' = [s \in Ids |-> past[s] \cup {CampaignsOf(s)'}]
    /\ since' = [c \in Invites |->
          IF at'[c] \in {"waiting", "absent"} \/ at[c] \in Final THEN since[c]
          ELSE IF at'[c] \in {"refused", "failed"} THEN [p \in Names \X Scenarios |-> {}]
          ELSE [p \in Names \X Scenarios |->
                  since[c][p] \cup Facts(c.actor, p[1], p[2])']]

\* A step of Accounts leaves campaigns and scenarios alone.
Aside == UNCHANGED <<campaign, live>> /\ Witness

Next ==
    \/ \E c \in Calls : FindLogin(c) /\ Aside
    \/ \E c \in Calls : StoreProfile(c) /\ Aside
    \/ \E c \in Calls : FindAddress(c) /\ Aside
    \/ \E c \in Calls : Link(c) /\ Aside
    \/ \E c \in Calls : CreateSignedIn(c) /\ Aside
    \/ \E c \in Calls : Authenticate(c) /\ Aside
    \/ \E c \in Calls : CheckAddress(c) /\ Aside
    \/ \E c \in Calls : InsertUser(c) /\ Aside
    \/ \E c \in Calls : LoadTarget(c) /\ Aside
    \/ \E c \in Calls : WriteUser(c) /\ Aside
    \/ \E c \in Calls : DisconnectUser(c) /\ Aside
    \/ \E c \in Calls : NullifySessions(c) /\ Aside
    \/ \E c \in Calls : DeleteUser(c) /\ Aside
    \/ \E c \in Calls : CheckName(c) /\ Witness
    \/ \E c \in Calls : CheckAgents(c) /\ Witness
    \/ \E c \in Calls : InsertCampaign(c) /\ Witness
    \/ \E c \in Calls : LoadCampaign(c) /\ Witness
    \/ \E c \in Calls : ReplaceScenarios(c) /\ Witness
    \/ \E c \in Calls : ReplaceAgents(c) /\ Witness
    \/ \E c \in Calls : CommitUpdate(c) /\ Witness
    \/ \E c \in Calls : ReadScope(c) /\ Witness
    \/ \E c \in Calls : UpdateClientScope(c) /\ Witness
    \/ \E c \in Calls : Archive(c) /\ Witness
    \/ \E c \in Calls : ReadMembers(c) /\ Witness
    \/ \E c \in Calls : WriteMembers(c) /\ Witness
    \/ \E c \in Calls : SetScenario(c) /\ Witness
    \/ \E c \in Calls : Invite(c) /\ Witness
    \/ \E c \in Calls : LoadContext(c) /\ Witness
    \/ \E c \in Calls : RequireAssignment(c) /\ Witness
    \/ \E c \in Calls : RequireMembership(c) /\ Witness
    \/ \E c \in Calls : FindScenario(c) /\ Witness
    \/ \E c \in Calls : InsertSession(c) /\ Witness
    \/ \E c \in Calls : ListCampaigns(c) /\ Witness
    \/ \E c \in Calls : ListScenarios(c) /\ Witness
    \/ \E w \in Sockets : CheckClient(w) /\ Witness
    \/ \E w \in Sockets : ReadOwnCampaigns(w) /\ Witness
    \/ \E w \in Sockets : Register(w) /\ Witness
    \/ \E w \in Sockets : Leave(w) /\ Witness

Spec == Init /\ [][Next]_vars

-----------------------------------------------------------------------------
(* Properties *)

\* The types of accounts, campaigns and requests (the columns of models/user.py
\* and models/campaign.py), and the keys of campaign_agents: whatever is deleted
\* or fails meanwhile, only accounts are assigned, and only to campaigns.
TypeOK ==
    /\ users \in [Ids -> UserRows \cup {Unused, Gone}]
    /\ assigned \subseteq Rows \X {k \in Names : Exists(k)}
    /\ campaign \in [Names -> CampaignRows] /\ live \subseteq Scenarios
    /\ socket \in [Sockets -> [step : SocketSteps, scope : SUBSET Names]]
    /\ DOMAIN at = Calls /\ DOMAIN saw = Calls
    /\ home \in [Logins -> SUBSET Ids]

\* A registered client hears about the campaigns that its user was assigned to
\* at one moment: a scope is never put together from two.
ScopeWasOnceTrue ==
    \A w \in Sockets :
        socket[w].step = "connected" => socket[w].scope \in past[UserOf[w]]

\* validate_campaign_context and get_agent_campaign_scenarios read one
\* condition after the other: still each condition for training in the
\* campaign was true at some moment of the request that got a session or was
\* shown the scenario.
InvitationsAreGenuine ==
    /\ \A s \in sessions :
          {"member", "live"} \cup (IF s.admin THEN {} ELSE {"assigned", "active"})
              \subseteq since[s.by][<<s.k, s.x>>]
    /\ \A c \in Invites :
          at[c] = "done" /\ c.op = "list_scenarios" =>
              \A x \in saw[c].listed : \E k \in Names :
                  {"assigned", "active", "member", "live"} \subseteq since[c][<<k, x>>]

\* Once nothing is under way, the registered clients of an agent hear about
\* its campaigns, as the comment in update_campaign intends.
ScopesFollowAssignments ==
    (/\ \A c \in Calls : at[c] \in Final \cup {"waiting", "absent"}
     /\ \A w \in Sockets : socket[w].step \in {"new", "connected", "closed"})
    => \A w \in Sockets :
          socket[w].step = "connected" => socket[w].scope = CampaignsOf(UserOf[w])

-----------------------------------------------------------------------------
(* The inductive invariant *)

\* A campaign that was found stays, and the scenarios to write are scenarios.
ChangesAreOfCampaigns ==
    \A c \in Calls :
        /\ /\ c.op \in {"update_campaign", "archive", "add_scenarios", "remove_scenario"}
           /\ at[c] \in {"loaded", "scenarios", "replaced", "members"}
           => Exists(c.k)
        /\ at[c] \in {"scenarios", "replaced", "members"} =>
              saw[c].new \subseteq Scenarios

\* The present assignments are among the past ones, and so is every scope on
\* its way to a client.
ScopesComeFromThePast ==
    /\ \A s \in Ids : CampaignsOf(s) \in past[s] /\ past[s] \subseteq SUBSET Names
    /\ \A w \in Sockets :
          socket[w].step \in {"scoped", "connected"} =>
              socket[w].scope \in past[UserOf[w]]
    /\ \A c \in Calls :
          /\ at[c] \in {"scopes", "telling"} => saw[c].left \subseteq Ids
          /\ at[c] = "telling" =>
                saw[c].id \in Ids /\ saw[c].ks \in past[saw[c].id]

\* What each answered question of a request has established.
AnswersAreWitnessed ==
    \A c \in Calls :
        /\ c.op = "create_session" =>
              LET known == since[c][<<c.k, c.x>>] IN
              /\ at[c] = "assignment" /\ saw[c].status = "active" =>
                    "active" \in known
              /\ at[c] \in {"membership", "scenario", "persona"} =>
                    saw[c].admin \/ {"assigned", "active"} \subseteq known
              /\ at[c] \in {"scenario", "persona"} => "member" \in known
              /\ at[c] = "persona" => "live" \in known
        /\ c.op = "list_scenarios" /\ at[c] = "collecting" =>
              \A k \in saw[c].ks, x \in Scenarios :
                  k \in Names /\ {"assigned", "active"} \subseteq since[c][<<k, x>>]

SessionsAreOfCalls == \A s \in sessions : s.by \in Invites /\ at[s.by] = "done"

IInv ==
    /\ TypeOK
    /\ AddressesDecide /\ HomesAreKnown /\ SignInsAgree /\ UpdatesAreOfRows
    /\ ChangesAreOfCampaigns
    /\ ScopesComeFromThePast
    /\ AnswersAreWitnessed /\ SessionsAreOfCalls
    /\ InvitationsAreGenuine
=============================================================================
