---------------------------- MODULE MCCampaigns ----------------------------
(* One admin and one agent, and the groups of requests that meet on one      *)
(* account, one campaign or one event client.                                *)
EXTENDS Campaigns, TLC

CONSTANTS a1, u1, n1, n2,          \* accounts: seeded and to be created
          g1, g2, g3, l1, l2,      \* identities
          e0, e1, e2,              \* addresses
          k1, k2, k3, x1, x2, w1, w2

MCEmailOf == g1 :> e1 @@ g2 :> e2 @@ g3 :> e1 @@ l1 :> NoEmail @@ l2 :> e2
MCUserOf == w1 :> u1 @@ w2 :> u1

MCSeeded == [s \in {a1, u1, n1, n2} |->
    IF s = a1 THEN User(e0, NoLogin, NoLogin, "admin", "none")
    ELSE IF s = u1 THEN User(e1, NoLogin, NoLogin, "user", "agent")
    ELSE Unused]

MCOpened == k1 :> [status |-> "active", scenarios |-> {x1}]
         @@ k2 :> [status |-> "draft", scenarios |-> {x1, x2}]
         @@ k3 :> [status |-> "none", scenarios |-> {}]

MCEnrolled == {<<u1, k1>>}

SignIn(i, n) == [op |-> "sign_in", login |-> i, n |-> n]
SetUser(s, role, type) ==
    [op |-> "update_user", actor |-> a1, target |-> s, role |-> role, type |-> type]
Status(s, active) ==
    [op |-> "set_status", actor |-> a1, target |-> s, active |-> active]
Patch(s, role, active) ==
    [op |-> "auth_update", actor |-> a1, target |-> s, role |-> role, active |-> active]
Delete(s) == [op |-> "delete_user", actor |-> a1, target |-> s]
Create(k, us) ==
    [op |-> "create_campaign", actor |-> a1, k |-> k, scenarios |-> {x1}, agents |-> us]
Change(k, status, xs, us) ==
    [op |-> "update_campaign", actor |-> a1, k |-> k, status |-> status,
     scenarios |-> xs, agents |-> us]
On(op, k, xs) == [op |-> op, actor |-> a1, k |-> k, scenarios |-> xs]
Train(s, x) == [op |-> "create_session", actor |-> s, k |-> k1, x |-> x]
List(s) == [op |-> "list_scenarios", actor |-> s]
Scenario(x, active) ==
    [op |-> "set_scenario", actor |-> a1, scenario |-> x, active |-> active]

\* One identity twice, others with its address, a registration in between.
Arrivals == {SignIn(g2, 1), SignIn(g2, 2), SignIn(l2, 1),
             [op |-> "register", email |-> e2, role |-> "user"]}
Newcomers == {SignIn(l1, 1), SignIn(l1, 2), SignIn(g3, 1), Status(u1, FALSE),
              [op |-> "create_user", actor |-> a1, email |-> e2,
               role |-> "user", type |-> "trainer"]}
\* An identity joins an account that is changed and deleted.
Departure == {SignIn(g1, 1), SignIn(g1, 2), Delete(u1), Status(u1, FALSE)}
Management == {SetUser(u1, "user", "trainer"), SetUser(a1, "user", "agent"),
               Patch(u1, {"admin"}, {}), Patch(a1, {}, {FALSE}),
               Status(a1, FALSE), Delete(a1)}
\* The scope of clients that connect while assignments change.
Scopes == {Change(k1, {}, {}, {{}}), Change(k2, {"active"}, {}, {{u1}}),
           Change(k1, {}, {}, {{u1}}), w1, w2}
Openings == {Create(k3, {u1}), Change(k3, {"active"}, {}, {}),
             Change(k1, {}, {}, {{u1}}), List(u1), Delete(u1), w1}
\* A session while campaign, membership, scenario and account change.
Trainings == {Train(u1, x2), Train(a1, x1), Change(k1, {"active"}, {{x2}}, {}),
              On("archive", k1, {}), Scenario(x2, FALSE)}
Members == {Train(u1, x2), On("add_scenarios", k1, {x1, x2}),
            On("remove_scenario", k1, {x1}), Change(k1, {}, {{x2}}, {{u1}}),
            List(u1)}
Farewell == {Train(u1, x1), Delete(u1), List(u1), w1, SetUser(u1, "user", "trainer")}

MCPlans == {Arrivals, Newcomers, Departure, Management, Scopes, Openings,
            Trainings, Members, Farewell}
MCCalls == UNION MCPlans \ {w1, w2}
=============================================================================
