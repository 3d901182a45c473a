------------------------------ MODULE MCServices ------------------------------
EXTENDS Services, TLC

\* Every script, most of them again after they have run or stopped half-way; the
\* third is the master's list.
MCWorkloads == {
  <<"users", "templates", "challengesReal", "brokerAccounts", "brokerAccounts", "brokerAccountsReal",
    "certificates", "certificates", "verifications", "verifications", "withdrawals", "withdrawalsSeed",
    "orders", "styles", "styles">>,
  <<"specificUser", "specificUser", "affiliates", "affiliates", "templatesComprehensive",
    "templatesComprehensive", "templates", "challenges", "challengesReal", "challengesReal",
    "specificChallenge", "specificChallenge", "brokerAccountsReal", "brokerAccountsReal",
    "brokerAccountsRealistic", "brokerAccounts">>,
  <<"users">> \o SEED_FILES}

MCConfigured ==
  {[profitTarget |-> <<n, 5>>, dailyDrawdown |-> <<1, 5>>, maxDrawdown |-> <<1, 2>>, inactiveDays |-> 1] :
     n \in {0, 1}}

Nothing == [Request("none", "none") EXCEPT !.pc = "error"]

Empty == [
  style |-> ("s1" :> [active |-> TRUE, born |-> 1]) @@ ("s2" :> [active |-> FALSE, born |-> 2])
            @@ ("s3" :> [active |-> FALSE, born |-> 0]),
  user |-> [e \in {"ann", "bob"} |-> NoUser],
  reset |-> [c \in Requesters |-> [user |-> "none", state |-> "gone"]],
  mailed |-> {},
  named |-> [r \in Requesters \cup {"row"} |-> [kind |-> "none", name |-> "none", by |-> "none"]],
  balances |-> {}, stages |-> {}, parameters |-> {}]

\* ann has registered and not confirmed.
WithAnn == [Empty EXCEPT !.user["ann"] = [NoUser EXCEPT !.role = "user", !.password = "old"]]

WithRow(kind) == [Empty EXCEPT !.named["row"] = [kind |-> kind, name |-> "old", by |-> "none"]]

Calls(a, b, c) == ("r1" :> a) @@ ("r2" :> b) @@ ("r3" :> c)
Scenario(table, a, b, c) == [tab |-> table, req |-> Calls(a, b, c)]

StyleCalls == {Request("setActiveStyle", "s1"), Request("setActiveStyle", "s2"), Request("createStyle", "s3"),
               Request("updateStyle", "s1"), Request("removeStyle", "s2")}
MCStyles == {Scenario(Empty, Request("setActiveStyle", "s2"), a, b) : a, b \in StyleCalls}

Register(e) == Request("register", e)
OfAnn(op) == Request(op, "ann")

MCAccounts ==
  {Scenario(Empty, Register("ann"), Register("bob"), a) :
     a \in {Register("ann"), Request("confirmEmail", "r1"), OfAnn("googleAuth"), OfAnn("updateProfile")}}
  \cup {Scenario(Empty, Register("ann"), a, b) : a, b \in
     {Request("confirmEmail", "r1"), OfAnn("updateProfile"), OfAnn("resendConfirmationEmail"),
      OfAnn("assignRole"), OfAnn("googleAuth")}}
  \cup {Scenario(WithAnn, OfAnn("requestPasswordReset"), Request("completePasswordReset", "r1"), a) : a \in
     {Request("completePasswordReset", "r1"), OfAnn("updateProfile"), OfAnn("changePassword"),
      OfAnn("googleAuth")}}
  \cup {Scenario(WithAnn, OfAnn("resendConfirmationEmail"), Request("confirmEmail", "r1"), OfAnn("assignRole"))}

Create(kind, name) == Request("createNamed", [kind |-> kind, name |-> name, row |-> "none"])
OfRow(op, kind, name) == Request(op, [kind |-> kind, name |-> name, row |-> "row"])

MCNames ==
  {Scenario(WithRow(k), Create(k, "new"), a, b) :
     k \in {"role", "style", "plan", "category"},
     a \in {Create("style", "new"), Create("plan", "new"), Create("role", "new"), Create("category", "new")},
     b \in {OfRow("renameNamed", "style", "new"), OfRow("renameNamed", "role", "new"),
            OfRow("removeNamed", "plan", "new"), Nothing}}

Balance(bs) == Request("createRelationBalances", bs)
Stages == Request("createRelationStages", "relation")
Chain == Request("findCompleteRelationChain", "relation")

MCTemplates ==
  {Scenario(Empty, Balance({1}), Balance({1, 2}), a) :
     a \in {Balance({}), Request("createRelationBalance", {2}), Nothing}}
  \cup {Scenario(Empty, Stages, a, Chain) : a \in {Stages, Chain}}

MCScenarios == MCStyles \cup MCAccounts \cup MCNames \cup MCTemplates
=============================================================================
