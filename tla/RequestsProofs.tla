---------------------------- MODULE RequestsProofs ----------------------------
(***************************************************************************)
(* The requests, for any number of them, on any tables.  A call is         *)
(* followed through its own handler; Stays and Untouched say what its      *)
(* steps leave to the others.                                              *)
(***************************************************************************)
EXTENDS Services, FiniteSetTheorems, TLAPS

(***************************************************************************)
(* What a step leaves alone.                                               *)
(***************************************************************************)

CallFields == {"op", "on", "pc", "before", "row", "todo", "seen"}
TableNames == {"style", "user", "reset", "mailed", "named", "balances", "stages", "parameters"}

Shape ==
  /\ DOMAIN req = Requesters
  /\ \A c \in Requesters : DOMAIN req[c] = CallFields
  /\ DOMAIN tab = TableNames

\* A step of c in its handler: the others are where they were.
Stays(c) ==
  /\ \A d \in Requesters : d # c => req'[d] = req[d]
  /\ req[c].pc \notin Over \cup {"new"} /\ req'[c].pc # "new"
  /\ req'[c].on = req[c].on /\ req'[c].before = req[c].before

Untouched(names) == \A t \in names : tab'[t] = tab[t]

\* Going on, without and with a change of the local variables.
LEMMA ToShape ==
  ASSUME Shape, NEW c \in Requesters, NEW p, To(c, p)
  PROVE  /\ DOMAIN req' = Requesters /\ \A d \in Requesters : DOMAIN req'[d] = CallFields
         /\ \A d \in Requesters : d # c => req'[d] = req[d]
         /\ req'[c].pc = p /\ req'[c].op = req[c].op /\ req'[c].on = req[c].on
         /\ req'[c].before = req[c].before /\ req'[c].row = req[c].row
         /\ req'[c].todo = req[c].todo /\ req'[c].seen = req[c].seen
BY DEF Shape, CallFields, To

LEMMA ToWithShape ==
  ASSUME Shape, NEW c \in Requesters, NEW p, NEW change, DOMAIN change = CallFields, ToWith(c, p, change)
  PROVE  /\ DOMAIN req' = Requesters /\ \A d \in Requesters : DOMAIN req'[d] = CallFields
         /\ \A d \in Requesters : d # c => req'[d] = req[d]
         /\ req'[c].pc = p /\ req'[c].op = change.op /\ req'[c].on = change.on
         /\ req'[c].before = change.before /\ req'[c].row = change.row
         /\ req'[c].todo = change.todo /\ req'[c].seen = change.seen
BY DEF Shape, CallFields, ToWith

LEMMA ReceiveFrame ==
  ASSUME Shape, NEW c \in Requesters, Receive(c)
  PROVE  /\ Shape'
         /\ \A d \in Requesters : d # c => req'[d] = req[d]
         /\ req[c].pc = "new" /\ req'[c].pc = "start"
         /\ req'[c].before = {d \in Requesters : req[d].pc \in Over}
         /\ req'[c].op = req[c].op /\ req'[c].on = req[c].on /\ req'[c].row = req[c].row
         /\ req'[c].todo = req[c].todo /\ req'[c].seen = req[c].seen
         /\ tab' = tab
BY DEF Shape, CallFields, Receive

LEMMA FailFrame ==
  ASSUME Shape, NEW c \in Requesters, Fail(c)
  PROVE  Shape' /\ Stays(c) /\ req'[c].pc = "error" /\ req'[c].op = req[c].op /\ tab' = tab
BY ToShape DEF Shape, Fail, Stays

LEMMA ExpiresFrame ==
  ASSUME Shape, NEW c \in Requesters, ResetExpires(c)
  PROVE  /\ Shape' /\ req' = req /\ Untouched(TableNames \ {"reset"})
         /\ tab'.reset = [tab.reset EXCEPT ![c].state = "expired"]
BY DEF Shape, TableNames, ResetExpires, Untouched

LEMMA StyleFrame ==
  ASSUME Shape, NEW c \in Requesters, StyleStep(c)
  PROVE  /\ Shape' /\ Stays(c) /\ Untouched(TableNames \ {"style"})
         /\ req[c].op \in StyleOps /\ req'[c].op = req[c].op
<1> USE DEF Stays, Untouched, StyleOps, SetStyle, Asks, Over
<1>1. CASE CreateStyle(c) BY <1>1, ToShape DEF Shape, TableNames, CreateStyle
<1>2. CASE DeactivateAll(c) BY <1>2, ToShape DEF Shape, TableNames, DeactivateAll
<1>3. CASE FindStyle(c)
  <2>1. DOMAIN [req[c] EXCEPT !.seen = {tab.style[Target(c)]}] = CallFields BY DEF Shape
  <2> QED BY <1>3, <2>1, ToShape, ToWithShape DEF Shape, CallFields, FindStyle
<1>4. CASE SaveStyle(c) BY <1>4, ToShape DEF Shape, TableNames, SaveStyle
<1>5. CASE RemoveStyle(c) BY <1>5, ToShape DEF Shape, TableNames, RemoveStyle
<1> QED BY <1>1, <1>2, <1>3, <1>4, <1>5 DEF StyleStep

LEMMA NamedFrame ==
  ASSUME Shape, NEW c \in Requesters, NamedStep(c)
  PROVE  /\ Shape' /\ Stays(c) /\ Untouched(TableNames \ {"named"})
         /\ req[c].op \in NamedOps /\ req'[c].op = req[c].op
<1> USE DEF Stays, Untouched, NamedOps, Asks, Over
<1>1. CASE LookForName(c) BY <1>1, ToShape DEF Shape, LookForName
<1>2. CASE FindNamed(c) BY <1>2, ToShape DEF Shape, FindNamed
<1>3. CASE LookForNewName(c) BY <1>3, ToShape DEF Shape, LookForNewName
<1>4. CASE WriteNamed(c) BY <1>4, ToShape DEF Shape, TableNames, WriteNamed
<1>5. CASE RemoveNamed(c) BY <1>5, ToShape DEF Shape, TableNames, RemoveNamed
<1> QED BY <1>1, <1>2, <1>3, <1>4, <1>5 DEF NamedStep

LEMMA TemplateFrame ==
  ASSUME Shape, NEW c \in Requesters, TemplateStep(c)
  PROVE  /\ Shape' /\ Stays(c) /\ Untouched({"style", "user", "reset", "mailed", "named"})
         /\ req[c].op \in TemplateOps /\ req'[c].op = req[c].op
<1> USE DEF Stays, Untouched, TemplateOps, Asks, Over
<1>1. CASE removeAllRelationBalancesByRelation(c)
  BY <1>1, ToShape DEF Shape, TableNames, removeAllRelationBalancesByRelation
<1>2. CASE createRelationBalances(c) BY <1>2, ToShape DEF Shape, TableNames, createRelationBalances
<1>3. CASE createRelationBalance(c) BY <1>3, ToShape DEF Shape, TableNames, createRelationBalance
<1>4. CASE SaveRelationStage(c)
  <2>1. DOMAIN [req[c] EXCEPT !.todo = Rules] = CallFields BY DEF Shape
  <2> QED BY <1>4, <2>1, ToWithShape DEF Shape, CallFields, TableNames, SaveRelationStage
<1>5. CASE SaveStageParameter(c)
  <2>1. PICK r \in req[c].todo :
          /\ tab' = [tab EXCEPT !.parameters = @ \cup {<<c, r>>}]
          /\ ToWith(c, IF req[c].todo = {r} THEN "ok" ELSE "parameters", [req[c] EXCEPT !.todo = @ \ {r}])
    BY <1>5 DEF SaveStageParameter
  <2>2. DOMAIN [req[c] EXCEPT !.todo = @ \ {r}] = CallFields BY DEF Shape
  <2>3. Asks(c, {"createRelationStages"}, "parameters") BY <1>5 DEF SaveStageParameter
  <2> QED BY <2>1, <2>2, <2>3, ToWithShape DEF Shape, CallFields, TableNames
<1>6. CASE ReadRelation(c)
  <2>1. DOMAIN [req[c] EXCEPT !.todo = tab.stages] = CallFields BY DEF Shape
  <2> QED BY <1>6, <2>1, ToWithShape DEF Shape, CallFields, ReadRelation
<1>7. CASE findCompleteRelationChain(c)
  <2>1. PICK s \in req[c].todo :
          ToWith(c, IF req[c].todo = {s} THEN "ok" ELSE "stages",
              [req[c] EXCEPT !.todo = @ \ {s}, !.seen = @ \cup {<<s, {p \in tab.parameters : p[1] = s}>>}])
    BY <1>7 DEF findCompleteRelationChain
  <2> DEFINE change == [req[c] EXCEPT !.todo = @ \ {s}, !.seen = @ \cup {<<s, {p \in tab.parameters : p[1] = s}>>}]
  <2>2. /\ DOMAIN change = CallFields /\ change.op = req[c].op /\ change.on = req[c].on
        /\ change.before = req[c].before
    BY DEF Shape, CallFields
  <2>3. Asks(c, {"findCompleteRelationChain"}, "stages") /\ tab' = tab BY <1>7 DEF findCompleteRelationChain
  <2>4. ToWith(c, IF req[c].todo = {s} THEN "ok" ELSE "stages", change) BY <2>1
  <2> HIDE DEF change
  <2> QED BY <2>2, <2>3, <2>4, ToWithShape DEF Shape
<1> QED BY <1>1, <1>2, <1>3, <1>4, <1>5, <1>6, <1>7 DEF TemplateStep

AccountOps == UserOps \cup TokenOps

\* What a step of a call about a user does to the calls and the tables.
AccountOwn(c) ==
  /\ Shape' /\ Stays(c) /\ Untouched({"style", "named", "balances", "stages", "parameters"})
  /\ req[c].op \in AccountOps
  /\ req'[c].op = req[c].op \/ (req[c].op = "googleAuth" /\ req'[c].op = "googleLink")

\* The tables a step about users may write.
UserTables == DOMAIN tab' = TableNames /\ Untouched({"style", "named", "balances", "stages", "parameters"})

LEMMA AccountTo ==
  ASSUME Shape, NEW c \in Requesters, NEW p, p # "new", To(c, p), UserTables,
         req[c].op \in AccountOps, req[c].pc \notin Over \cup {"new"}
  PROVE  AccountOwn(c)
BY ToShape DEF Shape, UserTables, AccountOwn, Stays

\* A change of one local variable.
LEMMA ToRow ==
  ASSUME Shape, NEW c \in Requesters, NEW p, NEW v, ToWith(c, p, [req[c] EXCEPT !.row = v])
  PROVE  /\ DOMAIN req' = Requesters /\ \A d \in Requesters : DOMAIN req'[d] = CallFields
         /\ \A d \in Requesters : d # c => req'[d] = req[d]
         /\ req'[c].pc = p /\ req'[c].op = req[c].op /\ req'[c].on = req[c].on
         /\ req'[c].before = req[c].before /\ req'[c].row = v
BY DEF Shape, CallFields, ToWith

LEMMA ToTodo ==
  ASSUME Shape, NEW c \in Requesters, NEW p, NEW v, ToWith(c, p, [req[c] EXCEPT !.todo = v])
  PROVE  /\ DOMAIN req' = Requesters /\ \A d \in Requesters : DOMAIN req'[d] = CallFields
         /\ \A d \in Requesters : d # c => req'[d] = req[d]
         /\ req'[c].pc = p /\ req'[c].op = req[c].op /\ req'[c].on = req[c].on
         /\ req'[c].before = req[c].before /\ req'[c].todo = v /\ req'[c].seen = req[c].seen
BY DEF Shape, CallFields, ToWith

LEMMA AccountToWith ==
  ASSUME Shape, NEW c \in Requesters, NEW p, p # "new", NEW v,
         \/ ToWith(c, p, [req[c] EXCEPT !.row = v]) \/ ToWith(c, p, [req[c] EXCEPT !.todo = v]),
         UserTables, req[c].op \in AccountOps, req[c].pc \notin Over \cup {"new"}
  PROVE  AccountOwn(c)
<1>1. /\ DOMAIN req' = Requesters /\ \A d \in Requesters : DOMAIN req'[d] = CallFields
      /\ \A d \in Requesters : d # c => req'[d] = req[d]
      /\ req'[c].pc = p /\ req'[c].op = req[c].op /\ req'[c].on = req[c].on
      /\ req'[c].before = req[c].before
  <2>1. CASE ToWith(c, p, [req[c] EXCEPT !.row = v]) BY <2>1, ToRow, Zenon
  <2>2. CASE ToWith(c, p, [req[c] EXCEPT !.todo = v]) BY <2>2, ToTodo, Zenon
  <2> QED BY <2>1, <2>2
<1> QED BY <1>1 DEF Shape, UserTables, AccountOwn, Stays

LEMMA AccountFrame == ASSUME Shape, NEW c \in Requesters, AccountStep(c) PROVE AccountOwn(c)
<1>1. ASSUME UNCHANGED tab PROVE UserTables BY <1>1 DEF Shape, UserTables, Untouched
<1>2. ASSUME NEW e, NEW row, SetUser(e, row) PROVE UserTables
  BY <1>2 DEF Shape, UserTables, Untouched, TableNames, SetUser
<1>3. ASSUME NEW ops, NEW p, Asks(c, ops, p), p \in {"start", "count", "save", "token", "mail", "update"},
             \/ ops \subseteq {"register", "googleAuth"} \/ ops \subseteq {"register", "resendConfirmationEmail"}
             \/ ops \subseteq {"register", "resendConfirmationEmail", "requestPasswordReset"}
             \/ ops \subseteq TokenOps \/ ops \subseteq {"changePassword"} \/ ops \subseteq RowSavers
      PROVE  req[c].op \in AccountOps /\ req[c].pc \notin Over \cup {"new"}
  BY <1>3 DEF Asks, AccountOps, UserOps, Over
<1>4. CASE FindDuplicate(c)
  <2>1. PICK p \in {"error", "count"} : To(c, p) BY <1>4 DEF FindDuplicate
  <2>2. Asks(c, {"register"}, "start") /\ UNCHANGED tab BY <1>4 DEF FindDuplicate
  <2> QED BY <2>1, <2>2, <1>1, <1>3, AccountTo
<1>5. CASE CountUsers(c)
  <2>1. PICK row : ToWith(c, "save", [req[c] EXCEPT !.row = row]) BY <1>5 DEF CountUsers
  <2>2. Asks(c, {"register"}, "count") /\ UNCHANGED tab BY <1>5 DEF CountUsers
  <2> QED BY <2>1, <2>2, <1>1, <1>3, AccountToWith
<1>6. CASE SaveUser(c)
  <2>1. PICK p \in {"error", "token", "ok"} : To(c, p) BY <1>6 DEF SaveUser
  <2>2. Asks(c, {"register", "googleAuth"}, "save") /\ UserTables BY <1>6, <1>1, <1>2 DEF SaveUser
  <2> QED BY <2>1, <2>2, <1>3, AccountTo
<1>7. CASE StoreConfirmationToken(c)
  <2>1. UserTables BY <1>7 DEF StoreConfirmationToken, Shape, UserTables, Untouched, TableNames
  <2>2. Asks(c, {"register", "resendConfirmationEmail"}, "token") /\ To(c, "mail")
    BY <1>7 DEF StoreConfirmationToken
  <2> QED BY <2>1, <2>2, <1>3, AccountTo
<1>8. CASE MailLink(c)
  <2>1. UserTables BY <1>8 DEF MailLink, Shape, UserTables, Untouched, TableNames
  <2>2. Asks(c, {"register", "resendConfirmationEmail", "requestPasswordReset"}, "mail") /\ To(c, "ok")
    BY <1>8 DEF MailLink
  <2> QED BY <2>1, <2>2, <1>3, AccountTo
<1>9. CASE resendConfirmationEmail(c)
  <2>1. PICK p \in {"token", "error"} : To(c, p) BY <1>9 DEF resendConfirmationEmail
  <2>2. Asks(c, {"resendConfirmationEmail"}, "start") /\ UNCHANGED tab BY <1>9 DEF resendConfirmationEmail
  <2> QED BY <2>1, <2>2, <1>1, <1>3, AccountTo
<1>10. CASE FindByConfirmationToken(c)
  <2>1. To(c, "error") \/ \E found : ToWith(c, "update", [req[c] EXCEPT !.todo = found])
    BY <1>10 DEF FindByConfirmationToken
  <2>2. Asks(c, {"confirmEmail"}, "start") /\ UNCHANGED tab BY <1>10 DEF FindByConfirmationToken
  <2> QED BY <2>1, <2>2, <1>1, <1>3, AccountTo, AccountToWith DEF TokenOps
<1>11. CASE confirmEmail(c)
  <2>1. PICK e, row : SetUser(e, row) BY <1>11 DEF confirmEmail
  <2>2. Asks(c, {"confirmEmail"}, "update") /\ To(c, "ok") BY <1>11 DEF confirmEmail
  <2> QED BY <2>1, <2>2, <1>2, <1>3, AccountTo DEF TokenOps
<1>12. CASE requestPasswordReset(c)
  <2>1. PICK p \in {"save", "error"} : To(c, p) BY <1>12 DEF requestPasswordReset
  <2>2. Asks(c, {"requestPasswordReset"}, "start") /\ UNCHANGED tab BY <1>12 DEF requestPasswordReset
  <2> QED BY <2>1, <2>2, <1>1, <1>3, AccountTo
<1>13. CASE SaveReset(c)
  <2>1. UserTables BY <1>13 DEF SaveReset, Shape, UserTables, Untouched, TableNames
  <2>2. Asks(c, {"requestPasswordReset"}, "save") /\ To(c, "mail") BY <1>13 DEF SaveReset
  <2> QED BY <2>1, <2>2, <1>3, AccountTo
<1>14. CASE FindReset(c)
  <2>1. Asks(c, {"completePasswordReset"}, "start") /\ UNCHANGED tab BY <1>14 DEF FindReset
  <2>2. PICK p \in {"error", "drop", "update"} : To(c, p) BY <1>14 DEF FindReset
  <2> QED BY <2>1, <2>2, <1>1, <1>3, AccountTo DEF TokenOps
<1>15. CASE completePasswordReset(c)
  <2>1. UserTables BY <1>15 DEF completePasswordReset, Shape, UserTables, Untouched, TableNames
  <2>2. Asks(c, {"completePasswordReset"}, "update") /\ To(c, "remove") BY <1>15 DEF completePasswordReset
  <2> QED BY <2>1, <2>2, <1>3, AccountTo DEF TokenOps
<1>16. CASE RemoveReset(c)
  <2>1. UserTables BY <1>16 DEF RemoveReset, Shape, UserTables, Untouched, TableNames
  <2>2. PICK p \in {"error", "ok"} : To(c, p) BY <1>16 DEF RemoveReset
  <2>3. req[c].op \in AccountOps /\ req[c].pc \notin Over \cup {"new"}
    BY <1>16 DEF RemoveReset, AccountOps, TokenOps, Over
  <2> QED BY <2>1, <2>2, <2>3, AccountTo
<1>17. CASE changePassword(c)
  <2>1. UserTables BY <1>17 DEF changePassword, Shape, UserTables, Untouched, TableNames
  <2>2. PICK p \in {"error", "update", "ok"} : To(c, p) BY <1>17 DEF changePassword
  <2>3. Asks(c, {"changePassword"}, "start") \/ Asks(c, {"changePassword"}, "update")
    BY <1>17 DEF changePassword
  <2> QED BY <2>1, <2>2, <2>3, <1>3, AccountTo
<1>18. CASE ReadUserRow(c)
  <2>1. To(c, "error") \/ \E row : ToWith(c, "save", [req[c] EXCEPT !.row = row]) BY <1>18 DEF ReadUserRow
  <2>2. Asks(c, RowSavers, "start") /\ UNCHANGED tab BY <1>18 DEF ReadUserRow
  <2> QED BY <2>1, <2>2, <1>1, <1>3, AccountTo, AccountToWith
<1>19. CASE SaveUserRow(c)
  <2>1. \E row : SetUser(Target(c), row) BY <1>19 DEF SaveUserRow
  <2>2. Asks(c, RowSavers, "save") /\ To(c, "ok") BY <1>19 DEF SaveUserRow
  <2> QED BY <2>1, <2>2, <1>2, <1>3, AccountTo
<1>20. CASE googleAuth(c)
  <2>1. Asks(c, {"googleAuth"}, "start") /\ UNCHANGED tab BY <1>20 DEF googleAuth
  <2>2. req[c].op \in AccountOps /\ req[c].pc \notin Over \cup {"new"} BY <2>1, <1>3
  <2>3. CASE \E row : ToWith(c, "save", [req[c] EXCEPT !.row = row])
    BY <2>1, <2>2, <2>3, <1>1, AccountToWith
  <2>4. CASE req' = [req EXCEPT ![c].op = "googleLink", ![c].row = tab.user[Target(c)],
                                ![c].pc = IF tab.user[Target(c)].google THEN "ok" ELSE "save"]
    <3>1. /\ DOMAIN req' = Requesters /\ \A d \in Requesters : DOMAIN req'[d] = CallFields
          /\ \A d \in Requesters : d # c => req'[d] = req[d]
          /\ req'[c].pc \in {"ok", "save"} /\ req'[c].op = "googleLink" /\ req'[c].on = req[c].on
          /\ req'[c].before = req[c].before
      BY <2>4 DEF Shape, CallFields
    <3>2. req[c].op = "googleAuth" BY <2>1 DEF Asks
    <3> QED BY <3>1, <3>2, <2>1, <2>2, <1>1 DEF AccountOwn, Shape, Stays, UserTables
  <2> QED BY <1>20, <2>3, <2>4 DEF googleAuth
<1> QED
  BY <1>4, <1>5, <1>6, <1>7, <1>8, <1>9, <1>10, <1>11, <1>12, <1>13, <1>14, <1>15,
     <1>16, <1>17, <1>18, <1>19, <1>20 DEF AccountStep

(***************************************************************************)
(* The calls among each other.                                             *)
(***************************************************************************)

\* Who was before a call is over, and stays over.
OrderInv ==
  \A c, d \in Requesters : d \in req[c].before => d # c /\ req[d].pc \in Over

CallsInv == Shape /\ OrderInv

\* Whatever a call does, it is the only one that moves, and not from its end.
LEMMA Moves ==
  ASSUME Shape, NEW c \in Requesters, RequestStep(c)
  PROVE  /\ Shape'
         /\ \/ ResetExpires(c) /\ req' = req
            \/ Receive(c)
            \/ Stays(c)
BY ReceiveFrame, FailFrame, ExpiresFrame, StyleFrame, NamedFrame, TemplateFrame, AccountFrame
   DEF RequestStep, AccountOwn

LEMMA CallsStep == ASSUME CallsInv, [RequestsNext]_requestVars PROVE CallsInv'
<1>1. CASE UNCHANGED requestVars BY <1>1 DEF requestVars, CallsInv, Shape, OrderInv
<1>2. ASSUME NEW c \in Requesters, RequestStep(c) PROVE CallsInv'
  <2>1. CASE ResetExpires(c) /\ req' = req BY <1>2, <2>1, Moves DEF CallsInv, OrderInv
  <2>2. CASE Receive(c)
    <3>1. OrderInv' BY <2>2, ReceiveFrame DEF CallsInv, OrderInv, Over
    <3> QED BY <2>2, <3>1, ReceiveFrame DEF CallsInv
  <2>3. CASE Stays(c)
    <3>1. OrderInv' BY <2>3 DEF CallsInv, OrderInv, Stays
    <3> QED BY <1>2, <3>1, Moves DEF CallsInv
  <2> QED BY <1>2, <2>1, <2>2, <2>3, Moves DEF CallsInv
<1> QED BY <1>1, <1>2 DEF RequestsNext

\* What the calls and the tables are when the requests arrive.
LEMMA CallsBegin ==
  ASSUME RequestsInit
  PROVE  /\ CallsInv
         /\ \A c \in Requesters :
              /\ Begins(req[c], tab) /\ req[c].pc \in {"new", "error"} /\ req[c].before = {}
              /\ req[c].row = NoUser /\ req[c].todo = {} /\ req[c].seen = {}
         /\ tab.reset = [c \in Requesters |-> [user |-> "none", state |-> "gone"]]
         /\ tab.mailed = {} /\ tab.balances = {} /\ tab.stages = {} /\ tab.parameters = {}
         /\ IsFiniteSet(DOMAIN tab.style) /\ DOMAIN tab.style # {}
         /\ tab.style \in [DOMAIN tab.style -> [active : BOOLEAN, born : Nat]]
         /\ \A u \in DOMAIN tab.user : DOMAIN tab.user[u] = DOMAIN NoUser /\ tab.user[u].token = "none"
         /\ KeysAreUnique(tab.named) /\ \A r \in DOMAIN tab.named : tab.named[r].by = "none"
<1> PICK s \in Scenarios : req = s.req /\ tab = s.tab BY DEF RequestsInit
<1>1. /\ DOMAIN tab = TableNames /\ DOMAIN req = Requesters /\ \A c \in Requesters : Begins(req[c], tab)
      /\ tab.reset = [c \in Requesters |-> [user |-> "none", state |-> "gone"]]
      /\ tab.mailed = {} /\ tab.balances = {} /\ tab.stages = {} /\ tab.parameters = {}
      /\ IsFiniteSet(DOMAIN tab.style) /\ DOMAIN tab.style # {}
      /\ tab.style \in [DOMAIN tab.style -> [active : BOOLEAN, born : Nat]]
      /\ \A u \in DOMAIN tab.user : DOMAIN tab.user[u] = DOMAIN NoUser /\ tab.user[u].token = "none"
      /\ KeysAreUnique(tab.named) /\ \A r \in DOMAIN tab.named : tab.named[r].by = "none"
  BY ScenariosAssumption DEF TableNames
<1>2. ASSUME NEW c \in Requesters
      PROVE  /\ DOMAIN req[c] = CallFields /\ req[c].pc \in {"new", "error"} /\ req[c].before = {}
             /\ req[c].row = NoUser /\ req[c].todo = {} /\ req[c].seen = {}
  <2>1. PICK pc \in {"new", "error"} : req[c] = [Request(req[c].op, req[c].on) EXCEPT !.pc = pc]
    BY <1>1 DEF Begins
  <2>2. req[c] = [op |-> req[c].op, on |-> req[c].on, pc |-> pc, before |-> {}, row |-> NoUser,
                  todo |-> {}, seen |-> {}]
    BY <2>1 DEF Request
  <2> QED BY <2>2 DEF CallFields
<1>3. Shape BY <1>1, <1>2 DEF Shape
<1>4. OrderInv BY <1>2 DEF OrderInv
<1> QED BY <1>1, <1>2, <1>3, <1>4 DEF CallsInv

LEMMA CallsInvariance == RequestsSpec => []CallsInv
BY CallsBegin, CallsStep, PTL DEF RequestsSpec

\* A call all others of which are over acts alone.
LEMMA Alone ==
  ASSUME CallsInv, NEW c \in Requesters, \A d \in Requesters \ {c} : d \in req[c].before,
         NEW e \in Requesters, RequestStep(e), ~ResetExpires(e)
  PROVE  e = c
<1> SUFFICES ASSUME e # c PROVE FALSE OBVIOUS
<1>1. req[e].pc \in Over BY DEF CallsInv, OrderInv
<1>2. Receive(e) \/ Stays(e) BY Moves DEF CallsInv
<1> QED BY <1>1, <1>2 DEF Receive, Stays, Over

\* The requests are a part of the services; while another part runs they rest.
LEMMA RequestsRun == ServicesSpec => RequestsSpec
<1>1. ServicesInit => RequestsInit
  <2> SUFFICES ASSUME ServicesInit PROVE RequestsInit
    OBVIOUS
  <2>1. PICK s \in IF part = "requests" THEN Scenarios ELSE One(Scenarios) :
          req = s.req /\ tab = s.tab /\ failures = 0
    BY DEF ServicesInit
  <2>2. s \in Scenarios BY ScenariosAssumption DEF One
  <2> QED BY <2>1, <2>2 DEF RequestsInit
<1>2. [ServicesNext]_servicesVars => [RequestsNext]_requestVars
  BY DEF ServicesNext, servicesVars
<1> QED BY <1>1, <1>2, PTL DEF ServicesSpec, RequestsSpec

\* So does every other part: what is proved of the specification of one of them
\* holds of the services.
THEOREM PartsRun == ServicesSpec => RequestsSpec /\ FazoSpec /\ PositionsSpec /\ RiskSpec /\ SeedsSpec
<1>1. ServicesInit => FazoInit /\ PositionsInit /\ RiskInit /\ SeedsInit BY DEF ServicesInit
<1>2. [ServicesNext]_servicesVars => [FazoNext]_fazoVars BY DEF ServicesNext, servicesVars
<1>3. [ServicesNext]_servicesVars => [PositionsNext]_positionVars BY DEF ServicesNext, servicesVars
<1>4. [ServicesNext]_servicesVars => [RiskNext]_riskVars BY DEF ServicesNext, servicesVars
<1>5. [ServicesNext]_servicesVars => [SeedsNext]_seedVars BY DEF ServicesNext, servicesVars
<1> QED BY <1>1, <1>2, <1>3, <1>4, <1>5, RequestsRun, PTL DEF ServicesSpec, FazoSpec, PositionsSpec, RiskSpec, SeedsSpec

(***************************************************************************)
(* The configuration of the templates.                                     *)
(***************************************************************************)

\* The balances of a relation at each point of a submission that is alone.
SubmissionInv ==
  \A c \in Requesters :
    req[c].op = "createRelationBalances" /\ (\A d \in Requesters \ {c} : d \in req[c].before) =>
      /\ req[c].pc = "save" => tab.balances = {}
      /\ req[c].pc = "ok" => tab.balances = {<<c, b>> : b \in req[c].on}

LEMMA SubmissionStep ==
  ASSUME CallsInv, SubmissionInv, [RequestsNext]_requestVars PROVE SubmissionInv'
<1>1. CASE UNCHANGED requestVars BY <1>1 DEF requestVars, SubmissionInv
<1>2. ASSUME NEW e \in Requesters, ResetExpires(e) PROVE SubmissionInv'
  BY <1>2, ExpiresFrame DEF CallsInv, SubmissionInv, Untouched, TableNames
<1>3. ASSUME NEW e \in Requesters, RequestStep(e), ~ResetExpires(e), NEW c \in Requesters,
             req'[c].op = "createRelationBalances",
             \A d \in Requesters \ {c} : d \in req'[c].before,
             req'[c].pc \in {"save", "ok"}
      PROVE  /\ req'[c].pc = "save" => tab'.balances = {}
             /\ req'[c].pc = "ok" => tab'.balances = {<<c, b>> : b \in req'[c].on}
  <2>1. CASE Receive(e)
    <3>1. c # e BY <2>1, <1>3, ReceiveFrame DEF CallsInv
    <3>2. req'[c] = req[c] BY <3>1, <2>1, ReceiveFrame DEF CallsInv
    <3>3. e = c BY <1>3, <3>2, Alone
    <3> QED BY <3>1, <3>3
  <2>2. CASE Stays(e)
    <3>1. req'[c].before = req[c].before BY <2>2 DEF Stays
    <3>2. e = c BY <1>3, <3>1, Alone
    <3>3. ~Fail(c) BY <1>3, FailFrame DEF CallsInv
    <3>4. ~StyleStep(c) /\ ~NamedStep(c)
      BY <1>3, StyleFrame, NamedFrame DEF CallsInv, StyleOps, NamedOps
    <3>5. ~AccountStep(c)
      BY <1>3, AccountFrame DEF CallsInv, AccountOwn, AccountOps, UserOps, TokenOps, RowSavers
    <3>6. TemplateStep(c)
      BY <1>3, <2>2, <3>2, <3>3, <3>4, <3>5 DEF RequestStep, Receive, Stays
    <3>7. req[c].op = "createRelationBalances" BY <1>3, <3>6, TemplateFrame DEF CallsInv
    <3>8. CASE removeAllRelationBalancesByRelation(c)
      BY <3>8, ToShape DEF CallsInv, Shape, TableNames, removeAllRelationBalancesByRelation
    <3>9. CASE createRelationBalances(c)
      <4>1. /\ tab'.balances = tab.balances \cup {<<c, b>> : b \in req[c].on} /\ To(c, "ok")
            /\ req[c].pc = "save"
        BY <3>9 DEF createRelationBalances, Asks, Target, CallsInv, Shape, TableNames
      <4>2. tab.balances = {} BY <1>3, <3>1, <3>7, <4>1 DEF SubmissionInv
      <4>3. req'[c].pc = "ok" /\ req'[c].on = req[c].on BY <4>1, ToShape DEF CallsInv
      <4> QED BY <4>1, <4>2, <4>3
    <3> QED
      BY <3>6, <3>7, <3>8, <3>9 DEF TemplateStep, createRelationBalance, SaveRelationStage,
         SaveStageParameter, ReadRelation, findCompleteRelationChain, Asks
  <2> QED BY <1>3, <2>1, <2>2, Moves DEF CallsInv
<1> QED BY <1>1, <1>2, <1>3 DEF RequestsNext, SubmissionInv

\* A submission of balances that is not overlapped replaces those that were
\* there, for any relation and whatever else is asked for.
THEOREM SubmissionsReplace == ServicesSpec => []SubmissionReplaces
<1>1. RequestsInit => SubmissionInv BY CallsBegin DEF SubmissionInv
<1>2. SubmissionInv => SubmissionReplaces
  BY DEF SubmissionInv, SubmissionReplaces, IsLast, Answered, Target
<1> QED BY <1>1, <1>2, SubmissionStep, CallsInvariance, RequestsRun, PTL DEF RequestsSpec

AllParametersOf(s) == {<<s, r>> : r \in Rules}

\* What there is of a stage whose submission has come so far: its parameters but
\* those that are still to be saved.
StageInv ==
  /\ tab.parameters \subseteq Requesters \X Rules
  /\ \A s \in Requesters : req[s].op = "createRelationStages" /\ req[s].pc \in {"parameters", "ok"} =>
       /\ s \in tab.stages
       /\ \A r \in Rules : r \in req[s].todo \/ <<s, r>> \in tab.parameters
       /\ req[s].todo \subseteq Rules /\ (req[s].pc = "ok" => req[s].todo = {})

\* A reader that began after it has the stage before it or has read all of it.
ReaderInv ==
  \A c, s \in Requesters :
    req[c].op = "findCompleteRelationChain" /\ s \in req[c].before
    /\ req[s].op = "createRelationStages" /\ req[s].pc = "ok" =>
         /\ req[c].pc = "stages" => s \in req[c].todo \/ <<s, AllParametersOf(s)>> \in req[c].seen
         /\ req[c].pc = "ok" => <<s, AllParametersOf(s)>> \in req[c].seen

\* What the handlers of the templates do to stages, parameters and local variables.
LEMMA TemplateEffect ==
  ASSUME Shape, NEW c \in Requesters, TemplateStep(c)
  PROVE  \/ /\ tab'.stages = tab.stages /\ tab'.parameters = tab.parameters
            /\ req[c].op \in {"createRelationBalances", "createRelationBalance"}
         \/ /\ req[c].op = "createRelationStages" /\ req[c].pc = "start" /\ req'[c].pc = "parameters"
            /\ tab'.stages = tab.stages \cup {c} /\ tab'.parameters = tab.parameters
            /\ req'[c].todo = Rules
         \/ /\ req[c].op = "createRelationStages" /\ req[c].pc = "parameters"
            /\ \E r \in req[c].todo :
                 /\ tab'.parameters = tab.parameters \cup {<<c, r>>} /\ tab'.stages = tab.stages
                 /\ req'[c].todo = req[c].todo \ {r}
                 /\ req'[c].pc = IF req[c].todo = {r} THEN "ok" ELSE "parameters"
         \/ /\ req[c].op = "findCompleteRelationChain" /\ req[c].pc = "start" /\ tab' = tab
            /\ req'[c].todo = tab.stages /\ req'[c].pc = IF tab.stages = {} THEN "ok" ELSE "stages"
         \/ /\ req[c].op = "findCompleteRelationChain" /\ req[c].pc = "stages" /\ tab' = tab
            /\ \E s \in req[c].todo :
                 /\ req'[c].todo = req[c].todo \ {s}
                 /\ req'[c].seen = req[c].seen \cup {<<s, {p \in tab.parameters : p[1] = s}>>}
                 /\ req'[c].pc = IF req[c].todo = {s} THEN "ok" ELSE "stages"
<1>1. CASE removeAllRelationBalancesByRelation(c)
  BY <1>1 DEF Shape, TableNames, removeAllRelationBalancesByRelation, Asks
<1>2. CASE createRelationBalances(c) BY <1>2 DEF Shape, TableNames, createRelationBalances, Asks
<1>3. CASE createRelationBalance(c) BY <1>3 DEF Shape, TableNames, createRelationBalance, Asks
<1>4. CASE SaveRelationStage(c)
  <2>1. tab'.stages = tab.stages \cup {c} /\ tab'.parameters = tab.parameters
    BY <1>4 DEF Shape, TableNames, SaveRelationStage
  <2>2. ToWith(c, "parameters", [req[c] EXCEPT !.todo = Rules]) BY <1>4 DEF SaveRelationStage
  <2>3. req'[c].todo = Rules /\ req'[c].pc = "parameters"
    BY <2>2 DEF ToWith, Shape, CallFields
  <2> QED BY <1>4, <2>1, <2>3 DEF SaveRelationStage, Asks
<1>5. CASE SaveStageParameter(c)
  <2>1. PICK r \in req[c].todo :
          /\ tab' = [tab EXCEPT !.parameters = @ \cup {<<c, r>>}]
          /\ ToWith(c, IF req[c].todo = {r} THEN "ok" ELSE "parameters",
                    [req[c] EXCEPT !.todo = req[c].todo \ {r}])
    BY <1>5 DEF SaveStageParameter, Shape, CallFields
  <2>2. tab'.parameters = tab.parameters \cup {<<c, r>>} /\ tab'.stages = tab.stages
    BY <2>1 DEF Shape, TableNames
  <2>3. /\ req'[c].todo = req[c].todo \ {r}
        /\ req'[c].pc = IF req[c].todo = {r} THEN "ok" ELSE "parameters"
    BY <2>1 DEF ToWith, Shape, CallFields
  <2> QED BY <1>5, <2>2, <2>3 DEF SaveStageParameter, Asks
<1>6. CASE ReadRelation(c)
  <2>1. ToWith(c, IF tab.stages = {} THEN "ok" ELSE "stages", [req[c] EXCEPT !.todo = tab.stages])
    BY <1>6 DEF ReadRelation
  <2>2. req'[c].todo = tab.stages /\ req'[c].pc = IF tab.stages = {} THEN "ok" ELSE "stages"
    BY <2>1 DEF ToWith, Shape, CallFields
  <2> QED BY <1>6, <2>2 DEF ReadRelation, Asks
<1>7. CASE findCompleteRelationChain(c)
  <2>1. PICK s \in req[c].todo :
          ToWith(c, IF req[c].todo = {s} THEN "ok" ELSE "stages",
              [req[c] EXCEPT !.todo = @ \ {s}, !.seen = @ \cup {<<s, {p \in tab.parameters : p[1] = s}>>}])
    BY <1>7 DEF findCompleteRelationChain
  <2> DEFINE change == [req[c] EXCEPT !.todo = @ \ {s}, !.seen = @ \cup {<<s, {p \in tab.parameters : p[1] = s}>>}]
  <2>2. /\ DOMAIN change = CallFields /\ change.todo = req[c].todo \ {s}
        /\ change.seen = req[c].seen \cup {<<s, {p \in tab.parameters : p[1] = s}>>}
    BY DEF Shape, CallFields
  <2>3. ToWith(c, IF req[c].todo = {s} THEN "ok" ELSE "stages", change) BY <2>1
  <2> HIDE DEF change
  <2>4. /\ req'[c].pc = (IF req[c].todo = {s} THEN "ok" ELSE "stages")
        /\ req'[c].todo = change.todo /\ req'[c].seen = change.seen
    BY <2>2, <2>3, ToWithShape
  <2> QED BY <1>7, <2>2, <2>4 DEF findCompleteRelationChain, Asks
<1> QED BY <1>1, <1>2, <1>3, <1>4, <1>5, <1>6, <1>7 DEF TemplateStep

\* A step outside the templates' handlers moves no call that is in one, but to
\* its failure or to its beginning.
LEMMA TemplatesRest ==
  ASSUME CallsInv, NEW e \in Requesters, RequestStep(e), ~TemplateStep(e)
  PROVE  /\ tab'.stages = tab.stages /\ tab'.parameters = tab.parameters /\ tab'.balances = tab.balances
         /\ \A c \in Requesters :
              req'[c].op \in TemplateOps =>
                \/ req'[c] = req[c]
                \/ /\ c = e /\ req'[c].pc \in {"error", "start"} /\ req'[c].op = req[c].op
<1>1. CASE Receive(e) BY <1>1, ReceiveFrame DEF CallsInv
<1>2. CASE Fail(e) BY <1>2, FailFrame DEF CallsInv, Stays
<1>3. CASE ResetExpires(e) BY <1>3, ExpiresFrame DEF CallsInv, Untouched, TableNames
<1>4. CASE StyleStep(e)
  BY <1>4, StyleFrame DEF CallsInv, Stays, Untouched, TableNames, StyleOps, TemplateOps
<1>5. CASE NamedStep(e)
  BY <1>5, NamedFrame DEF CallsInv, Stays, Untouched, TableNames, NamedOps, TemplateOps
<1>6. CASE AccountStep(e)
  BY <1>6, AccountFrame DEF CallsInv, AccountOwn, Stays, Untouched, AccountOps, UserOps, TokenOps,
     RowSavers, TemplateOps
<1> QED BY <1>1, <1>2, <1>3, <1>4, <1>5, <1>6 DEF RequestStep

LEMMA StageStep ==
  ASSUME CallsInv, StageInv, [RequestsNext]_requestVars PROVE StageInv'
<1>1. CASE UNCHANGED requestVars BY <1>1 DEF requestVars, StageInv
<1>2. ASSUME NEW e \in Requesters, RequestStep(e), ~TemplateStep(e) PROVE StageInv'
  BY <1>2, TemplatesRest DEF StageInv, TemplateOps
<1>3. ASSUME NEW e \in Requesters, TemplateStep(e) PROVE StageInv'
  <2>1. /\ \A d \in Requesters : d # e => req'[d] = req[d]
        /\ req'[e].op = req[e].op
    BY <1>3, TemplateFrame DEF CallsInv, Stays
  <2>2. CASE tab'.stages = tab.stages /\ tab'.parameters = tab.parameters /\ req[e].op # "createRelationStages"
    BY <2>1, <2>2 DEF StageInv
  <2>3. CASE /\ tab'.stages = tab.stages \cup {e} /\ tab'.parameters = tab.parameters
             /\ req'[e].todo = Rules /\ req'[e].pc = "parameters"
    BY <2>1, <2>3 DEF StageInv
  <2>4. CASE /\ req[e].op = "createRelationStages" /\ req[e].pc = "parameters"
             /\ \E r \in req[e].todo :
                  /\ tab'.parameters = tab.parameters \cup {<<e, r>>} /\ tab'.stages = tab.stages
                  /\ req'[e].todo = req[e].todo \ {r}
                  /\ req'[e].pc = IF req[e].todo = {r} THEN "ok" ELSE "parameters"
    BY <2>1, <2>4 DEF StageInv
  <2> QED BY <1>3, <2>2, <2>3, <2>4, TemplateEffect DEF CallsInv
<1> QED BY <1>1, <1>2, <1>3 DEF RequestsNext

LEMMA ReaderStep ==
  ASSUME CallsInv, StageInv, ReaderInv, [RequestsNext]_requestVars PROVE ReaderInv'
<1>1. CASE UNCHANGED requestVars BY <1>1 DEF requestVars, ReaderInv
<1>2. ASSUME NEW e \in Requesters, RequestStep(e),
             NEW c \in Requesters, NEW s \in Requesters,
             req'[c].op = "findCompleteRelationChain", s \in req'[c].before,
             req'[s].op = "createRelationStages", req'[s].pc = "ok", req'[c].pc \in {"stages", "ok"}
      PROVE  /\ req'[c].pc = "stages" => s \in req'[c].todo \/ <<s, AllParametersOf(s)>> \in req'[c].seen
             /\ req'[c].pc = "ok" => <<s, AllParametersOf(s)>> \in req'[c].seen
  <2>1. req'[c].before = req[c].before /\ s \in req[c].before
    BY <1>2, Moves, ReceiveFrame DEF CallsInv, Stays
  <2>2. req[s].pc \in Over /\ s # c BY <2>1 DEF CallsInv, OrderInv
  <2>3. req'[s] = req[s] BY <1>2, <2>2, Moves, ReceiveFrame DEF CallsInv, Stays, Over
  <2>4. CASE req'[c] = req[c] BY <1>2, <2>1, <2>3, <2>4 DEF ReaderInv
  <2>5. CASE req'[c] # req[c]
    <3>1. e = c BY <1>2, <2>5, Moves, ReceiveFrame DEF CallsInv, Stays
    <3>2. TemplateStep(c) BY <1>2, <2>5, <3>1, TemplatesRest DEF TemplateOps
    <3>3. req[c].op = "findCompleteRelationChain" BY <1>2, <3>2, TemplateFrame DEF CallsInv
    <3>4. s \in tab.stages /\ {p \in tab.parameters : p[1] = s} = AllParametersOf(s)
      BY <1>2, <2>3 DEF StageInv, AllParametersOf
    <3>5. CASE /\ req[c].pc = "start" /\ req'[c].todo = tab.stages
               /\ req'[c].pc = IF tab.stages = {} THEN "ok" ELSE "stages"
      BY <3>4, <3>5
    <3>6. CASE /\ req[c].pc = "stages"
               /\ \E t \in req[c].todo :
                    /\ req'[c].todo = req[c].todo \ {t}
                    /\ req'[c].seen = req[c].seen \cup {<<t, {p \in tab.parameters : p[1] = t}>>}
                    /\ req'[c].pc = IF req[c].todo = {t} THEN "ok" ELSE "stages"
      <4>1. PICK t \in req[c].todo :
              /\ req'[c].todo = req[c].todo \ {t}
              /\ req'[c].seen = req[c].seen \cup {<<t, {p \in tab.parameters : p[1] = t}>>}
              /\ req'[c].pc = IF req[c].todo = {t} THEN "ok" ELSE "stages"
        BY <3>6
      <4>2. s \in req[c].todo \/ <<s, AllParametersOf(s)>> \in req[c].seen
        BY <1>2, <2>1, <2>3, <3>3, <3>6 DEF ReaderInv
      <4> QED BY <3>4, <4>1, <4>2
    <3> QED BY <3>2, <3>3, <3>5, <3>6, TemplateEffect DEF CallsInv
  <2> QED BY <2>4, <2>5
<1>3. ASSUME NEW e \in Requesters, RequestStep(e) PROVE ReaderInv'
  <2> SUFFICES ASSUME NEW c \in Requesters, NEW s \in Requesters,
                      req'[c].op = "findCompleteRelationChain", s \in req'[c].before,
                      req'[s].op = "createRelationStages", req'[s].pc = "ok"
               PROVE  /\ req'[c].pc = "stages" => s \in req'[c].todo \/ <<s, AllParametersOf(s)>> \in req'[c].seen
                      /\ req'[c].pc = "ok" => <<s, AllParametersOf(s)>> \in req'[c].seen
    BY DEF ReaderInv, AllParametersOf
  <2> QED BY <1>2, <1>3
<1> QED BY <1>1, <1>3 DEF RequestsNext

\* A chain that is read has all parameters of every stage that was answered when
\* the reading began, for any stages and rules.
THEOREM ChainsAreWhole == ServicesSpec => []ChainIsWhole
<1>1. ASSUME RequestsInit PROVE StageInv /\ ReaderInv
  <2>1. tab.parameters = {} /\ \A c \in Requesters : req[c].pc \in {"new", "error"} BY <1>1, CallsBegin
  <2>2. StageInv BY <2>1 DEF StageInv
  <2>3. ReaderInv BY <2>1 DEF ReaderInv
  <2> QED BY <2>2, <2>3
<1>2. ReaderInv => ChainIsWhole BY DEF ReaderInv, ChainIsWhole, Answered, AllParametersOf
<1> QED BY <1>1, <1>2, StageStep, ReaderStep, CallsInvariance, RequestsRun, PTL DEF RequestsSpec

(***************************************************************************)
(* The style of the mails.                                                 *)
(***************************************************************************)

StyleRow == [active : BOOLEAN, born : Nat]

StyleType ==
  /\ IsFiniteSet(DOMAIN tab.style) /\ DOMAIN tab.style # {}
  /\ tab.style \in [DOMAIN tab.style -> StyleRow]
  /\ \A c \in Requesters : req[c].op \in StyleOps =>
       req[c].on \in DOMAIN tab.style /\ req[c].seen \subseteq StyleRow

\* The styles at each point of an activation that is alone.
ActivationInv ==
  \A c \in Requesters : req[c].op = "setActiveStyle" /\ (\A d \in Requesters \ {c} : d \in req[c].before) =>
    /\ req[c].pc \in {"find", "save"} => \A s \in DOMAIN tab.style : ~tab.style[s].active
    /\ req[c].pc = "save" => req[c].seen = {tab.style[req[c].on]} /\ Exists(req[c].on)
    /\ req[c].pc = "ok" => ActiveStyles = {req[c].on}

\* A finite set of numbers has a largest.
LEMMA MaxIsNat ==
  ASSUME NEW D, IsFiniteSet(D), D # {}, NEW f \in [D -> Nat]
  PROVE  Max({f[s] : s \in D}) \in Nat
<1> DEFINE S == {f[s] : s \in D}
           Larger(x) == {y \in S : y > x}
           T == {Larger(x) : x \in S}
           R == StrictSubsetOrdering(S)
<1>1. S \subseteq Nat /\ S # {} OBVIOUS
<1>2. IsFiniteSet(S)
  <2>1. f \in Surjection(D, S) BY DEF Surjection
  <2> HIDE DEF S
  <2> QED BY <2>1, FS_Surjection
<1>3. T \subseteq FiniteSubsetsOf(S) /\ T # {}
  <2>1. \A x \in S : Larger(x) \in SUBSET S OBVIOUS
  <2>2. FiniteSubsetsOf(S) = SUBSET S BY <1>2, FS_FiniteSubsetsOfFinite
  <2>3. T \subseteq SUBSET S BY <2>1
  <2>4. T # {} BY <1>1
  <2> HIDE DEF T, S
  <2> QED BY <2>2, <2>3, <2>4, Zenon
<1>4. \E x \in T : \A y \in T : ~(<<y, x>> \in R)
  <2>1. IsWellFoundedOn(R, FiniteSubsetsOf(S)) BY FS_StrictSubsetOrderingWellFounded
  <2> HIDE DEF T, R, S
  <2> QED BY <1>3, <2>1, WFMin
<1>5. PICK x \in S : \A y \in S : <<Larger(y), Larger(x)>> \notin R BY <1>4
<1>6. \A y \in S : x >= y
  <2> SUFFICES ASSUME NEW y \in S, ~(x >= y) PROVE FALSE
    OBVIOUS
  <2>1. x \in Nat /\ y \in Nat /\ y > x BY <1>1
  <2>2. Larger(y) \subseteq Larger(x)
    <3> SUFFICES ASSUME NEW z \in S, z > y PROVE z > x
      OBVIOUS
    <3>1. z \in Nat BY <1>1
    <3> QED BY <2>1, <3>1
  <2>3. y \in Larger(x) /\ y \notin Larger(y)
    <3> HIDE DEF S
    <3> QED BY <2>1
  <2>4. Larger(y) \in SUBSET S /\ Larger(x) \in SUBSET S OBVIOUS
  <2>5. <<Larger(y), Larger(x)>> \in R
    <3> HIDE DEF S, Larger
    <3> QED BY <2>2, <2>3, <2>4 DEF StrictSubsetOrdering
  <2> QED BY <2>5, <1>5
<1>7. Max(S) \in S
  <2> HIDE DEF S
  <2> QED BY <1>6 DEF Max
<1> QED BY <1>1, <1>7

\* Every handler of the styles writes rows of the table's form.
LEMMA StyleTypeStep ==
  ASSUME CallsInv, StyleType, [RequestsNext]_requestVars PROVE StyleType'
<1>1. CASE UNCHANGED requestVars BY <1>1 DEF requestVars, StyleType
<1>2. ASSUME NEW e \in Requesters, RequestStep(e), ~StyleStep(e) PROVE StyleType'
  <2>1. tab'.style = tab.style
    BY <1>2, ReceiveFrame, FailFrame, ExpiresFrame, NamedFrame, TemplateFrame, AccountFrame
       DEF RequestStep, CallsInv, AccountOwn, Untouched, TableNames
  <2>2. \A c \in Requesters : req'[c].op \in StyleOps =>
          req'[c].op = req[c].op /\ req'[c].on = req[c].on /\ req'[c].seen = req[c].seen
    <3> SUFFICES ASSUME NEW c \in Requesters, req'[c].op \in StyleOps
                 PROVE  req'[c].op = req[c].op /\ req'[c].on = req[c].on /\ req'[c].seen = req[c].seen
      OBVIOUS
    <3>1. CASE Receive(e) BY <3>1, ReceiveFrame DEF CallsInv
    <3>2. CASE Fail(e) BY <3>2, ToShape DEF CallsInv, Fail
    <3>3. CASE ResetExpires(e) BY <3>3, ExpiresFrame DEF CallsInv
    <3>4. CASE NamedStep(e) BY <3>4, NamedFrame DEF CallsInv, Stays, NamedOps, StyleOps
    <3>5. CASE TemplateStep(e) BY <3>5, TemplateFrame DEF CallsInv, Stays, TemplateOps, StyleOps
    <3>6. CASE AccountStep(e)
      BY <3>6, AccountFrame DEF CallsInv, AccountOwn, Stays, AccountOps, UserOps, TokenOps, RowSavers, StyleOps
    <3> QED BY <1>2, <3>1, <3>2, <3>3, <3>4, <3>5, <3>6 DEF RequestStep
  <2> QED BY <2>1, <2>2 DEF StyleType
<1>3. ASSUME NEW e \in Requesters, StyleStep(e) PROVE StyleType'
  <2>0. /\ \A d \in Requesters : d # e => req'[d] = req[d]
        /\ req'[e].op = req[e].op /\ req'[e].on = req[e].on /\ req[e].op \in StyleOps
        /\ req[e].on \in DOMAIN tab.style
    BY <1>3, StyleFrame DEF CallsInv, Stays, StyleType
  <2>1. ASSUME NEW row \in StyleRow, SetStyle(req[e].on, row), req'[e].seen = req[e].seen PROVE StyleType'
    <3>1. tab'.style = [tab.style EXCEPT ![req[e].on] = row]
      BY <2>1 DEF SetStyle, CallsInv, Shape, TableNames
    <3> QED BY <2>0, <2>1, <3>1 DEF StyleType
  <2>2. CASE CreateStyle(e)
    <3>1. PICK active \in BOOLEAN : SetStyle(req[e].on,
            [active |-> active, born |-> 1 + Max({tab.style[s].born : s \in DOMAIN tab.style})])
      BY <2>2 DEF CreateStyle, Target
    <3> DEFINE f == [s \in DOMAIN tab.style |-> tab.style[s].born]
    <3>2. f \in [DOMAIN tab.style -> Nat] BY DEF StyleType, StyleRow
    <3>3. Max({f[s] : s \in DOMAIN tab.style}) \in Nat
      <4> HIDE DEF f
      <4> QED BY <3>2, MaxIsNat DEF StyleType
    <3>4. {f[s] : s \in DOMAIN tab.style} = {tab.style[s].born : s \in DOMAIN tab.style} OBVIOUS
    <3>5. 1 + Max({tab.style[s].born : s \in DOMAIN tab.style}) \in Nat
      <4>1. Max({f[s] : s \in DOMAIN tab.style}) = Max({tab.style[s].born : s \in DOMAIN tab.style})
        <5> HIDE DEF f
        <5> QED BY <3>4
      <4>2. Max({tab.style[s].born : s \in DOMAIN tab.style}) \in Nat BY <3>3, <4>1, Zenon
      <4> QED BY <4>2
    <3>6. [active |-> active, born |-> 1 + Max({tab.style[s].born : s \in DOMAIN tab.style})] \in StyleRow
      BY <3>5 DEF StyleRow
    <3> QED BY <2>1, <2>2, <3>1, <3>6, ToShape DEF CreateStyle, CallsInv
  <2>3. CASE DeactivateAll(e)
    <3>1. tab'.style = [s \in DOMAIN tab.style |-> [tab.style[s] EXCEPT !.active = FALSE]]
      BY <2>3 DEF DeactivateAll, CallsInv, Shape, TableNames
    <3>2. req'[e].seen = req[e].seen BY <2>3, ToShape DEF DeactivateAll, CallsInv
    <3>3. \A s \in DOMAIN tab.style : [tab.style[s] EXCEPT !.active = FALSE] \in StyleRow
      BY DEF StyleType, StyleRow
    <3>4. DOMAIN tab'.style = DOMAIN tab.style BY <3>1
    <3>5. tab'.style \in [DOMAIN tab.style -> StyleRow] BY <3>1, <3>3
    <3> QED BY <2>0, <3>2, <3>4, <3>5 DEF StyleType
  <2>4. CASE FindStyle(e)
    <3>1. tab' = tab /\ req'[e].seen \in {req[e].seen, {tab.style[req[e].on]}}
      <4>1. CASE ToWith(e, "save", [req[e] EXCEPT !.seen = {tab.style[Target(e)]}])
        BY <2>4, <4>1 DEF FindStyle, ToWith, Target, CallsInv, Shape, CallFields
      <4>2. CASE To(e, "error") BY <2>4, <4>2, ToShape DEF FindStyle, CallsInv
      <4> QED BY <2>4, <4>1, <4>2 DEF FindStyle
    <3> QED BY <2>0, <3>1 DEF StyleType
  <2>5. CASE SaveStyle(e)
    <3>1. PICK row \in req[e].seen, active \in BOOLEAN : SetStyle(req[e].on, [row EXCEPT !.active = active])
      BY <2>5 DEF SaveStyle, Target
    <3>2. row \in StyleRow BY <2>0 DEF StyleType
    <3>3. [row EXCEPT !.active = active] \in StyleRow BY <3>2 DEF StyleRow
    <3> QED BY <2>1, <2>5, <3>1, <3>3, ToShape DEF SaveStyle, CallsInv
  <2>6. CASE RemoveStyle(e)
    <3>1. [active |-> FALSE, born |-> 0] \in StyleRow BY DEF StyleRow
    <3> QED BY <2>1, <2>6, <3>1, ToShape DEF RemoveStyle, Target, CallsInv
  <2> QED BY <1>3, <2>2, <2>3, <2>4, <2>5, <2>6 DEF StyleStep
<1> QED BY <1>1, <1>2, <1>3 DEF RequestsNext

LEMMA ActivationStep ==
  ASSUME CallsInv, StyleType, ActivationInv, [RequestsNext]_requestVars PROVE ActivationInv'
<1>1. CASE UNCHANGED requestVars
  BY <1>1 DEF requestVars, ActivationInv, ActiveStyles, Exists
<1>2. ASSUME NEW e \in Requesters, ResetExpires(e) PROVE ActivationInv'
  <2>1. req' = req /\ tab'.style = tab.style
    BY <1>2, ExpiresFrame DEF CallsInv, Untouched, TableNames
  <2> QED BY <2>1 DEF ActivationInv, ActiveStyles, Exists
<1>3. ASSUME NEW e \in Requesters, RequestStep(e), ~ResetExpires(e), NEW c \in Requesters,
             req'[c].op = "setActiveStyle",
             \A d \in Requesters \ {c} : d \in req'[c].before,
             req'[c].pc \in {"find", "save", "ok"}
      PROVE  /\ req'[c].pc \in {"find", "save"} => \A s \in DOMAIN tab'.style : ~tab'.style[s].active
             /\ req'[c].pc = "save" => (req'[c].seen = {tab'.style[req'[c].on]} /\ tab'.style[req'[c].on].born > 0)
             /\ req'[c].pc = "ok" =>
                  {s \in DOMAIN tab'.style : tab'.style[s].born > 0 /\ tab'.style[s].active} = {req'[c].on}
  <2>1. CASE Receive(e)
    <3>1. c # e BY <2>1, <1>3, ReceiveFrame DEF CallsInv
    <3>2. req'[c] = req[c] BY <3>1, <2>1, ReceiveFrame DEF CallsInv
    <3>3. e = c BY <1>3, <3>2, Alone
    <3> QED BY <3>1, <3>3
  <2>2. CASE Stays(e)
    <3>1. req'[c].before = req[c].before BY <2>2 DEF Stays
    <3>2. e = c BY <1>3, <3>1, Alone
    <3>3. ~Fail(c) BY <1>3, FailFrame DEF CallsInv
    <3>4. ~TemplateStep(c) /\ ~NamedStep(c)
      BY <1>3, TemplateFrame, NamedFrame DEF CallsInv, TemplateOps, NamedOps
    <3>5. ~AccountStep(c)
      BY <1>3, AccountFrame DEF CallsInv, AccountOwn, AccountOps, UserOps, TokenOps, RowSavers
    <3>6. StyleStep(c)
      BY <1>3, <2>2, <3>2, <3>3, <3>4, <3>5 DEF RequestStep, Receive, Stays
    <3>7. req[c].op = "setActiveStyle" /\ req'[c].on = req[c].on /\ req[c].on \in DOMAIN tab.style
      BY <1>3, <3>2, <2>2, <3>6, StyleFrame DEF CallsInv, Stays, StyleType, StyleOps
    <3>8. CASE DeactivateAll(c)
      <4>1. /\ tab'.style = [s \in DOMAIN tab.style |-> [tab.style[s] EXCEPT !.active = FALSE]]
            /\ req'[c].pc = "find"
        BY <3>8, ToShape DEF DeactivateAll, CallsInv, Shape, TableNames
      <4>2. \A s \in DOMAIN tab.style : tab.style[s] \in StyleRow BY DEF StyleType
      <4>3. \A s \in DOMAIN tab'.style : ~tab'.style[s].active BY <4>1, <4>2 DEF StyleRow
      <4> QED BY <4>1, <4>3
    <3>9. CASE FindStyle(c)
      <4>1. /\ req[c].pc = "find" /\ tab' = tab /\ Exists(req[c].on)
            /\ ToWith(c, "save", [req[c] EXCEPT !.seen = {tab.style[req[c].on]}])
        BY <1>3, <3>7, <3>9, ToShape DEF FindStyle, CallsInv, Asks, Target
      <4>2. req'[c].pc = "save" /\ req'[c].seen = {tab.style[req[c].on]}
        BY <4>1 DEF ToWith, CallsInv, Shape, CallFields
      <4>3. \A s \in DOMAIN tab.style : ~tab.style[s].active
        BY <1>3, <3>1, <3>7, <4>1 DEF ActivationInv
      <4> QED BY <3>7, <4>1, <4>2, <4>3 DEF Exists
    <3>10. CASE SaveStyle(c)
      <4>1. /\ req[c].pc = "save" /\ req'[c].pc = "ok"
        BY <3>10, ToShape DEF SaveStyle, CallsInv, Asks
      <4>2. PICK row \in req[c].seen : SetStyle(req[c].on, [row EXCEPT !.active = TRUE])
        BY <3>7, <3>10 DEF SaveStyle, Target
      <4>3. /\ \A s \in DOMAIN tab.style : ~tab.style[s].active
            /\ req[c].seen = {tab.style[req[c].on]} /\ tab.style[req[c].on].born > 0
        BY <1>3, <3>1, <3>7, <4>1 DEF ActivationInv, Exists
      <4>4. tab'.style = [tab.style EXCEPT ![req[c].on] = [tab.style[req[c].on] EXCEPT !.active = TRUE]]
        BY <4>2, <4>3 DEF SetStyle, CallsInv, Shape, TableNames
      <4>5. tab.style[req[c].on] \in StyleRow BY <3>7 DEF StyleType
      <4>6. /\ tab'.style[req[c].on].active /\ tab'.style[req[c].on].born > 0
            /\ DOMAIN tab'.style = DOMAIN tab.style
            /\ \A s \in DOMAIN tab.style \ {req[c].on} : ~tab'.style[s].active
        BY <3>7, <4>3, <4>4, <4>5 DEF StyleRow
      <4> QED BY <3>7, <4>1, <4>6
    <3>11. ~CreateStyle(c) /\ ~RemoveStyle(c) BY <3>7 DEF CreateStyle, RemoveStyle, Asks
    <3> QED BY <3>6, <3>8, <3>9, <3>10, <3>11 DEF StyleStep
  <2> QED BY <1>3, <2>1, <2>2, Moves DEF CallsInv
<1>4. ASSUME NEW e \in Requesters, RequestStep(e), ~ResetExpires(e) PROVE ActivationInv'
  BY <1>3, <1>4 DEF ActivationInv, ActiveStyles, Exists
<1> QED BY <1>1, <1>2, <1>4 DEF RequestsNext

\* After an activation that overlapped no other call the mails are written in its
\* style, for any styles and whatever was active or stopped half-way before.
THEOREM ActivationsShow == ServicesSpec => []LastActivationShows
<1>1. ASSUME RequestsInit PROVE StyleType /\ ActivationInv
  <2>1. ActivationInv BY <1>1, CallsBegin DEF ActivationInv
  <2>2. StyleType BY <1>1, CallsBegin DEF StyleType, StyleRow, Begins, StyleOps
  <2> QED BY <2>1, <2>2
<1>2. ASSUME StyleType, ActivationInv PROVE LastActivationShows
  <2> SUFFICES ASSUME NEW c \in Requesters, req[c].op = "setActiveStyle", IsLast(c)
               PROVE  findActiveStyle = {req[c].on}
    BY DEF LastActivationShows, Target
  <2>1. ActiveStyles = {req[c].on} BY <1>2 DEF ActivationInv, IsLast, Answered
  <2>2. tab.style[req[c].on].born \in Nat BY <1>2 DEF StyleType, StyleRow, StyleOps
  <2> QED BY <2>1, <2>2 DEF findActiveStyle
<1> QED
  BY <1>1, <1>2, StyleTypeStep, ActivationStep, CallsInvariance, RequestsRun, PTL DEF RequestsSpec

(***************************************************************************)
(* The reset of a password.                                                *)
(***************************************************************************)

\* The row of the reset that r asked for was written, or never will be.
IsPast(call) == call.op = "requestPasswordReset" /\ call.pc \in {"mail", "ok", "error"}
Past(r) == IsPast(req[r])

ResetType ==
  /\ DOMAIN tab.reset = Requesters
  /\ \A r \in Requesters : DOMAIN tab.reset[r] = {"user", "state"}
  /\ \A c \in Requesters : req[c].op \in TokenOps => req[c].on \in Requesters

\* A row is there only once it was asked for; what found it knows as much, and
\* who used it removed it.
ResetInv ==
  /\ \A r \in Requesters : tab.reset[r].state # "gone" => Past(r)
  /\ \A c \in Requesters : req[c].op = "completePasswordReset" =>
       /\ req[c].pc \in {"drop", "update", "remove", "ok"} => Past(req[c].on)
       /\ req[c].pc = "ok" => tab.reset[req[c].on].state = "gone"

\* Who begins after it was used does not come past the search for it.
SpentInv ==
  \A c, d \in Requesters :
    /\ req[c].op = "completePasswordReset" /\ req[d].op = "completePasswordReset"
    /\ req[c].on = req[d].on /\ d \in req[c].before /\ req[d].pc = "ok"
    => req[c].pc \in {"start", "error"}

\* What a step does to the rows of the resets and to those who use them.
LEMMA ResetEffect ==
  ASSUME CallsInv, ResetType, NEW e \in Requesters, RequestStep(e)
  PROVE  /\ \A c \in Requesters : c # e => req'[c] = req[c]
         /\ req'[e].op \in TokenOps \cup {"requestPasswordReset"} => req'[e].op = req[e].op
         /\ req'[e].on = req[e].on
         /\ Past(e) => IsPast(req'[e])
         /\ \/ ResetExpires(e) /\ req' = req
            \/ Receive(e) /\ tab' = tab
            \/ /\ req[e].op = "requestPasswordReset" /\ req[e].pc = "save"
               /\ req'[e].op = req[e].op /\ req'[e].pc = "mail"
               /\ tab'.reset = [tab.reset EXCEPT ![e] = [user |-> req[e].on, state |-> "live"]]
               /\ req'[e].before = req[e].before
            \/ /\ req[e].op = "completePasswordReset" /\ req[e].pc = "start" /\ tab' = tab
               /\ req'[e].pc \in {"error", "drop", "update"}
               /\ tab.reset[req[e].on].state = "gone" => req'[e].pc = "error"
               /\ req'[e].before = req[e].before
            \/ /\ req[e].op = "completePasswordReset" /\ req[e].pc = "update"
               /\ tab'.reset = tab.reset /\ req'[e].pc = "remove"
               /\ req'[e].before = req[e].before
            \/ /\ req[e].op = "completePasswordReset" /\ req[e].pc \in {"drop", "remove"}
               /\ tab'.reset = [tab.reset EXCEPT ![req[e].on].state = "gone"]
               /\ req'[e].pc = IF req[e].pc = "drop" THEN "error" ELSE "ok"
               /\ req'[e].before = req[e].before
            \/ /\ tab'.reset = tab.reset /\ req'[e].before = req[e].before
               /\ req'[e].op = "completePasswordReset" => req'[e].pc = "error"
<1>1. CASE ResetExpires(e) BY <1>1, ExpiresFrame DEF CallsInv, Past, IsPast
<1>2. CASE Receive(e) BY <1>2, ReceiveFrame DEF CallsInv, Past, IsPast
<1>3. CASE Fail(e) BY <1>3, FailFrame DEF CallsInv, Past, IsPast, Stays
<1>4. CASE StyleStep(e)
  BY <1>4, StyleFrame DEF CallsInv, Past, IsPast, Stays, Untouched, TableNames, StyleOps, TokenOps
<1>5. CASE NamedStep(e)
  BY <1>5, NamedFrame DEF CallsInv, Past, IsPast, Stays, Untouched, TableNames, NamedOps, TokenOps
<1>6. CASE TemplateStep(e)
  BY <1>6, TemplateFrame DEF CallsInv, Past, IsPast, Stays, Untouched, TemplateOps, TokenOps
<1>7. CASE AccountStep(e)
  <2>1. AccountOwn(e) BY <1>7, AccountFrame DEF CallsInv
  <2>2. /\ \A c \in Requesters : c # e => req'[c] = req[c]
        /\ req'[e].op \in TokenOps \cup {"requestPasswordReset"} => req'[e].op = req[e].op
        /\ req'[e].on = req[e].on /\ req'[e].before = req[e].before
    BY <2>1 DEF AccountOwn, Stays, TokenOps
  <2>3. CASE req[e].op = "completePasswordReset"
    <3>1. CASE FindReset(e)
      BY <2>2, <2>3, <3>1, ToShape DEF FindReset, CallsInv, Target, Asks, Past, IsPast
    <3>2. CASE completePasswordReset(e)
      BY <2>2, <2>3, <3>2, ToShape DEF completePasswordReset, CallsInv, Shape, TableNames, Asks, Past, IsPast
    <3>3. CASE RemoveReset(e)
      BY <2>2, <2>3, <3>3, ToShape DEF RemoveReset, CallsInv, Shape, TableNames, Target, Past, IsPast
    <3> QED
      BY <1>7, <2>3, <3>1, <3>2, <3>3 DEF AccountStep, FindDuplicate, CountUsers, SaveUser,
         StoreConfirmationToken, MailLink, resendConfirmationEmail, FindByConfirmationToken, confirmEmail,
         requestPasswordReset, SaveReset, changePassword, ReadUserRow, SaveUserRow, googleAuth, Asks, RowSavers
  <2>4. CASE req[e].op = "requestPasswordReset"
    <3>1. CASE requestPasswordReset(e)
      BY <2>2, <2>4, <3>1, ToShape DEF requestPasswordReset, CallsInv, Past, IsPast, Asks, TokenOps
    <3>2. CASE SaveReset(e)
      BY <2>2, <2>4, <3>2, ToShape DEF SaveReset, CallsInv, Shape, TableNames, Target, Past, IsPast, Asks
    <3>3. CASE MailLink(e)
      BY <2>2, <2>4, <3>3, ToShape DEF MailLink, CallsInv, Shape, TableNames, Past, IsPast
    <3> QED
      BY <1>7, <2>4, <3>1, <3>2, <3>3 DEF AccountStep, FindDuplicate, CountUsers, SaveUser,
         StoreConfirmationToken, resendConfirmationEmail, FindByConfirmationToken, confirmEmail, FindReset,
         completePasswordReset, RemoveReset, changePassword, ReadUserRow, SaveUserRow, googleAuth, Asks,
         RowSavers
  <2>5. CASE req[e].op \notin {"completePasswordReset", "requestPasswordReset"}
    <3>1. tab'.reset = tab.reset
      <4> USE DEF CallsInv, Shape, TableNames
      <4>1. ASSUME NEW u, NEW row, SetUser(u, row) PROVE tab'.reset = tab.reset BY <4>1 DEF SetUser
      <4>2. CASE StoreConfirmationToken(e) \/ MailLink(e) BY <4>2 DEF StoreConfirmationToken, MailLink
      <4>3. CASE changePassword(e) BY <4>3 DEF changePassword
      <4>4. CASE SaveUser(e) BY <4>1, <4>4 DEF SaveUser
      <4>5. CASE confirmEmail(e) BY <4>1, <4>5 DEF confirmEmail
      <4>6. CASE SaveUserRow(e) BY <4>1, <4>6 DEF SaveUserRow
      <4>7. CASE tab' = tab BY <4>7
      <4> QED
        BY <1>7, <2>5, <4>2, <4>3, <4>4, <4>5, <4>6, <4>7 DEF AccountStep, FindDuplicate, CountUsers,
           resendConfirmationEmail, FindByConfirmationToken, requestPasswordReset, SaveReset, FindReset,
           completePasswordReset, RemoveReset, ReadUserRow, googleAuth, Asks
    <3> QED BY <2>2, <2>5, <3>1 DEF Past, IsPast, TokenOps
  <2> QED BY <2>3, <2>4, <2>5
<1> QED BY <1>1, <1>2, <1>3, <1>4, <1>5, <1>6, <1>7 DEF RequestStep

LEMMA ResetStep ==
  ASSUME CallsInv, ResetType, ResetInv, [RequestsNext]_requestVars PROVE ResetType' /\ ResetInv'
<1>1. CASE UNCHANGED requestVars BY <1>1 DEF requestVars, ResetType, ResetInv, Past
<1>2. ASSUME NEW e \in Requesters, RequestStep(e) PROVE ResetType' /\ ResetInv'
  <2>1. /\ \A c \in Requesters : c # e => req'[c] = req[c]
        /\ req'[e].op \in TokenOps \cup {"requestPasswordReset"} => req'[e].op = req[e].op
        /\ req'[e].on = req[e].on
    BY <1>2, ResetEffect
  <2>2. \A r \in Requesters : Past(r) => IsPast(req'[r]) BY <1>2, <2>1, ResetEffect DEF Past
  <2>3. \A c \in Requesters : req'[c].op \in TokenOps => (req'[c].op = req[c].op /\ req'[c].on \in Requesters)
    BY <2>1 DEF ResetType
  <2>4. ASSUME tab'.reset = tab.reset,
               req'[e].op = "completePasswordReset" /\ req'[e].pc \in {"drop", "update", "remove", "ok"} =>
                 Past(req[e].on) /\ (req'[e].pc = "ok" => tab.reset[req[e].on].state = "gone")
        PROVE  ResetType' /\ ResetInv'
    <3>1. ResetType' BY <2>3, <2>4 DEF ResetType
    <3>2. \A c \in Requesters : req'[c].op = "completePasswordReset" =>
            /\ req'[c].pc \in {"drop", "update", "remove", "ok"} => IsPast(req'[req'[c].on])
            /\ req'[c].pc = "ok" => tab'.reset[req'[c].on].state = "gone"
      <4> SUFFICES ASSUME NEW c \in Requesters, req'[c].op = "completePasswordReset",
                          req'[c].pc \in {"drop", "update", "remove", "ok"}
                   PROVE  Past(req[c].on) /\ (req'[c].pc = "ok" => tab.reset[req[c].on].state = "gone")
        BY <2>1, <2>2, <2>3, <2>4 DEF TokenOps
      <4>1. CASE c = e BY <2>4, <4>1
      <4>2. CASE c # e BY <2>1, <4>2 DEF ResetInv
      <4> QED BY <4>1, <4>2
    <3>3. \A r \in Requesters : tab'.reset[r].state # "gone" => IsPast(req'[r]) BY <2>2, <2>4 DEF ResetInv
    <3> QED BY <3>1, <3>2, <3>3 DEF ResetInv, Past
  <2>5. CASE ResetExpires(e) /\ req' = req
    <3>1. tab.reset[e].state = "live" /\ tab'.reset = [tab.reset EXCEPT ![e].state = "expired"]
      BY <2>5, ExpiresFrame DEF ResetExpires, CallsInv
    <3>2. ResetType' BY <2>5, <3>1 DEF ResetType
    <3>3. /\ \A r \in Requesters : (tab'.reset[r].state = "gone") = (tab.reset[r].state = "gone")
      BY <3>1 DEF ResetType
    <3> QED BY <2>5, <3>2, <3>3 DEF ResetType, ResetInv, TokenOps, Past
  <2>6. CASE Receive(e) /\ tab' = tab
    <3>1. req'[e].pc = "start" BY <2>6, ReceiveFrame DEF CallsInv
    <3> QED BY <2>4, <2>6, <3>1
  <2>7. CASE /\ req[e].op = "requestPasswordReset" /\ req[e].pc = "save"
             /\ req'[e].op = req[e].op /\ req'[e].pc = "mail"
             /\ tab'.reset = [tab.reset EXCEPT ![e] = [user |-> req[e].on, state |-> "live"]]
    <3>1. req'[e].op \notin TokenOps
      BY <2>1, <2>7 DEF TokenOps
    <3>2. ResetType' BY <2>3, <2>7 DEF ResetType
    <3>3. tab.reset[e].state = "gone" /\ ~Past(e) BY <2>7 DEF Past, IsPast, ResetInv
    <3>4. \A c \in Requesters : req'[c].op = "completePasswordReset" =>
            /\ req'[c].pc \in {"drop", "update", "remove", "ok"} => IsPast(req'[req'[c].on])
            /\ req'[c].pc = "ok" => tab'.reset[req'[c].on].state = "gone"
      <4> SUFFICES ASSUME NEW c \in Requesters, req'[c].op = "completePasswordReset",
                          req'[c].pc \in {"drop", "update", "remove", "ok"}
                   PROVE  IsPast(req'[req'[c].on]) /\ (req'[c].pc = "ok" => tab'.reset[req'[c].on].state = "gone")
        OBVIOUS
      <4>1. c # e /\ req'[c] = req[c] BY <2>1, <3>1 DEF TokenOps
      <4>2. req[c].on \in Requesters BY <4>1 DEF ResetType, TokenOps
      <4>3. Past(req[c].on) /\ (req[c].pc = "ok" => tab.reset[req[c].on].state = "gone") /\ req[c].on # e
        BY <4>1, <3>3 DEF ResetInv
      <4> QED BY <2>2, <2>7, <4>1, <4>2, <4>3 DEF ResetType
    <3>5. IsPast(req'[e]) BY <2>7 DEF IsPast
    <3>6. \A r \in Requesters : tab'.reset[r].state # "gone" => IsPast(req'[r])
      BY <2>2, <2>7, <3>5 DEF ResetInv, ResetType
    <3> QED BY <3>2, <3>4, <3>6 DEF ResetInv, Past
  <2>8. CASE /\ req[e].op = "completePasswordReset" /\ req[e].pc = "start" /\ tab' = tab
             /\ req'[e].pc \in {"error", "drop", "update"}
             /\ tab.reset[req[e].on].state = "gone" => req'[e].pc = "error"
    <3>1. req[e].on \in Requesters BY <2>8 DEF ResetType, TokenOps
    <3> QED BY <2>4, <2>8, <3>1 DEF ResetInv
  <2>9. CASE /\ req[e].op = "completePasswordReset" /\ req[e].pc = "update"
             /\ tab'.reset = tab.reset /\ req'[e].pc = "remove"
    BY <2>4, <2>9 DEF ResetInv
  <2>10. CASE /\ req[e].op = "completePasswordReset" /\ req[e].pc \in {"drop", "remove"}
              /\ tab'.reset = [tab.reset EXCEPT ![req[e].on].state = "gone"]
              /\ req'[e].pc = IF req[e].pc = "drop" THEN "error" ELSE "ok"
    <3>1. ResetType' BY <2>3, <2>10 DEF ResetType
    <3>2. \A r \in Requesters : tab.reset[r].state = "gone" \/ r = req[e].on => tab'.reset[r].state = "gone"
      BY <2>10 DEF ResetType
    <3>3. \A r \in Requesters : tab'.reset[r].state # "gone" => IsPast(req'[r]) BY <2>2, <3>2 DEF ResetInv
    <3>4. ASSUME NEW c \in Requesters, req'[c].op = "completePasswordReset",
                 req'[c].pc \in {"drop", "update", "remove", "ok"}
          PROVE  IsPast(req'[req'[c].on]) /\ (req'[c].pc = "ok" => tab'.reset[req'[c].on].state = "gone")
      <4>1. req[c].on \in Requesters /\ req'[c].on = req[c].on BY <2>1, <2>3, <3>4 DEF TokenOps
      <4>2. CASE c = e BY <2>2, <2>10, <3>2, <3>4, <4>1, <4>2 DEF ResetInv
      <4>3. CASE c # e BY <2>1, <2>2, <3>2, <3>4, <4>1, <4>3 DEF ResetInv
      <4> QED BY <4>2, <4>3
    <3> QED BY <3>1, <3>3, <3>4 DEF ResetInv, Past
  <2>11. CASE /\ tab'.reset = tab.reset
              /\ req'[e].op = "completePasswordReset" => req'[e].pc = "error"
    BY <2>4, <2>11
  <2> QED BY <1>2, <2>5, <2>6, <2>7, <2>8, <2>9, <2>10, <2>11, ResetEffect
<1> QED BY <1>1, <1>2 DEF RequestsNext

LEMMA SpentStep ==
  ASSUME CallsInv, ResetType, ResetInv, SpentInv, [RequestsNext]_requestVars PROVE SpentInv'
<1>1. CASE UNCHANGED requestVars BY <1>1 DEF requestVars, SpentInv
<1>2. ASSUME NEW e \in Requesters, RequestStep(e),
             NEW c \in Requesters, NEW d \in Requesters,
             req'[c].op = "completePasswordReset", req'[d].op = "completePasswordReset",
             req'[c].on = req'[d].on, d \in req'[c].before, req'[d].pc = "ok"
      PROVE  req'[c].pc \in {"start", "error"}
  <2>1. /\ \A r \in Requesters : r # e => req'[r] = req[r]
        /\ req[c].op = "completePasswordReset" /\ req[d].op = "completePasswordReset"
        /\ req[c].on = req[d].on
    BY <1>2, ResetEffect DEF TokenOps
  <2>2. CASE Receive(e)
    BY <1>2, <2>1, <2>2, ReceiveFrame DEF CallsInv, SpentInv
  <2>3. CASE ~Receive(e)
    <3>1. d \in req[c].before BY <1>2, <2>3, Moves DEF CallsInv, Stays
    <3>2. req[d].pc \in Over /\ d # c BY <3>1 DEF CallsInv, OrderInv
    <3>3. req'[d] = req[d] BY <1>2, <2>3, <3>2, Moves DEF CallsInv, Stays
    <3>4. req[c].pc \in {"start", "error"} /\ tab.reset[req[c].on].state = "gone"
      BY <1>2, <2>1, <3>1, <3>3 DEF SpentInv, ResetInv
    <3>5. CASE e # c BY <2>1, <3>4, <3>5
    <3>6. CASE e = c BY <1>2, <2>1, <2>3, <3>4, <3>6, ResetEffect
    <3> QED BY <3>5, <3>6
  <2> QED BY <2>2, <2>3
<1>3. ASSUME NEW e \in Requesters, RequestStep(e) PROVE SpentInv' BY <1>2, <1>3 DEF SpentInv
<1> QED BY <1>1, <1>3 DEF RequestsNext

\* A mailed link to reset a password changes it for one call, or for calls that
\* overlapped, for any number of requests, links and users.
THEOREM LinksAreSpent == ServicesSpec => []ResetTokenIsSpent
<1>1. ASSUME RequestsInit PROVE ResetType /\ ResetInv /\ SpentInv
  <2>1. /\ \A c \in Requesters : req[c].pc \in {"new", "error"} /\ req[c].before = {} /\ Begins(req[c], tab)
        /\ tab.reset = [c \in Requesters |-> [user |-> "none", state |-> "gone"]]
    BY <1>1, CallsBegin
  <2>2. \A c \in Requesters : req[c].op \in TokenOps => req[c].on \in Requesters BY <2>1 DEF Begins
  <2>3. DOMAIN tab.reset = Requesters /\ \A r \in Requesters : tab.reset[r] = [user |-> "none", state |-> "gone"]
    BY <2>1
  <2>4. ResetType BY <2>2, <2>3 DEF ResetType
  <2>5. ResetInv BY <2>1, <2>3 DEF ResetInv
  <2>6. SpentInv BY <2>1 DEF SpentInv
  <2> QED BY <2>4, <2>5, <2>6
<1>2. ASSUME SpentInv PROVE ResetTokenIsSpent
  BY <1>2 DEF SpentInv, ResetTokenIsSpent, Overlap, Answered, Target
<1> QED BY <1>1, <1>2, ResetStep, SpentStep, CallsInvariance, RequestsRun, PTL DEF RequestsSpec

(***************************************************************************)
(* The first users.                                                        *)
(***************************************************************************)

RowFields == {"role", "confirmed", "token", "password", "google"}

\* Who is a user, and the rows the calls hold.
UserType ==
  /\ \A u \in DOMAIN tab.user : DOMAIN tab.user[u] = RowFields
  /\ \A c \in Requesters :
       /\ DOMAIN req[c].row = RowFields
       /\ req[c].op \in UserOps => req[c].on \in DOMAIN tab.user
       /\ req[c].op \in {"register", "googleAuth"} /\ req[c].pc = "save" => req[c].row.role \in {"admin", "user"}
       /\ req[c].op = "register" /\ req[c].pc \in {"token", "mail", "ok"} => IsUser(req[c].on)
       /\ req[c].op \in RowSavers /\ req[c].pc = "save" => req[c].row # NoUser /\ IsUser(req[c].on)

\* An update of columns other than the role.
KeepsRole ==
  /\ DOMAIN tab'.user = DOMAIN tab.user
  /\ \A u \in DOMAIN tab.user :
       /\ DOMAIN tab'.user[u] = RowFields /\ tab'.user[u].role = tab.user[u].role
       /\ IsUser(u) => tab'.user[u] # NoUser

\* What a step does to the users and to the calls about them.
Counts(e) ==
  /\ req[e].op = "register" /\ req[e].pc = "count" /\ tab' = tab
  /\ req'[e].op = "register" /\ req'[e].pc = "save" /\ DOMAIN req'[e].row = RowFields
  /\ req'[e].row.role = (IF Registered = {} THEN "admin" ELSE "user") /\ req'[e].row.token = "none"

Makes(e) ==
  /\ req[e].op \in {"register", "googleAuth"} /\ req[e].pc = "save" /\ ~IsUser(req[e].on)
  /\ tab'.user = [tab.user EXCEPT ![req[e].on] = req[e].row]
  /\ req'[e].op = req[e].op /\ req'[e].row = req[e].row /\ req'[e].pc \in {"token", "ok"}

Reads(e) ==
  /\ req[e].op \in UserOps /\ req'[e].op \in RowSavers /\ req'[e].pc \in {"save", "ok"} /\ tab' = tab
  /\ IsUser(req[e].on) /\ req'[e].row = tab.user[req[e].on]

Joins(e) ==
  /\ req[e].op = "googleAuth" /\ req'[e].op = "googleAuth" /\ req'[e].pc = "save" /\ tab' = tab
  /\ DOMAIN req'[e].row = RowFields /\ req'[e].row.role = "user" /\ req'[e].row.token = "none"

SavesRow(e) ==
  /\ req[e].op \in RowSavers /\ req[e].pc = "save" /\ req'[e].op = req[e].op
  /\ req'[e].pc = "ok" /\ req'[e].row = req[e].row
  /\ \E row : /\ tab'.user = [tab.user EXCEPT ![req[e].on] = row]
              /\ DOMAIN row = RowFields /\ row # NoUser /\ row.role \in {req[e].row.role, "support"}

GoesOn(e) ==
  /\ tab'.user = tab.user \/ KeepsRole
  /\ req'[e].op = req[e].op /\ req'[e].row = req[e].row
  /\ req'[e].op \in RowSavers \cup {"register", "googleAuth"} => req'[e].pc # "save"
  /\ req[e].op = "register" /\ req'[e].pc \in {"token", "mail", "ok"} => req[e].pc \in {"token", "mail"}

LEMMA TemplateRow ==
  ASSUME Shape, NEW c \in Requesters, TemplateStep(c) PROVE req'[c].row = req[c].row
<1>1. CASE \E p : To(c, p) BY <1>1, ToShape
<1>3. CASE SaveRelationStage(c) BY <1>3 DEF SaveRelationStage, ToWith, Shape, CallFields
<1>4. CASE SaveStageParameter(c) BY <1>4 DEF SaveStageParameter, ToWith, Shape, CallFields
<1>5. CASE ReadRelation(c) BY <1>5 DEF ReadRelation, ToWith, Shape, CallFields
<1>6. CASE findCompleteRelationChain(c)
  <2>1. PICK s \in req[c].todo :
          ToWith(c, IF req[c].todo = {s} THEN "ok" ELSE "stages",
              [req[c] EXCEPT !.todo = @ \ {s}, !.seen = @ \cup {<<s, {p \in tab.parameters : p[1] = s}>>}])
    BY <1>6, Zenon DEF findCompleteRelationChain
  <2> DEFINE change == [req[c] EXCEPT !.todo = @ \ {s}, !.seen = @ \cup {<<s, {p \in tab.parameters : p[1] = s}>>}]
  <2>2. DOMAIN change = CallFields /\ change.row = req[c].row BY DEF Shape, CallFields
  <2>3. ToWith(c, IF req[c].todo = {s} THEN "ok" ELSE "stages", change) BY <2>1
  <2> HIDE DEF change
  <2> QED BY <2>2, <2>3, ToWithShape
<1> QED
  BY <1>1, <1>3, <1>4, <1>5, <1>6 DEF TemplateStep, removeAllRelationBalancesByRelation,
     createRelationBalances, createRelationBalance

LEMMA RoleKept ==
  ASSUME UserType, NEW u, NEW row, tab'.user = [tab.user EXCEPT ![u] = row],
         u \in DOMAIN tab.user => DOMAIN row = RowFields /\ row.role = tab.user[u].role /\ row # NoUser
  PROVE  KeepsRole
<1>1. DOMAIN tab'.user = DOMAIN tab.user OBVIOUS
<1>2. ASSUME NEW v \in DOMAIN tab.user
      PROVE  /\ DOMAIN tab'.user[v] = RowFields /\ tab'.user[v].role = tab.user[v].role
             /\ IsUser(v) => tab'.user[v] # NoUser
  <2>1. CASE v = u BY <1>2, <2>1
  <2>2. CASE v # u BY <1>2, <2>2 DEF UserType, IsUser
  <2> QED BY <2>1, <2>2
<1> QED BY <1>1, <1>2 DEF KeepsRole

\* What the calls about a user do to the users.
LEMMA AccountEffect ==
  ASSUME CallsInv, UserType, NEW e \in Requesters, AccountStep(e)
  PROVE  /\ req'[e].on = req[e].on /\ req'[e].before = req[e].before
         /\ Counts(e) \/ Makes(e) \/ Reads(e) \/ Joins(e) \/ SavesRow(e) \/ GoesOn(e)
<1> USE DEF CallsInv
<1>0. req'[e].on = req[e].on /\ req'[e].before = req[e].before BY AccountFrame DEF AccountOwn, Stays
<1>1. ASSUME NEW p, To(e, p), tab'.user = tab.user \/ KeepsRole, p # "save" \/ req[e].op = "requestPasswordReset",
             req[e].op = "register" /\ p \in {"token", "mail", "ok"} => req[e].pc \in {"token", "mail"}
      PROVE  GoesOn(e)
  BY <1>1, ToShape DEF GoesOn, RowSavers
<1>2. CASE FindDuplicate(e)
  <2>1. PICK p \in {"error", "count"} : To(e, p) BY <1>2 DEF FindDuplicate
  <2> QED BY <1>0, <1>1, <1>2, <2>1 DEF FindDuplicate
<1>3. CASE CountUsers(e)
  <2>1. /\ req[e].op = "register" /\ req[e].pc = "count" /\ tab' = tab
        /\ ToWith(e, "save", [req[e] EXCEPT !.row =
             [NoUser EXCEPT !.role = IF Registered = {} THEN "admin" ELSE "user", !.password = e]])
    BY <1>3 DEF CountUsers, Asks
  <2>2. /\ req'[e].pc = "save" /\ req'[e].op = req[e].op
        /\ req'[e].row = [NoUser EXCEPT !.role = IF Registered = {} THEN "admin" ELSE "user", !.password = e]
    <3> DEFINE row == [NoUser EXCEPT !.role = IF Registered = {} THEN "admin" ELSE "user", !.password = e]
    <3>1. ToWith(e, "save", [req[e] EXCEPT !.row = row]) BY <2>1
    <3> HIDE DEF row
    <3>2. req'[e].pc = "save" /\ req'[e].op = req[e].op /\ req'[e].row = row
      BY <3>1 DEF ToWith, Shape, CallFields
    <3> QED BY <3>2 DEF row
  <2>3. DOMAIN req'[e].row = RowFields BY <2>2 DEF NoUser, RowFields
  <2>4. req'[e].row.role = (IF Registered = {} THEN "admin" ELSE "user") /\ req'[e].row.token = "none"
    BY <2>2 DEF NoUser
  <2> QED BY <2>1, <2>2, <2>3, <2>4, <1>0 DEF Counts
<1>4. CASE SaveUser(e)
  <2>1. CASE IsUser(req[e].on)
    <3>1. To(e, "error") /\ tab' = tab BY <1>4, <2>1 DEF SaveUser, Target
    <3> QED BY <1>0, <1>1, <3>1
  <2>2. CASE ~IsUser(req[e].on)
    <3>1. /\ req[e].op \in {"register", "googleAuth"} /\ req[e].pc = "save"
          /\ SetUser(req[e].on, req[e].row)
          /\ To(e, IF req[e].op = "register" THEN "token" ELSE "ok")
      BY <1>4, <2>2 DEF SaveUser, Target, Asks
    <3>2. tab'.user = [tab.user EXCEPT ![req[e].on] = req[e].row] BY <3>1 DEF SetUser, Shape, TableNames
    <3>3. req'[e].op = req[e].op /\ req'[e].row = req[e].row /\ req'[e].pc \in {"token", "ok"}
      BY <3>1, ToShape
    <3> QED BY <2>2, <3>1, <3>2, <3>3, <1>0 DEF Makes
  <2> QED BY <2>1, <2>2, <1>0
<1>5. CASE StoreConfirmationToken(e)
  <2>1. /\ tab' = [tab EXCEPT !.user[req[e].on].token = e] /\ To(e, "mail")
        /\ req[e].pc = "token"
    BY <1>5 DEF StoreConfirmationToken, Target, Asks
  <2> DEFINE row == [tab.user[req[e].on] EXCEPT !.token = e]
  <2>2. tab'.user = [tab.user EXCEPT ![req[e].on] = row] BY <2>1 DEF Shape, TableNames
  <2>3. ASSUME req[e].on \in DOMAIN tab.user
        PROVE  DOMAIN row = RowFields /\ row.role = tab.user[req[e].on].role /\ row.token = e
    BY <2>3 DEF UserType, RowFields
  <2>4. ASSUME req[e].on \in DOMAIN tab.user PROVE row # NoUser
    <3> HIDE DEF row
    <3> QED BY <2>3, <2>4, RequestersAssumption DEF NoUser
  <2>5. KeepsRole
    <3> DEFINE u == req[e].on
    <3>1. /\ tab'.user = [tab.user EXCEPT ![u] = row]
          /\ u \in DOMAIN tab.user =>
               DOMAIN row = RowFields /\ row.role = tab.user[u].role /\ row # NoUser
      <4> HIDE DEF row
      <4> QED BY <2>2, <2>3, <2>4
    <3> HIDE DEF row, u
    <3> QED BY <3>1, RoleKept
  <2>6. To(e, "mail") /\ req[e].pc = "token" BY <2>1
  <2> HIDE <2>1
  <2> QED BY <1>0, <1>1, <2>5, <2>6
<1>6. CASE MailLink(e)
  <2>1. tab'.user = tab.user BY <1>6 DEF MailLink, Shape, TableNames
  <2> QED BY <1>0, <1>1, <1>6, <2>1 DEF MailLink, Asks
<1>7. CASE resendConfirmationEmail(e) BY <1>0, <1>1, <1>7 DEF resendConfirmationEmail, Asks
<1>8. CASE FindByConfirmationToken(e)
  <2>1. CASE To(e, "error") BY <1>0, <1>1, <1>8, <2>1 DEF FindByConfirmationToken
  <2>2. CASE \E found : ToWith(e, "update", [req[e] EXCEPT !.todo = found])
    <3>1. /\ req[e].op = "confirmEmail" /\ tab' = tab /\ req'[e].pc = "update"
          /\ req'[e].op = req[e].op /\ req'[e].row = req[e].row
      BY <1>8, <2>2 DEF FindByConfirmationToken, ToWith, Shape, CallFields, Asks
    <3> QED BY <1>0, <3>1 DEF GoesOn, RowSavers
  <2> QED BY <1>8, <2>1, <2>2 DEF FindByConfirmationToken
<1>9. CASE confirmEmail(e)
  <2>1. PICK u \in req[e].todo : SetUser(u, [tab.user[u] EXCEPT !.confirmed = TRUE, !.token = "none"])
    BY <1>9, Zenon DEF confirmEmail
  <2> DEFINE row == [tab.user[u] EXCEPT !.confirmed = TRUE, !.token = "none"]
  <2>2. tab'.user = [tab.user EXCEPT ![u] = row] BY <2>1 DEF SetUser, Shape, TableNames
  <2>3. ASSUME u \in DOMAIN tab.user
        PROVE  DOMAIN row = RowFields /\ row.role = tab.user[u].role /\ row # NoUser
    <3>1. DOMAIN row = RowFields /\ row.role = tab.user[u].role BY <2>3 DEF UserType, RowFields
    <3>2. row.confirmed = TRUE BY <2>3 DEF UserType, RowFields
    <3> HIDE DEF row
    <3> QED BY <3>1, <3>2 DEF NoUser
  <2>5. KeepsRole
    <3>1. /\ tab'.user = [tab.user EXCEPT ![u] = row]
          /\ u \in DOMAIN tab.user =>
               DOMAIN row = RowFields /\ row.role = tab.user[u].role /\ row # NoUser
      <4> HIDE DEF row
      <4> QED BY <2>2, <2>3
    <3> HIDE DEF row
    <3> QED BY <3>1, RoleKept
  <2>6. To(e, "ok") /\ req[e].op = "confirmEmail" BY <1>9 DEF confirmEmail, Asks
  <2> QED BY <1>0, <1>1, <2>5, <2>6
<1>10. CASE requestPasswordReset(e) BY <1>0, <1>1, <1>10 DEF requestPasswordReset, Asks
<1>11. CASE SaveReset(e)
  <2>1. tab'.user = tab.user BY <1>11 DEF SaveReset, Shape, TableNames
  <2> QED BY <1>0, <1>1, <1>11, <2>1 DEF SaveReset, Asks
<1>12. CASE FindReset(e) BY <1>0, <1>1, <1>12 DEF FindReset, Asks
<1>13. ASSUME NEW u, tab' = [tab EXCEPT !.user[u].password = e] PROVE KeepsRole
  <2> DEFINE row == [tab.user[u] EXCEPT !.password = e]
  <2>1. tab'.user = [tab.user EXCEPT ![u] = row] BY <1>13 DEF Shape, TableNames
  <2>2. ASSUME u \in DOMAIN tab.user
        PROVE  DOMAIN row = RowFields /\ row.role = tab.user[u].role /\ row.password = e
    BY <2>2 DEF UserType, RowFields
  <2>3. row.password = e => row # NoUser BY RequestersAssumption DEF NoUser
  <2> HIDE DEF row
  <2> QED BY <2>1, <2>2, <2>3, RoleKept
<1>14. CASE completePasswordReset(e)
  <2>1. KeepsRole BY <1>13, <1>14, Zenon DEF completePasswordReset
  <2>2. To(e, "remove") BY <1>14 DEF completePasswordReset
  <2> QED BY <1>0, <1>1, <2>1, <2>2
<1>15. CASE RemoveReset(e)
  <2>1. tab'.user = tab.user BY <1>15 DEF RemoveReset, Shape, TableNames
  <2> QED BY <1>0, <1>1, <1>15, <2>1 DEF RemoveReset
<1>16. CASE changePassword(e) BY <1>0, <1>1, <1>13, <1>16 DEF changePassword, Asks, Target
<1>17. CASE ReadUserRow(e)
  <2>1. req[e].op \in RowSavers /\ tab' = tab BY <1>17 DEF ReadUserRow, Asks
  <2>2. CASE To(e, "error") BY <1>0, <1>1, <2>1, <2>2
  <2>3. CASE IsUser(req[e].on) /\ ToWith(e, "save", [req[e] EXCEPT !.row = tab.user[req[e].on]])
    <3>1. req'[e].pc = "save" /\ req'[e].op = req[e].op /\ req'[e].row = tab.user[req[e].on]
      BY <2>3 DEF ToWith, Shape, CallFields
    <3> QED BY <1>0, <2>1, <2>3, <3>1 DEF Reads, UserOps
  <2> QED BY <1>17, <2>2, <2>3 DEF ReadUserRow, Target
<1>18. CASE SaveUserRow(e)
  <2>1. req[e].op \in RowSavers /\ req[e].pc = "save" /\ To(e, "ok") BY <1>18 DEF SaveUserRow, Asks
  <2>2. req'[e].op = req[e].op /\ req'[e].pc = "ok" /\ req'[e].row = req[e].row BY <2>1, ToShape
  <2>3. DOMAIN req[e].row = RowFields /\ req[e].row # NoUser BY <2>1 DEF UserType
  <2>4. ASSUME NEW row, SetUser(req[e].on, row), DOMAIN row = RowFields, row # NoUser,
               row.role \in {req[e].row.role, "support"}
        PROVE  SavesRow(e)
    <3>1. tab'.user = [tab.user EXCEPT ![req[e].on] = row] BY <2>4 DEF SetUser, Shape, TableNames
    <3> QED BY <2>1, <2>2, <2>4, <3>1 DEF SavesRow
  <2>5. CASE req[e].op = "assignRole"
    <3>1. SetUser(req[e].on, [req[e].row EXCEPT !.role = "support"]) BY <1>18, <2>5 DEF SaveUserRow, Target
    <3> DEFINE row == [req[e].row EXCEPT !.role = "support"]
    <3>2. DOMAIN row = RowFields /\ row.role = "support" BY <2>3 DEF RowFields
    <3>3. row # NoUser BY <3>2 DEF NoUser
    <3> HIDE DEF row
    <3> QED BY <1>0, <2>4, <3>1, <3>2, <3>3 DEF row
  <2>6. CASE req[e].op = "googleLink"
    <3>1. SetUser(req[e].on, [req[e].row EXCEPT !.google = TRUE]) BY <1>18, <2>6 DEF SaveUserRow, Target
    <3> DEFINE row == [req[e].row EXCEPT !.google = TRUE]
    <3>2. DOMAIN row = RowFields /\ row.role = req[e].row.role /\ row.google = TRUE BY <2>3 DEF RowFields
    <3>3. row # NoUser BY <3>2 DEF NoUser
    <3> HIDE DEF row
    <3> QED BY <1>0, <2>4, <3>1, <3>2, <3>3 DEF row
  <2>7. CASE req[e].op = "updateProfile"
    <3>1. SetUser(req[e].on, req[e].row) BY <1>18, <2>7 DEF SaveUserRow, Target
    <3> QED BY <1>0, <2>3, <2>4, <3>1
  <2> QED BY <2>1, <2>5, <2>6, <2>7 DEF RowSavers
<1>19. CASE googleAuth(e)
  <2>1. req[e].op = "googleAuth" /\ tab' = tab BY <1>19 DEF googleAuth, Asks
  <2>2. CASE IsUser(req[e].on)
    <3>1. req' = [req EXCEPT ![e].op = "googleLink", ![e].row = tab.user[req[e].on],
                             ![e].pc = IF tab.user[req[e].on].google THEN "ok" ELSE "save"]
      BY <1>19, <2>2 DEF googleAuth, Target
    <3>2. req'[e].op = "googleLink" /\ req'[e].row = tab.user[req[e].on] /\ req'[e].pc \in {"ok", "save"}
      BY <3>1 DEF Shape, CallFields
    <3> QED BY <1>0, <2>1, <2>2, <3>2 DEF Reads, UserOps, RowSavers
  <2>3. CASE ~IsUser(req[e].on)
    <3>1. ToWith(e, "save", [req[e] EXCEPT !.row =
            [NoUser EXCEPT !.role = "user", !.confirmed = TRUE, !.google = TRUE]])
      BY <1>19, <2>3 DEF googleAuth, Target
    <3>2. /\ req'[e].pc = "save" /\ req'[e].op = req[e].op
          /\ req'[e].row = [NoUser EXCEPT !.role = "user", !.confirmed = TRUE, !.google = TRUE]
      BY <3>1 DEF ToWith, Shape, CallFields
    <3> QED BY <1>0, <2>1, <3>2 DEF Joins, NoUser, RowFields
  <2> QED BY <2>2, <2>3
<1> QED
  BY <1>2, <1>3, <1>4, <1>5, <1>6, <1>7, <1>8, <1>9, <1>10, <1>11, <1>12, <1>14, <1>15, <1>16, <1>17,
     <1>18, <1>19, <1>0 DEF AccountStep

LEMMA UserEffect ==
  ASSUME CallsInv, UserType, NEW e \in Requesters, RequestStep(e)
  PROVE  /\ \A c \in Requesters : c # e => req'[c] = req[c]
         /\ req'[e].on = req[e].on
         /\ \/ tab'.user = tab.user /\ req' = req
            \/ Receive(e) /\ tab' = tab
            \/ /\ req'[e].before = req[e].before
               /\ Counts(e) \/ Makes(e) \/ Reads(e) \/ Joins(e) \/ SavesRow(e) \/ GoesOn(e)
<1>1. CASE ResetExpires(e) BY <1>1, ExpiresFrame DEF CallsInv, Untouched, TableNames
<1>2. CASE Receive(e) BY <1>2, ReceiveFrame DEF CallsInv
<1>3. CASE Fail(e)
  <2>1. tab' = tab /\ To(e, "error") BY <1>3 DEF Fail
  <2> QED BY <2>1, ToShape DEF CallsInv, GoesOn
<1>4. ASSUME tab'.user = tab.user, Stays(e), req'[e].op = req[e].op, req'[e].row = req[e].row,
             req[e].op \notin RowSavers \cup {"register", "googleAuth"}
      PROVE  /\ \A c \in Requesters : c # e => req'[c] = req[c]
             /\ req'[e].on = req[e].on /\ req'[e].before = req[e].before /\ GoesOn(e)
  BY <1>4 DEF Stays, GoesOn
<1>5. CASE StyleStep(e)
  <2>1. req'[e].row = req[e].row
    <3>1. CASE FindStyle(e)
      <4>1. CASE ToWith(e, "save", [req[e] EXCEPT !.seen = {tab.style[Target(e)]}])
        BY <4>1 DEF ToWith, CallsInv, Shape, CallFields
      <4>2. CASE To(e, "error") BY <4>2, ToShape DEF CallsInv
      <4> QED BY <3>1, <4>1, <4>2 DEF FindStyle
    <3>2. CASE \E p \in {"ok", "find"} : To(e, p) BY <3>2, ToShape DEF CallsInv
    <3> QED BY <1>5, <3>1, <3>2 DEF StyleStep, CreateStyle, DeactivateAll, SaveStyle, RemoveStyle
  <2> QED BY <1>4, <1>5, <2>1, StyleFrame DEF CallsInv, Untouched, TableNames, StyleOps, RowSavers
<1>6. CASE NamedStep(e)
  <2>1. \E p : To(e, p)
    BY <1>6 DEF NamedStep, LookForName, FindNamed, LookForNewName, WriteNamed, RemoveNamed
  <2>2. req'[e].row = req[e].row BY <2>1, ToShape DEF CallsInv
  <2> QED BY <1>4, <1>6, <2>2, NamedFrame DEF CallsInv, Untouched, TableNames, NamedOps, RowSavers
<1>7. CASE TemplateStep(e)
  <2>1. req'[e].row = req[e].row BY <1>7, TemplateRow DEF CallsInv
  <2> QED BY <1>4, <1>7, <2>1, TemplateFrame DEF CallsInv, Untouched, TemplateOps, RowSavers
<1>8. CASE AccountStep(e) BY <1>8, AccountEffect, AccountFrame DEF CallsInv, AccountOwn, Stays
<1> QED BY <1>1, <1>2, <1>3, <1>5, <1>6, <1>7, <1>8 DEF RequestStep

\* A user stays one, and the tables keep their form.
LEMMA UsersStay ==
  ASSUME CallsInv, UserType, NEW e \in Requesters, RequestStep(e)
  PROVE  /\ DOMAIN tab'.user = DOMAIN tab.user
         /\ \A u \in DOMAIN tab.user : DOMAIN tab'.user[u] = RowFields /\ (IsUser(u) => tab'.user[u] # NoUser)
<1>1. CASE tab'.user = tab.user BY <1>1 DEF UserType, IsUser
<1>2. ASSUME NEW row, tab'.user = [tab.user EXCEPT ![req[e].on] = row], DOMAIN row = RowFields, row # NoUser
      PROVE  /\ DOMAIN tab'.user = DOMAIN tab.user
             /\ \A u \in DOMAIN tab.user : DOMAIN tab'.user[u] = RowFields /\ (IsUser(u) => tab'.user[u] # NoUser)
  BY <1>2 DEF UserType, IsUser
<1>3. CASE Makes(e)
  <2>1. req[e].row.role \in {"admin", "user"} /\ DOMAIN req[e].row = RowFields BY <1>3 DEF Makes, UserType
  <2>2. req[e].row # NoUser BY <2>1 DEF NoUser
  <2> QED BY <1>2, <1>3, <2>1, <2>2 DEF Makes
<1>4. CASE SavesRow(e) BY <1>2, <1>4 DEF SavesRow
<1>5. CASE KeepsRole BY <1>5 DEF KeepsRole
<1> QED
  BY <1>1, <1>3, <1>4, <1>5, UserEffect DEF Counts, Reads, Joins, GoesOn

LEMMA UserStep ==
  ASSUME CallsInv, UserType, [RequestsNext]_requestVars PROVE UserType'
<1>1. CASE UNCHANGED requestVars BY <1>1 DEF requestVars, UserType, IsUser
<1>2. ASSUME NEW e \in Requesters, RequestStep(e) PROVE UserType'
  <2>1. /\ \A c \in Requesters : c # e => req'[c] = req[c]
        /\ req'[e].on = req[e].on
    BY <1>2, UserEffect
  <2>2. /\ DOMAIN tab'.user = DOMAIN tab.user
        /\ \A u \in DOMAIN tab.user : DOMAIN tab'.user[u] = RowFields /\ (IsUser(u) => tab'.user[u] # NoUser)
    BY <1>2, UsersStay
  <2> DEFINE Fits(call, users) ==
        /\ DOMAIN call.row = RowFields
        /\ call.op \in UserOps => call.on \in DOMAIN users
        /\ call.op \in {"register", "googleAuth"} /\ call.pc = "save" => call.row.role \in {"admin", "user"}
        /\ call.op = "register" /\ call.pc \in {"token", "mail", "ok"} => users[call.on] # NoUser
        /\ call.op \in RowSavers /\ call.pc = "save" => call.row # NoUser /\ users[call.on] # NoUser
  <2>3. \A c \in Requesters : Fits(req[c], tab.user) BY DEF UserType, IsUser
  <2>4. \A c \in Requesters : Fits(req[c], tab'.user)
    <3> SUFFICES ASSUME NEW c \in Requesters PROVE Fits(req[c], tab'.user)
      OBVIOUS
    <3>1. req[c].op = "register" \/ req[c].op \in RowSavers => req[c].op \in UserOps BY DEF UserOps
    <3> QED BY <2>2, <2>3, <3>1 DEF IsUser
  <2>5. Fits(req'[e], tab'.user)
    <3>1. CASE tab'.user = tab.user /\ req' = req BY <2>4, <3>1
    <3>2. CASE Receive(e) /\ tab' = tab BY <2>3, <3>2, ReceiveFrame DEF CallsInv
    <3>3. CASE Counts(e) BY <2>3, <3>3, <2>1 DEF Counts, UserOps, RowSavers
    <3>4. CASE Makes(e)
      <4>1. req[e].on \in DOMAIN tab.user BY <2>3, <3>4 DEF Makes, UserOps
      <4>2. req[e].row.role \in {"admin", "user"} BY <2>3, <3>4 DEF Makes
      <4>3. tab'.user[req[e].on] # NoUser BY <3>4, <4>1, <4>2 DEF Makes, NoUser
      <4> QED BY <2>1, <2>2, <2>3, <3>4, <4>1, <4>3 DEF Makes, RowSavers
    <3>5. CASE Reads(e)
      <4>1. req[e].on \in DOMAIN tab.user BY <2>3, <3>5 DEF Reads
      <4>2. DOMAIN tab.user[req[e].on] = RowFields /\ tab.user[req[e].on] # NoUser
        BY <3>5, <4>1 DEF Reads, UserType, IsUser
      <4> QED BY <2>1, <3>5, <4>1, <4>2 DEF Reads, RowSavers
    <3>6. CASE Joins(e) BY <2>3, <3>6, <2>1 DEF Joins, RowSavers
    <3>7. CASE SavesRow(e) BY <2>1, <2>4, <3>7 DEF SavesRow, RowSavers
    <3>8. CASE GoesOn(e) BY <2>1, <2>4, <3>8 DEF GoesOn
    <3> HIDE DEF Fits
    <3> QED BY <1>2, <3>1, <3>2, <3>3, <3>4, <3>5, <3>6, <3>7, <3>8, UserEffect
  <2>6. \A c \in Requesters : Fits(req'[c], tab'.user)
    <3> HIDE DEF Fits
    <3> QED BY <2>1, <2>4, <2>5
  <2> QED BY <2>2, <2>6 DEF UserType, IsUser
<1> QED BY <1>1, <1>2 DEF RequestsNext

\* A registration that began after another was answered.
Late(call, calls) ==
  call.op = "register" /\ \E d \in call.before \cap Requesters : calls[d].op = "register" /\ calls[d].pc = "ok"

\* It makes no administrator, and no row of its user that a call read before is one.
LateInv ==
  \A c \in Requesters : Late(req[c], req) =>
    /\ req[c].pc = "save" => req[c].row.role # "admin"
    /\ req[c].pc \in {"token", "mail", "ok"} =>
         /\ tab.user[req[c].on].role # "admin"
         /\ \A r \in Requesters : req[r].op \in RowSavers /\ req[r].pc = "save" /\ req[r].on = req[c].on =>
              req[r].row.role # "admin"

LEMMA LateStep ==
  ASSUME CallsInv, UserType, LateInv, [RequestsNext]_requestVars PROVE LateInv'
<1>1. CASE UNCHANGED requestVars BY <1>1 DEF requestVars, LateInv, Late
<1>2. ASSUME NEW e \in Requesters, RequestStep(e), NEW c \in Requesters, Late(req'[c], req'),
             req'[c].pc \in {"save", "token", "mail", "ok"}
      PROVE  /\ req'[c].pc = "save" => req'[c].row.role # "admin"
             /\ req'[c].pc \in {"token", "mail", "ok"} =>
                  /\ tab'.user[req'[c].on].role # "admin"
                  /\ \A r \in Requesters :
                       req'[r].op \in RowSavers /\ req'[r].pc = "save" /\ req'[r].on = req'[c].on =>
                         req'[r].row.role # "admin"
  <2>1. /\ \A r \in Requesters : r # e => req'[r] = req[r]
        /\ req'[e].on = req[e].on
    BY <1>2, UserEffect
  <2>2. req'[c].before = req[c].before
    BY <1>2, Moves, ReceiveFrame DEF CallsInv, Stays
  <2>3. PICK d \in req[c].before \cap Requesters : req'[d].op = "register" /\ req'[d].pc = "ok"
    BY <1>2, <2>2 DEF Late
  <2>4. req'[d] = req[d] /\ d # c
    BY <1>2, <2>3, Moves, ReceiveFrame DEF CallsInv, OrderInv, Stays, Over
  <2>5. IsUser(req[d].on) /\ req[d].on \in DOMAIN tab.user BY <2>3, <2>4 DEF UserType, UserOps
  <2>6. Registered # {} BY <2>5 DEF Registered
  <2>7. req[c].op = "register"
    BY <1>2, <2>1, UserEffect, ReceiveFrame
       DEF Late, Counts, Makes, Reads, Joins, SavesRow, GoesOn, RowSavers, CallsInv
  <2>8. Late(req[c], req) BY <2>3, <2>4, <2>7 DEF Late
  <2>9. req[c].on \in DOMAIN tab.user BY <2>7 DEF UserType, UserOps
  <2>10. CASE tab'.user = tab.user /\ req' = req BY <1>2, <2>8, <2>10 DEF LateInv
  <2>11. CASE Receive(e) /\ tab' = tab
    <3>1. c # e /\ req'[e].pc = "start" BY <1>2, <2>11, ReceiveFrame DEF CallsInv
    <3> QED BY <1>2, <2>1, <2>8, <2>11, <3>1 DEF LateInv
  <2>12. CASE Counts(e)
    <3>1. CASE c = e BY <2>6, <2>12, <3>1 DEF Counts
    <3>2. CASE c # e BY <1>2, <2>1, <2>8, <2>12, <3>2 DEF Counts, LateInv, RowSavers
    <3> QED BY <3>1, <3>2
  <2>13. CASE Makes(e)
    <3>1. CASE c = e
      <4>1. req[c].row.role # "admin" /\ req[c].pc = "save" BY <2>8, <2>13, <3>1 DEF Makes, LateInv
      <4>2. tab'.user[req[c].on].role # "admin" BY <2>9, <2>13, <3>1, <4>1 DEF Makes
      <4>3. \A r \in Requesters : req[r].op \in RowSavers /\ req[r].pc = "save" => req[r].on # req[c].on
        BY <2>13, <3>1 DEF Makes, UserType
      <4>4. req'[e].op \notin RowSavers BY <2>13 DEF Makes, RowSavers
      <4> QED BY <1>2, <2>1, <2>13, <3>1, <4>1, <4>2, <4>3, <4>4 DEF Makes
    <3>2. CASE c # e
      <4>1. CASE req[c].pc = "save" BY <2>1, <2>8, <3>2, <4>1 DEF LateInv
      <4>2. CASE req[c].pc # "save"
        <5>1. req[c].pc \in {"token", "mail", "ok"} BY <1>2, <2>1, <3>2, <4>2
        <5>2. req[e].on # req[c].on BY <2>7, <2>13, <5>1 DEF Makes, UserType
        <5>3. tab'.user[req[c].on] = tab.user[req[c].on] BY <2>13, <5>2 DEF Makes
        <5>4. req'[e].op \notin RowSavers BY <2>13 DEF Makes, RowSavers
        <5> QED BY <2>1, <2>8, <3>2, <5>1, <5>3, <5>4 DEF LateInv
      <4> QED BY <4>1, <4>2
    <3> QED BY <3>1, <3>2
  <2>14. CASE Reads(e)
    <3>1. c # e BY <1>2, <2>14 DEF Late, Reads, RowSavers
    <3>2. req[e].on = req[c].on => req'[e].row = tab.user[req[c].on] BY <2>14 DEF Reads
    <3> QED BY <1>2, <2>1, <2>8, <2>14, <3>1, <3>2 DEF LateInv, Reads
  <2>15. CASE Joins(e)
    <3>1. c # e /\ req'[e].op \notin RowSavers BY <1>2, <2>15 DEF Late, Joins, RowSavers
    <3> QED BY <1>2, <2>1, <2>8, <2>15, <3>1 DEF LateInv, Joins
  <2>16. CASE SavesRow(e)
    <3>1. c # e BY <2>7, <2>16 DEF SavesRow, RowSavers
    <3>2. req'[e].pc = "ok" BY <2>16 DEF SavesRow
    <3>3. req[c].pc = "save" => req[c].row.role # "admin" BY <2>8 DEF LateInv
    <3>4. ASSUME req[c].pc \in {"token", "mail", "ok"} PROVE tab'.user[req[c].on].role # "admin"
      <4>1. PICK row : /\ tab'.user = [tab.user EXCEPT ![req[e].on] = row]
                       /\ row.role \in {req[e].row.role, "support"}
        BY <2>16 DEF SavesRow
      <4>2. tab.user[req[c].on].role # "admin" BY <2>8, <3>4 DEF LateInv
      <4>3. req[e].on = req[c].on => req[e].row.role # "admin" BY <2>8, <2>16, <3>4 DEF LateInv, SavesRow
      <4>4. CASE req[e].on = req[c].on BY <2>9, <4>1, <4>3, <4>4
      <4>5. CASE req[e].on # req[c].on BY <4>1, <4>2, <4>5
      <4> QED BY <4>4, <4>5
    <3> QED BY <1>2, <2>1, <2>8, <3>1, <3>2, <3>3, <3>4 DEF LateInv
  <2>17. CASE GoesOn(e)
    <3>1. tab'.user[req[c].on].role = tab.user[req[c].on].role BY <2>9, <2>17 DEF GoesOn, KeepsRole
    <3>2. req'[e].op \in RowSavers => req'[e].pc # "save" BY <2>17 DEF GoesOn
    <3>3. CASE c # e BY <1>2, <2>1, <2>8, <3>1, <3>2, <3>3 DEF LateInv
    <3>4. CASE c = e
      <4>1. req'[c].pc # "save" /\ req[c].pc \in {"token", "mail"} BY <1>2, <2>7, <2>17, <3>4 DEF GoesOn
      <4> QED BY <1>2, <2>1, <2>8, <3>1, <3>2, <3>4, <4>1 DEF LateInv
    <3> QED BY <3>3, <3>4
  <2> QED BY <1>2, <2>10, <2>11, <2>12, <2>13, <2>14, <2>15, <2>16, <2>17, UserEffect
<1>3. ASSUME NEW e \in Requesters, RequestStep(e) PROVE LateInv' BY <1>2, <1>3 DEF LateInv
<1> QED BY <1>1, <1>3 DEF RequestsNext

\* Nobody becomes an administrator by registering after somebody has, for any
\* number of calls and users and however rows are saved over each other.
THEOREM AdminsAreFirst == ServicesSpec => []AdminsWereFirst
<1>1. ASSUME RequestsInit PROVE UserType /\ LateInv
  <2>1. /\ \A c \in Requesters : /\ Begins(req[c], tab) /\ req[c].pc \in {"new", "error"}
                                 /\ req[c].before = {} /\ req[c].row = NoUser
        /\ \A u \in DOMAIN tab.user : DOMAIN tab.user[u] = DOMAIN NoUser
    BY <1>1, CallsBegin
  <2>2. DOMAIN NoUser = RowFields BY DEF NoUser, RowFields
  <2>3. UserType BY <2>1, <2>2 DEF UserType, Begins
  <2>4. LateInv BY <2>1 DEF LateInv
  <2> QED BY <2>3, <2>4
<1>2. ASSUME LateInv PROVE AdminsWereFirst
  BY <1>2 DEF LateInv, Late, AdminsWereFirst, Answered, Target
<1> QED BY <1>1, <1>2, UserStep, LateStep, CallsInvariance, RequestsRun, PTL DEF RequestsSpec

(***************************************************************************)
(* The names.                                                              *)
(***************************************************************************)

Namers == {"createNamed", "renameNamed"}

\* A row that has an author was named by him, and he is done; the indexes hold.
NamedInv ==
  /\ KeysAreUnique(tab.named)
  /\ \A r \in DOMAIN tab.named : tab.named[r].by # "none" =>
       LET c == tab.named[r].by IN
         /\ c \in Requesters /\ req[c].op \in Namers /\ req[c].pc = "ok" /\ r = RowOf(c)
         /\ tab.named[r].kind = Kind(c) /\ tab.named[r].name = Name(c)
  /\ \A c \in Requesters : req[c].op \in NamedOps => Kind(c) \in DOMAIN Rows

\* Who begins after a name was given, and looks for it, does not come to write it.
LooksInv ==
  \A c, d \in Requesters, s \in DOMAIN tab.named :
    /\ req[c].op \in Namers /\ req[d].op \in Namers /\ d \in req[c].before
    /\ tab.named[s].by = d /\ Kind(c) = Kind(d) /\ Name(c) = Name(d) /\ s # RowOf(c)
    /\ Rows[Kind(c)].create /\ Rows[Kind(c)].update
    => req[c].pc \in {"start", "look", "error"}

\* What a step does to the names and to those who give them.
Names(e) ==
  /\ req[e].op \in Namers /\ req[e].pc = "write" /\ req'[e].pc = "ok"
  /\ Rows[Kind(e)].unique => ~Taken(e)
  /\ tab'.named = [tab.named EXCEPT ![RowOf(e)] = [kind |-> Kind(e), name |-> Name(e), by |-> e]]

Unnames(e) ==
  /\ req[e].op = "removeNamed"
  /\ tab'.named = [tab.named EXCEPT ![RowOf(e)] = [kind |-> "none", name |-> "none", by |-> "none"]]

Finds(e) ==
  /\ tab'.named = tab.named
  /\ req'[e].op \in Namers =>
       \/ req'[e].pc \in {"look", "error"}
       \/ req'[e].pc = "write" /\ (Rows[Kind(e)].create /\ Rows[Kind(e)].update => ~Taken(e))

LEMMA NamedEffect ==
  ASSUME CallsInv, NEW e \in Requesters, RequestStep(e)
  PROVE  /\ \A c \in Requesters : c # e => req'[c] = req[c]
         /\ req'[e].on = req[e].on /\ (req'[e].op \in NamedOps \/ req[e].op \in NamedOps => req'[e].op = req[e].op)
         /\ \/ tab'.named = tab.named /\ req' = req
            \/ Receive(e) /\ tab' = tab
            \/ /\ req'[e].before = req[e].before /\ req[e].pc \notin Over
               /\ Names(e) \/ Unnames(e) \/ Finds(e)
<1> USE DEF CallsInv
<1>1. CASE ResetExpires(e) BY <1>1, ExpiresFrame DEF Untouched, TableNames
<1>2. CASE Receive(e) BY <1>2, ReceiveFrame
<1>3. CASE Fail(e) BY <1>3, FailFrame DEF Stays, Finds
<1>4. CASE StyleStep(e)
  BY <1>4, StyleFrame DEF Stays, Untouched, TableNames, StyleOps, NamedOps, Namers, Finds
<1>5. CASE TemplateStep(e)
  BY <1>5, TemplateFrame DEF Stays, Untouched, TemplateOps, NamedOps, Namers, Finds
<1>6. CASE AccountStep(e)
  BY <1>6, AccountFrame DEF AccountOwn, Stays, Untouched, AccountOps, UserOps, RowSavers, TokenOps, NamedOps,
     Namers, Finds
<1>7. CASE NamedStep(e)
  <2>1. /\ \A c \in Requesters : c # e => req'[c] = req[c]
        /\ req'[e].on = req[e].on /\ req'[e].op = req[e].op
        /\ req'[e].before = req[e].before /\ req[e].pc \notin Over
    BY <1>7, NamedFrame DEF Stays
  <2>2. CASE LookForName(e)
    <3>1. /\ req[e].op = "createNamed" /\ tab' = tab
          /\ req'[e].pc = IF Rows[Kind(e)].create /\ Taken(e) THEN "error" ELSE "write"
      BY <2>2, ToShape DEF LookForName, Asks
    <3> QED BY <2>1, <3>1 DEF Finds
  <2>3. CASE FindNamed(e)
    <3>1. /\ tab' = tab
          /\ req'[e].pc = "error" \/ (req'[e].pc = IF req[e].op = "renameNamed" /\ Rows[Kind(e)].update
                                                   THEN "look" ELSE "write")
          /\ req[e].op \in {"renameNamed", "removeNamed"}
      BY <2>3, ToShape DEF FindNamed, Asks
    <3> QED BY <2>1, <3>1 DEF Finds, Namers
  <2>4. CASE LookForNewName(e)
    <3>1. tab' = tab /\ req'[e].pc = IF Taken(e) THEN "error" ELSE "write"
      BY <2>4, ToShape DEF LookForNewName
    <3> QED BY <2>1, <3>1 DEF Finds
  <2>5. CASE WriteNamed(e)
    <3>1. req[e].op \in Namers /\ req[e].pc = "write" BY <2>5 DEF WriteNamed, Asks, Namers
    <3>2. CASE Rows[Kind(e)].unique /\ Taken(e)
      <4>1. To(e, "error") /\ tab' = tab BY <2>5, <3>2 DEF WriteNamed
      <4>2. req'[e].pc = "error" BY <4>1, ToShape
      <4> QED BY <2>1, <4>1, <4>2 DEF Finds
    <3>3. CASE ~(Rows[Kind(e)].unique /\ Taken(e))
      <4>1. /\ To(e, "ok")
            /\ tab' = [tab EXCEPT !.named[RowOf(e)] = [kind |-> Kind(e), name |-> Name(e), by |-> e]]
        BY <2>5, <3>3 DEF WriteNamed
      <4>2. req'[e].pc = "ok" BY <4>1, ToShape
      <4>3. tab'.named = [tab.named EXCEPT ![RowOf(e)] = [kind |-> Kind(e), name |-> Name(e), by |-> e]]
        BY <4>1 DEF Shape, TableNames
      <4> QED BY <2>1, <3>1, <3>3, <4>2, <4>3 DEF Names
    <3> QED BY <3>2, <3>3
  <2>6. CASE RemoveNamed(e)
    <3>1. /\ req[e].op = "removeNamed"
          /\ tab' = [tab EXCEPT !.named[RowOf(e)] = [kind |-> "none", name |-> "none", by |-> "none"]]
      BY <2>6 DEF RemoveNamed, Asks
    <3>2. tab'.named = [tab.named EXCEPT ![RowOf(e)] = [kind |-> "none", name |-> "none", by |-> "none"]]
      BY <3>1 DEF Shape, TableNames
    <3> QED BY <2>1, <3>1, <3>2 DEF Unnames
  <2> QED BY <1>7, <2>1, <2>2, <2>3, <2>4, <2>5, <2>6 DEF NamedStep
<1> QED BY <1>1, <1>2, <1>3, <1>4, <1>5, <1>6, <1>7 DEF RequestStep

LEMMA NamedInvStep ==
  ASSUME CallsInv, NamedInv, [RequestsNext]_requestVars PROVE NamedInv'
<1>1. CASE UNCHANGED requestVars
  BY <1>1 DEF requestVars, NamedInv, KeysAreUnique, RowOf, Kind, Name, Target
<1>2. ASSUME NEW e \in Requesters, RequestStep(e) PROVE NamedInv'
  <2>1. /\ \A c \in Requesters : c # e => req'[c] = req[c]
        /\ req'[e].on = req[e].on /\ (req'[e].op \in NamedOps \/ req[e].op \in NamedOps => req'[e].op = req[e].op)
    BY <1>2, NamedEffect
  <2>2. \A c \in Requesters : req'[c].op \in NamedOps => (req'[c].op = req[c].op /\ req'[c].on.kind \in DOMAIN Rows)
    BY <2>1 DEF NamedInv, Kind, Target
  <2>3. \A c \in Requesters : req[c].op \in Namers /\ req[c].pc = "ok" =>
          /\ req'[c].op = req[c].op /\ req'[c].on = req[c].on /\ req'[c].pc = "ok"
    BY <1>2, <2>1, NamedEffect DEF Receive, Over, Namers, NamedOps
  <2> DEFINE Given(r, row, calls) ==
        row.by # "none" =>
          /\ row.by \in Requesters /\ calls[row.by].op \in Namers /\ calls[row.by].pc = "ok"
          /\ r = IF calls[row.by].op = "createNamed" THEN row.by ELSE calls[row.by].on.row
          /\ row.kind = calls[row.by].on.kind /\ row.name = calls[row.by].on.name
  <2>4. \A r \in DOMAIN tab.named : Given(r, tab.named[r], req')
    <3>1. \A r \in DOMAIN tab.named : Given(r, tab.named[r], req)
      BY DEF NamedInv, RowOf, Kind, Name, Target
    <3> QED BY <2>3, <3>1
  <2>5. ASSUME KeysAreUnique(tab.named)', \A r \in DOMAIN tab'.named : Given(r, tab'.named[r], req')
        PROVE  NamedInv'
    BY <2>2, <2>5 DEF NamedInv, RowOf, Kind, Name, Target
  <2>6. CASE tab'.named = tab.named
    <3>1. KeysAreUnique(tab.named)' BY <2>6 DEF NamedInv, KeysAreUnique
    <3> HIDE DEF Given
    <3> QED BY <2>4, <2>5, <2>6, <3>1
  <2>7. CASE Names(e)
    <3> DEFINE row == [kind |-> Kind(e), name |-> Name(e), by |-> e]
    <3>1. DOMAIN tab'.named = DOMAIN tab.named BY <2>7 DEF Names
    <3>2. Given(RowOf(e), row, req')
      BY <2>1, <2>7 DEF Names, Namers, NamedOps, RowOf, Kind, Name, Target
    <3>3. \A r \in DOMAIN tab.named : tab'.named[r] = IF r = RowOf(e) THEN row ELSE tab.named[r]
      BY <2>7 DEF Names
    <3>4. \A r \in DOMAIN tab'.named : Given(r, tab'.named[r], req')
      <4> HIDE DEF Given, row
      <4> QED BY <2>4, <3>1, <3>2, <3>3
    <3>5. ASSUME NEW r \in DOMAIN tab.named, r # RowOf(e), tab.named[r].kind = Kind(e), Rows[Kind(e)].unique
          PROVE  tab.named[r].name # Name(e)
      <4>1. ~Taken(e) BY <2>7, <3>5 DEF Names
      <4> QED BY <3>5, <4>1 DEF Taken, Named
    <3>6. KeysAreUnique(tab.named)'
      <4> SUFFICES ASSUME NEW r \in DOMAIN tab.named, NEW s \in DOMAIN tab.named, r # s,
                          tab'.named[r].kind = tab'.named[s].kind, tab'.named[r].kind \in DOMAIN Rows,
                          Rows[tab'.named[r].kind].unique
                   PROVE  tab'.named[r].name # tab'.named[s].name
        BY <3>1 DEF KeysAreUnique
      <4>1. row.kind = Kind(e) /\ row.name = Name(e) OBVIOUS
      <4> HIDE DEF row
      <4>2. CASE r = RowOf(e) BY <3>3, <3>5, <4>1, <4>2
      <4>3. CASE s = RowOf(e) BY <3>3, <3>5, <4>1, <4>3
      <4>4. CASE r # RowOf(e) /\ s # RowOf(e) BY <3>3, <4>4 DEF NamedInv, KeysAreUnique
      <4> QED BY <4>2, <4>3, <4>4
    <3> QED BY <2>5, <3>4, <3>6
  <2>8. CASE Unnames(e)
    <3> DEFINE row == [kind |-> "none", name |-> "none", by |-> "none"]
    <3>1. /\ DOMAIN tab'.named = DOMAIN tab.named
          /\ \A r \in DOMAIN tab.named : tab'.named[r] = IF r = RowOf(e) THEN row ELSE tab.named[r]
      BY <2>8 DEF Unnames
    <3>2. \A r : Given(r, row, req') OBVIOUS
    <3>3. \A r \in DOMAIN tab'.named : Given(r, tab'.named[r], req')
      <4> HIDE DEF Given, row
      <4> QED BY <2>4, <3>1, <3>2
    <3>4. row.kind \notin DOMAIN Rows BY DEF Rows
    <3>5. KeysAreUnique(tab.named)'
      <4> HIDE DEF row
      <4> QED BY <3>1, <3>4 DEF NamedInv, KeysAreUnique
    <3> QED BY <2>5, <3>3, <3>5
  <2> QED BY <1>2, <2>6, <2>7, <2>8, NamedEffect DEF Finds
<1> QED BY <1>1, <1>2 DEF RequestsNext

LEMMA LooksStep ==
  ASSUME CallsInv, NamedInv, LooksInv, [RequestsNext]_requestVars PROVE LooksInv'
<1>1. CASE UNCHANGED requestVars BY <1>1 DEF requestVars, LooksInv, RowOf, Kind, Name, Target
<1>2. ASSUME NEW e \in Requesters, RequestStep(e),
             NEW c \in Requesters, NEW d \in Requesters, NEW s \in DOMAIN tab'.named,
             req'[c].op \in Namers, req'[d].op \in Namers, d \in req'[c].before, tab'.named[s].by = d,
             req'[c].on.kind = req'[d].on.kind, req'[c].on.name = req'[d].on.name, s # RowOf(c)',
             Rows[req'[c].on.kind].create, Rows[req'[c].on.kind].update
      PROVE  req'[c].pc \in {"start", "look", "error"}
  <2>1. /\ \A r \in Requesters : r # e => req'[r] = req[r]
        /\ req'[e].on = req[e].on
        /\ req[c].op \in Namers /\ req'[c].op = req[c].op /\ req[d].op \in Namers
    BY <1>2, NamedEffect DEF Namers, NamedOps
  <2>2. RowOf(c)' = RowOf(c) /\ Kind(c) = Kind(d) /\ Name(c) = Name(d) /\ s # RowOf(c)
        /\ Rows[Kind(c)].create /\ Rows[Kind(c)].update
    BY <1>2, <2>1 DEF RowOf, Kind, Name, Target
  <2>3. CASE Receive(e) /\ e = c BY <2>3, ReceiveFrame DEF CallsInv
  <2>4. CASE ~(Receive(e) /\ e = c)
    <3>1. d \in req[c].before BY <1>2, <2>4, Moves, ReceiveFrame DEF CallsInv, Stays
    <3>2. req[d].pc \in Over BY <3>1 DEF CallsInv, OrderInv
    <3>3. d # e \/ req' = req BY <1>2, <3>2, Moves, ReceiveFrame DEF CallsInv, Stays, Over
    <3>4. s \in DOMAIN tab.named /\ tab.named[s].by = d
      <4>1. CASE tab'.named = tab.named BY <1>2, <4>1
      <4>2. CASE Names(e)
        <5>1. req' # req BY <2>1, <4>2 DEF Names
        <5>2. d # e BY <3>3, <5>1
        <5> QED BY <1>2, <4>2, <5>2 DEF Names
      <4>3. CASE Unnames(e) BY <1>2, <4>3, RequestersAssumption DEF Unnames
      <4> QED BY <1>2, <4>1, <4>2, <4>3, NamedEffect DEF Finds
    <3>5. req[c].pc \in {"start", "look", "error"} BY <2>1, <2>2, <3>1, <3>4 DEF LooksInv
    <3>6. Taken(c)
      <4>1. tab.named[s].kind = Kind(c) /\ tab.named[s].name = Name(c)
        BY <2>2, <3>4, RequestersAssumption DEF NamedInv
      <4> QED BY <2>2, <3>4, <4>1 DEF Taken, Named
    <3>7. CASE e # c \/ req' = req BY <2>1, <3>5, <3>7
    <3>8. CASE e = c /\ req' # req
      <4>1. Finds(c) BY <1>2, <2>1, <2>4, <3>5, <3>8, NamedEffect DEF Names, Unnames, Namers
      <4> QED BY <1>2, <2>2, <3>6, <4>1 DEF Finds
    <3> QED BY <3>7, <3>8
  <2> QED BY <2>3, <2>4
<1>3. ASSUME NEW e \in Requesters, RequestStep(e) PROVE LooksInv'
  BY <1>2, <1>3 DEF LooksInv, Kind, Name, Target
<1> QED BY <1>1, <1>3 DEF RequestsNext

\* Two rows of one kind get the same name only where no column is unique, and then
\* only from calls that overlapped or where the service never looks: for any
\* calls and rows.
THEOREM NamesAreTwiceByOverlap == ServicesSpec => []NamedTwiceByOverlap
<1>1. ASSUME RequestsInit PROVE NamedInv /\ LooksInv
  <2>1. /\ \A c \in Requesters : Begins(req[c], tab) /\ req[c].before = {}
        /\ KeysAreUnique(tab.named) /\ \A r \in DOMAIN tab.named : tab.named[r].by = "none"
    BY <1>1, CallsBegin
  <2>2. NamedInv BY <2>1 DEF NamedInv, Begins, Kind, Target
  <2>3. LooksInv BY <2>1 DEF LooksInv
  <2> QED BY <2>2, <2>3
<1>2. ASSUME NamedInv, LooksInv PROVE NamedTwiceByOverlap
  <2> SUFFICES ASSUME NEW c \in Requesters, NEW d \in Requesters, c # d,
                      req[c].op \in Namers, req[d].op \in Namers, Kind(c) = Kind(d), Name(c) = Name(d),
                      NEW r \in DOMAIN tab.named, NEW s \in DOMAIN tab.named, r # s,
                      tab.named[r].by = c, tab.named[s].by = d
               PROVE  /\ ~Rows[Kind(c)].unique
                      /\ Overlap(c, d) \/ ~Rows[Kind(c)].create \/ ~Rows[Kind(c)].update
    BY DEF NamedTwiceByOverlap, Namers
  <2>1. /\ r = RowOf(c) /\ tab.named[r].kind = Kind(c) /\ tab.named[r].name = Name(c) /\ req[c].pc = "ok"
        /\ s = RowOf(d) /\ tab.named[s].kind = Kind(d) /\ tab.named[s].name = Name(d) /\ req[d].pc = "ok"
        /\ Kind(c) \in DOMAIN Rows
    BY <1>2, RequestersAssumption DEF NamedInv, Namers, NamedOps
  <2>2. ~Rows[Kind(c)].unique BY <1>2, <2>1 DEF NamedInv, KeysAreUnique
  <2>3. ASSUME Rows[Kind(c)].create, Rows[Kind(c)].update PROVE Overlap(c, d)
    <3>1. d \notin req[c].before BY <1>2, <2>1, <2>3 DEF LooksInv
    <3>2. c \notin req[d].before BY <1>2, <2>1, <2>3 DEF LooksInv
    <3> QED BY <2>1, <3>1, <3>2 DEF Overlap
  <2> QED BY <2>2, <2>3
<1> QED BY <1>1, <1>2, NamedInvStep, LooksStep, CallsInvariance, RequestsRun, PTL DEF RequestsSpec

(***************************************************************************)
(* What was answered to a user.                                            *)
(***************************************************************************)

\* Whose password a call sets.
Owner(c) == IF req[c].op = "changePassword" THEN req[c].on ELSE tab.reset[req[c].on].user

\* The ways in which a step writes a user's row.
Stores(e, u) == u = req[e].on /\ tab'.user[u] = [tab.user[u] EXCEPT !.token = e]

Confirms(e, u) ==
  /\ req[e].op = "confirmEmail" /\ req[e].pc = "update" /\ u \in req[e].todo
  /\ tab'.user[u] = [tab.user[u] EXCEPT !.confirmed = TRUE, !.token = "none"]

Sets(e, u) ==
  /\ SetsPassword(e) /\ req[e].pc = "update" /\ u = Owner(e)
  /\ tab'.user[u] = [tab.user[u] EXCEPT !.password = e]

Overwrites(e, u) ==
  /\ req[e].op \in RowSavers /\ req[e].pc = "save" /\ u = req[e].on
  /\ tab'.user[u].confirmed = req[e].row.confirmed /\ tab'.user[u].token = req[e].row.token
  /\ tab'.user[u].password = req[e].row.password

Enters(e, u) ==
  /\ req[e].op \in {"register", "googleAuth"} /\ req[e].pc = "save" /\ u = req[e].on /\ ~IsUser(u)
  /\ tab'.user[u] = req[e].row

LEMMA WhoWrites ==
  ASSUME CallsInv, UserType, NEW e \in Requesters, RequestStep(e), NEW u \in DOMAIN tab.user
  PROVE  \/ tab'.user[u] = tab.user[u]
         \/ Stores(e, u) \/ Confirms(e, u) \/ Sets(e, u) \/ Overwrites(e, u) \/ Enters(e, u)
<1> USE DEF CallsInv
<1> SUFFICES ASSUME tab'.user[u] # tab.user[u]
             PROVE  Stores(e, u) \/ Confirms(e, u) \/ Sets(e, u) \/ Overwrites(e, u) \/ Enters(e, u)
  OBVIOUS
<1>1. AccountStep(e)
  BY ReceiveFrame, FailFrame, ExpiresFrame, StyleFrame, NamedFrame, TemplateFrame
     DEF RequestStep, Untouched, TableNames
<1>2. ASSUME NEW v, NEW row, SetUser(v, row) PROVE u = v /\ tab'.user[u] = row
  BY <1>2 DEF SetUser, Shape, TableNames
<1>3. CASE SaveUser(e)
  <2>1. /\ SetUser(req[e].on, req[e].row) /\ ~IsUser(req[e].on)
        /\ req[e].op \in {"register", "googleAuth"} /\ req[e].pc = "save"
    BY <1>3 DEF SaveUser, Asks, Target
  <2> QED BY <1>2, <2>1 DEF Enters
<1>4. CASE StoreConfirmationToken(e)
  <2>1. tab'.user = [tab.user EXCEPT ![req[e].on] = [tab.user[req[e].on] EXCEPT !.token = e]]
    BY <1>4 DEF StoreConfirmationToken, Target, Shape, TableNames
  <2>2. u = req[e].on BY <2>1
  <2>3. tab'.user[u] = [tab.user[u] EXCEPT !.token = e] BY <2>1, <2>2
  <2> QED BY <2>2, <2>3 DEF Stores
<1>5. CASE confirmEmail(e)
  <2>1. PICK v \in req[e].todo : SetUser(v, [tab.user[v] EXCEPT !.confirmed = TRUE, !.token = "none"])
    BY <1>5, Zenon DEF confirmEmail
  <2>2. u = v /\ tab'.user[u] = [tab.user[v] EXCEPT !.confirmed = TRUE, !.token = "none"] BY <1>2, <2>1
  <2>3. req[e].op = "confirmEmail" /\ req[e].pc = "update" BY <1>5 DEF confirmEmail, Asks
  <2> QED BY <2>2, <2>3 DEF Confirms
<1>6. ASSUME NEW v, tab' = [tab EXCEPT !.user[v].password = e]
      PROVE  u = v /\ tab'.user[u] = [tab.user[u] EXCEPT !.password = e]
  <2>1. tab'.user = [tab.user EXCEPT ![v] = [tab.user[v] EXCEPT !.password = e]]
    BY <1>6 DEF Shape, TableNames
  <2>2. u = v BY <2>1
  <2> QED BY <2>1, <2>2
<1>7. CASE completePasswordReset(e)
  <2>1. req[e].op = "completePasswordReset" /\ req[e].pc = "update"
    BY <1>7 DEF completePasswordReset, Asks
  <2>2. Owner(e) = tab.reset[req[e].on].user /\ SetsPassword(e) BY <2>1 DEF Owner, SetsPassword
  <2>3. tab' = [tab EXCEPT !.user[tab.reset[req[e].on].user].password = e]
    BY <1>7, Zenon DEF completePasswordReset, Target
  <2>4. u = tab.reset[req[e].on].user /\ tab'.user[u] = [tab.user[u] EXCEPT !.password = e]
    BY <1>6, <2>3, Zenon
  <2>5. Sets(e, u) BY <2>1, <2>2, <2>4, Zenon DEF Sets
  <2> QED BY <2>5
<1>8. CASE changePassword(e)
  <2>1. /\ req[e].op = "changePassword" /\ req[e].pc = "update"
        /\ tab' = [tab EXCEPT !.user[req[e].on].password = e]
    BY <1>8 DEF changePassword, Asks, Target
  <2>2. Owner(e) = req[e].on /\ SetsPassword(e) BY <2>1 DEF Owner, SetsPassword
  <2> QED BY <1>6, <2>1, <2>2 DEF Sets
<1>9. CASE SaveUserRow(e)
  <2>1. req[e].op \in RowSavers /\ req[e].pc = "save" BY <1>9 DEF SaveUserRow, Asks
  <2>2. DOMAIN req[e].row = RowFields BY DEF UserType
  <2>3. PICK row : SetUser(req[e].on, row) /\ row \in {[req[e].row EXCEPT !.role = "support"],
                                                      [req[e].row EXCEPT !.google = TRUE], req[e].row}
    BY <1>9 DEF SaveUserRow, Target
  <2>4. row.confirmed = req[e].row.confirmed /\ row.token = req[e].row.token
        /\ row.password = req[e].row.password
    BY <2>2, <2>3 DEF RowFields
  <2>5. u = req[e].on /\ tab'.user[u] = row BY <1>2, <2>3
  <2> QED BY <2>1, <2>4, <2>5 DEF Overwrites
<1>10. CASE MailLink(e) \/ SaveReset(e) \/ RemoveReset(e)
  BY <1>10 DEF MailLink, SaveReset, RemoveReset, Shape, TableNames
<1> QED
  BY <1>1, <1>3, <1>4, <1>5, <1>7, <1>8, <1>9, <1>10 DEF AccountStep, FindDuplicate, CountUsers,
     resendConfirmationEmail, FindByConfirmationToken, requestPasswordReset, FindReset, ReadUserRow, googleAuth

Holds(u) == u \in DOMAIN tab.user /\ IsUser(u)

\* A token is its user's, in the table and in the rows that were read.
TokenInv ==
  /\ \A u \in DOMAIN tab.user : tab.user[u].token \in Requesters => u = req[tab.user[u].token].on
  /\ \A c \in Requesters :
       /\ req[c].op \in {"register", "googleAuth"} /\ req[c].pc = "save" => req[c].row.token = "none"
       /\ req[c].op \in RowSavers /\ req[c].pc = "save" /\ req[c].row.token \in Requesters =>
            req[c].on = req[req[c].row.token].on
       /\ req[c].op = "confirmEmail" /\ req[c].pc \in {"update", "ok"} =>
            \A u \in req[c].todo : Holds(u) /\ u = req[req[c].on].on

\* Who sets a password found its user.
OwnerInv ==
  /\ \A r \in Requesters : tab.reset[r].state # "gone" => Holds(tab.reset[r].user)
  /\ \A c \in Requesters :
       /\ req[c].op = "requestPasswordReset" /\ req[c].pc = "save" => Holds(req[c].on)
       /\ req[c].op = "changePassword" /\ req[c].pc \in {"update", "remove", "ok"} => Holds(req[c].on)
       /\ req[c].op = "completePasswordReset" /\ req[c].pc \in {"update", "remove", "ok"} =>
            Holds(tab.reset[req[c].on].user)

\* The two updates of a user's columns.
MakesConfirmed(u) == tab'.user = [tab.user EXCEPT ![u] = [tab.user[u] EXCEPT !.confirmed = TRUE, !.token = "none"]]
GivesPassword(e, u) == tab'.user = [tab.user EXCEPT ![u] = [tab.user[u] EXCEPT !.password = e]]

\* How the calls about a token or a password go on.
LEMMA OwnSteps ==
  ASSUME CallsInv, NEW e \in Requesters, RequestStep(e), ~Receive(e), req' # req, req'[e].pc # "error"
  PROVE  /\ req[e].op = "confirmEmail" =>
              \/ /\ req'[e].pc = "update" /\ tab' = tab
                 /\ req'[e].todo = {u \in DOMAIN tab.user : tab.user[u].token = req[e].on}
              \/ /\ req[e].pc = "update" /\ req'[e].pc = "ok" /\ req'[e].todo = req[e].todo
                 /\ \E u \in req[e].todo : MakesConfirmed(u)
         /\ req[e].op = "requestPasswordReset" =>
              (req'[e].pc = "save" /\ IsUser(req[e].on)) \/ req'[e].pc \in {"mail", "ok"}
         /\ req[e].op = "changePassword" =>
              \/ req'[e].pc = "update" /\ IsUser(req[e].on)
              \/ /\ req[e].pc = "update" /\ req'[e].pc = "ok"
                 /\ GivesPassword(e, req[e].on)
         /\ req[e].op = "completePasswordReset" =>
              \/ req'[e].pc = "drop"
              \/ req'[e].pc = "update" /\ tab' = tab /\ tab.reset[req[e].on].state # "gone"
              \/ /\ req[e].pc = "update" /\ req'[e].pc = "remove"
                 /\ GivesPassword(e, tab.reset[req[e].on].user)
              \/ req[e].pc = "remove" /\ req'[e].pc = "ok" /\ tab'.user = tab.user
<1> USE DEF CallsInv
<1>1. ~Fail(e) /\ ~ResetExpires(e)
  <2>1. ASSUME Fail(e) PROVE FALSE BY <2>1, FailFrame
  <2>2. ASSUME ResetExpires(e) PROVE FALSE BY <2>2 DEF ResetExpires
  <2> QED BY <2>1, <2>2
<1>2. CASE ~AccountStep(e)
  <2>1. StyleStep(e) \/ NamedStep(e) \/ TemplateStep(e) BY <1>1, <1>2 DEF RequestStep
  <2>2. req[e].op \in StyleOps \cup NamedOps \cup TemplateOps BY <2>1, StyleFrame, NamedFrame, TemplateFrame
  <2>3. req[e].op \notin {"confirmEmail", "requestPasswordReset", "changePassword", "completePasswordReset"}
    BY <2>2 DEF StyleOps, NamedOps, TemplateOps
  <2> QED BY <2>3
<1>3. ASSUME AccountStep(e), req[e].op = "confirmEmail"
      PROVE  \/ /\ req'[e].pc = "update" /\ tab' = tab
                /\ req'[e].todo = {u \in DOMAIN tab.user : tab.user[u].token = req[e].on}
             \/ /\ req[e].pc = "update" /\ req'[e].pc = "ok" /\ req'[e].todo = req[e].todo
                /\ \E u \in req[e].todo : MakesConfirmed(u)
  <2>1. CASE FindByConfirmationToken(e)
    <3> DEFINE found == {u \in DOMAIN tab.user : tab.user[u].token = req[e].on}
    <3>1. (To(e, "error") \/ ToWith(e, "update", [req[e] EXCEPT !.todo = found])) /\ tab' = tab
      BY <2>1 DEF FindByConfirmationToken, Target
    <3> HIDE DEF found
    <3>2. ToWith(e, "update", [req[e] EXCEPT !.todo = found]) BY <3>1, ToShape
    <3>3. req'[e].pc = "update" /\ req'[e].todo = found BY <3>2 DEF ToWith, Shape, CallFields
    <3> QED BY <3>1, <3>3 DEF found
  <2>2. CASE confirmEmail(e)
    <3>1. PICK v \in req[e].todo : SetUser(v, [tab.user[v] EXCEPT !.confirmed = TRUE, !.token = "none"])
      BY <2>2, Zenon DEF confirmEmail
    <3>2. tab'.user = [tab.user EXCEPT ![v] = [tab.user[v] EXCEPT !.confirmed = TRUE, !.token = "none"]]
      BY <3>1 DEF SetUser, Shape, TableNames
    <3>3. req[e].pc = "update" /\ req'[e].pc = "ok" /\ req'[e].todo = req[e].todo
      BY <2>2, ToShape DEF confirmEmail, Asks
    <3>4. MakesConfirmed(v) BY <3>2 DEF MakesConfirmed
    <3> QED BY <3>3, <3>4
  <2>3. FindByConfirmationToken(e) \/ confirmEmail(e)
    BY <1>3 DEF AccountStep, FindDuplicate, CountUsers, SaveUser, StoreConfirmationToken, MailLink,
       resendConfirmationEmail, requestPasswordReset, SaveReset, FindReset, completePasswordReset, RemoveReset,
       changePassword, ReadUserRow, SaveUserRow, googleAuth, Asks, RowSavers
  <2> QED BY <2>1, <2>2, <2>3
<1>4. ASSUME AccountStep(e), req[e].op = "requestPasswordReset"
      PROVE  (req'[e].pc = "save" /\ IsUser(req[e].on)) \/ req'[e].pc \in {"mail", "ok"}
  <2>1. requestPasswordReset(e) \/ SaveReset(e) \/ MailLink(e)
    BY <1>4 DEF AccountStep, FindDuplicate, CountUsers, SaveUser, StoreConfirmationToken, confirmEmail,
       resendConfirmationEmail, FindByConfirmationToken, FindReset, completePasswordReset, RemoveReset,
       changePassword, ReadUserRow, SaveUserRow, googleAuth, Asks, RowSavers
  <2> QED BY <2>1, ToShape DEF requestPasswordReset, SaveReset, MailLink, Target
<1>5. ASSUME AccountStep(e), req[e].op = "changePassword"
      PROVE  \/ req'[e].pc = "update" /\ IsUser(req[e].on)
             \/ /\ req[e].pc = "update" /\ req'[e].pc = "ok"
                /\ GivesPassword(e, req[e].on)
  <2>1. changePassword(e)
    BY <1>5 DEF AccountStep, FindDuplicate, CountUsers, SaveUser, StoreConfirmationToken, confirmEmail, MailLink,
       resendConfirmationEmail, FindByConfirmationToken, requestPasswordReset, SaveReset, FindReset,
       completePasswordReset, RemoveReset, ReadUserRow, SaveUserRow, googleAuth, Asks, RowSavers
  <2>2. CASE To(e, IF IsUser(req[e].on) THEN "update" ELSE "error") BY <2>2, ToShape
  <2>3. CASE /\ req[e].pc = "update" /\ To(e, "ok")
             /\ tab' = [tab EXCEPT !.user[req[e].on].password = e]
    <3>1. tab'.user = [tab.user EXCEPT ![req[e].on] = [tab.user[req[e].on] EXCEPT !.password = e]]
      BY <2>3 DEF Shape, TableNames
    <3>2. GivesPassword(e, req[e].on) BY <3>1 DEF GivesPassword
    <3> QED BY <2>3, <3>2, ToShape
  <2> QED BY <2>1, <2>2, <2>3 DEF changePassword, Target, Asks
<1>6. ASSUME AccountStep(e), req[e].op = "completePasswordReset"
      PROVE  \/ req'[e].pc = "drop"
             \/ req'[e].pc = "update" /\ tab' = tab /\ tab.reset[req[e].on].state # "gone"
             \/ /\ req[e].pc = "update" /\ req'[e].pc = "remove"
                /\ GivesPassword(e, tab.reset[req[e].on].user)
             \/ req[e].pc = "remove" /\ req'[e].pc = "ok" /\ tab'.user = tab.user
  <2>1. CASE FindReset(e)
    <3>1. PICK p \in {"error", "drop", "update"} :
            To(e, p) /\ (p = "update" => tab.reset[req[e].on].state # "gone")
      BY <2>1, Zenon DEF FindReset, Target
    <3>2. tab' = tab BY <2>1 DEF FindReset
    <3>3. req'[e].pc = p BY <3>1, ToShape
    <3> QED BY <3>1, <3>2, <3>3
  <2>2. CASE completePasswordReset(e)
    <3>1. tab' = [tab EXCEPT !.user[tab.reset[req[e].on].user].password = e]
      BY <2>2, Zenon DEF completePasswordReset, Target
    <3> DEFINE o == tab.reset[req[e].on].user
    <3>2. tab' = [tab EXCEPT !.user[o].password = e] BY <3>1, Zenon
    <3>3. tab'.user = [tab.user EXCEPT ![o] = [tab.user[o] EXCEPT !.password = e]]
      <4> HIDE DEF o
      <4> QED BY <3>2 DEF Shape, TableNames
    <3>4. GivesPassword(e, o) BY <3>3, Zenon DEF GivesPassword
    <3>5. req[e].pc = "update" /\ req'[e].pc = "remove" BY <2>2, ToShape DEF completePasswordReset, Asks
    <3> QED BY <3>4, <3>5
  <2>3. CASE RemoveReset(e)
    <3>1. tab'.user = tab.user BY <2>3 DEF RemoveReset, Shape, TableNames
    <3>2. CASE req[e].pc = "drop"
      <4>1. To(e, "error") BY <2>3, <3>2 DEF RemoveReset
      <4> QED BY <4>1, ToShape
    <3>3. CASE req[e].pc = "remove"
      <4>1. To(e, "ok") BY <2>3, <3>3 DEF RemoveReset
      <4> QED BY <3>1, <3>3, <4>1, ToShape
    <3> QED BY <2>3, <3>2, <3>3 DEF RemoveReset
  <2>4. FindReset(e) \/ completePasswordReset(e) \/ RemoveReset(e)
    BY <1>6 DEF AccountStep, FindDuplicate, CountUsers, SaveUser, StoreConfirmationToken,
       MailLink, resendConfirmationEmail, FindByConfirmationToken, confirmEmail, requestPasswordReset, SaveReset,
       changePassword, ReadUserRow, SaveUserRow, googleAuth, Asks, RowSavers
  <2> QED BY <2>1, <2>2, <2>3, <2>4
<1> QED BY <1>2, <1>3, <1>4, <1>5, <1>6

\* Only a Google sign-in becomes another call.
LEMMA AccountOp ==
  ASSUME CallsInv, NEW e \in Requesters, RequestStep(e), req'[e].op \notin RowSavers
  PROVE  req'[e].op = req[e].op
BY ReceiveFrame, FailFrame, ExpiresFrame, StyleFrame, NamedFrame, TemplateFrame, AccountFrame
   DEF CallsInv, RequestStep, AccountOwn, RowSavers

LEMMA TokenStep ==
  ASSUME CallsInv, UserType, ResetType, TokenInv, [RequestsNext]_requestVars PROVE TokenInv'
<1>1. CASE UNCHANGED requestVars BY <1>1 DEF requestVars, TokenInv, Holds, IsUser
<1>2. ASSUME NEW e \in Requesters, RequestStep(e) PROVE TokenInv'
  <2>1. /\ \A c \in Requesters : c # e => req'[c] = req[c]
        /\ \A c \in Requesters : req'[c].on = req[c].on
    BY <1>2, UserEffect
  <2>2. /\ DOMAIN tab'.user = DOMAIN tab.user
        /\ \A u : Holds(u) => u \in DOMAIN tab'.user /\ tab'.user[u] # NoUser
    BY <1>2, UsersStay DEF Holds
  <2>3. ASSUME NEW u \in DOMAIN tab.user, tab'.user[u].token \in Requesters
        PROVE  u = req[tab'.user[u].token].on
    <3>1. CASE tab'.user[u] = tab.user[u] BY <2>3, <3>1 DEF TokenInv
    <3>2. DOMAIN tab.user[u] = RowFields BY DEF UserType
    <3>3. CASE Stores(e, u) BY <3>2, <3>3 DEF Stores, RowFields
    <3>4. CASE Confirms(e, u)
      <4>1. tab'.user[u].token = "none" BY <3>2, <3>4 DEF Confirms, RowFields
      <4> QED BY <2>3, <4>1, RequestersAssumption
    <3>5. CASE Sets(e, u)
      <4>1. tab'.user[u].token = tab.user[u].token BY <3>2, <3>5 DEF Sets, RowFields
      <4> QED BY <2>3, <4>1 DEF TokenInv
    <3>6. CASE Overwrites(e, u) BY <2>3, <3>6 DEF Overwrites, TokenInv
    <3>7. CASE Enters(e, u) BY <2>3, <3>7, RequestersAssumption DEF Enters, TokenInv
    <3> QED BY <1>2, <3>1, <3>3, <3>4, <3>5, <3>6, <3>7, WhoWrites
  <2>4. ASSUME NEW c \in Requesters, req'[c].op \in {"register", "googleAuth"}, req'[c].pc = "save"
        PROVE  req'[c].row.token = "none"
    <3>1. CASE req'[c] = req[c] BY <2>4, <3>1 DEF TokenInv
    <3>2. CASE c = e /\ req' # req
      <4>1. ~Receive(e) BY <2>4, <3>2, ReceiveFrame DEF CallsInv
      <4> QED BY <1>2, <2>4, <3>2, <4>1, UserEffect DEF Counts, Makes, Reads, Joins, SavesRow, GoesOn, RowSavers
    <3> QED BY <2>1, <3>1, <3>2
  <2>5. ASSUME NEW c \in Requesters, req'[c].op \in RowSavers, req'[c].pc = "save",
               req'[c].row.token \in Requesters
        PROVE  req[c].on = req[req'[c].row.token].on
    <3>1. CASE req'[c] = req[c] BY <2>5, <3>1 DEF TokenInv
    <3>2. CASE c = e /\ req' # req
      <4>1. ~Receive(e) BY <2>5, <3>2, ReceiveFrame DEF CallsInv
      <4>2. Reads(e)
        BY <1>2, <2>5, <3>2, <4>1, UserEffect DEF Counts, Makes, Joins, SavesRow, GoesOn, RowSavers
      <4>3. req'[c].row = tab.user[req[c].on] /\ req[c].on \in DOMAIN tab.user
        BY <3>2, <4>2 DEF Reads, UserType
      <4> QED BY <2>5, <4>3 DEF TokenInv
    <3> QED BY <2>1, <3>1, <3>2
  <2>6. ASSUME NEW c \in Requesters, req'[c].op = "confirmEmail", req'[c].pc \in {"update", "ok"},
               NEW u \in req'[c].todo
        PROVE  /\ u \in DOMAIN tab'.user /\ tab'.user[u] # NoUser
               /\ u = req[req[c].on].on
    <3>1. req[c].op = "confirmEmail" /\ req[c].on \in Requesters
      <4>1. req[c].op = "confirmEmail" BY <1>2, <2>1, <2>6, AccountOp DEF RowSavers
      <4> QED BY <4>1 DEF ResetType, TokenOps
    <3>2. CASE req'[c] = req[c] BY <2>2, <2>6, <3>2 DEF TokenInv
    <3>3. CASE c = e /\ req' # req
      <4>1. ~Receive(e) BY <2>6, <3>3, ReceiveFrame DEF CallsInv
      <4>2. CASE tab' = tab /\ req'[e].todo = {v \in DOMAIN tab.user : tab.user[v].token = req[e].on}
        <5>1. u \in DOMAIN tab.user /\ tab.user[u].token = req[c].on BY <2>6, <3>3, <4>2
        <5>2. tab.user[u] # NoUser BY <3>1, <5>1, RequestersAssumption DEF NoUser
        <5> QED BY <3>1, <4>2, <5>1, <5>2 DEF TokenInv
      <4>3. CASE req[e].pc = "update" /\ req'[e].todo = req[e].todo
        BY <2>2, <2>6, <3>1, <3>3, <4>3 DEF TokenInv
      <4> QED BY <1>2, <2>6, <3>1, <3>3, <4>1, <4>2, <4>3, OwnSteps
    <3> QED BY <2>1, <3>2, <3>3
  <2>7. ASSUME NEW c \in Requesters
        PROVE  /\ req'[c].op \in {"register", "googleAuth"} /\ req'[c].pc = "save" => req'[c].row.token = "none"
               /\ req'[c].op \in RowSavers /\ req'[c].pc = "save" /\ req'[c].row.token \in Requesters =>
                    req'[c].on = req'[req'[c].row.token].on
               /\ req'[c].op = "confirmEmail" /\ req'[c].pc \in {"update", "ok"} =>
                    \A u \in req'[c].todo : /\ u \in DOMAIN tab'.user /\ tab'.user[u] # NoUser
                                            /\ u = req'[req'[c].on].on
    <3>1. req'[c].op \in {"register", "googleAuth"} /\ req'[c].pc = "save" => req'[c].row.token = "none"
      BY <2>4
    <3>2. req'[c].op \in RowSavers /\ req'[c].pc = "save" /\ req'[c].row.token \in Requesters =>
            req'[c].on = req'[req'[c].row.token].on
      BY <2>1, <2>5
    <3>3. req'[c].op = "confirmEmail" => req[c].on \in Requesters
      <4>1. req'[c].op = "confirmEmail" => req[c].op = "confirmEmail"
        BY <1>2, <2>1, AccountOp DEF RowSavers
      <4> QED BY <4>1 DEF ResetType, TokenOps
    <3>4. req'[c].op = "confirmEmail" /\ req'[c].pc \in {"update", "ok"} =>
            \A u \in req'[c].todo : /\ u \in DOMAIN tab'.user /\ tab'.user[u] # NoUser
                                    /\ u = req'[req'[c].on].on
      BY <2>1, <2>6, <3>3
    <3> QED BY <3>1, <3>2, <3>4
  <2>8. \A u \in DOMAIN tab'.user : tab'.user[u].token \in Requesters => u = req'[tab'.user[u].token].on
    BY <2>1, <2>2, <2>3
  <2> QED BY <2>7, <2>8 DEF TokenInv, Holds, IsUser
<1> QED BY <1>1, <1>2 DEF RequestsNext

LEMMA OwnerStep ==
  ASSUME CallsInv, UserType, ResetType, ResetInv, OwnerInv, [RequestsNext]_requestVars PROVE OwnerInv'
<1>1. CASE UNCHANGED requestVars BY <1>1 DEF requestVars, OwnerInv, Holds, IsUser
<1>2. ASSUME NEW e \in Requesters, RequestStep(e) PROVE OwnerInv'
  <2> DEFINE HoldsNext(u) == u \in DOMAIN tab'.user /\ tab'.user[u] # NoUser
  <2>1. /\ \A c \in Requesters : c # e => req'[c] = req[c]
        /\ \A c \in Requesters : req'[c].on = req[c].on
    BY <1>2, UserEffect
  <2>2. \A u : Holds(u) => HoldsNext(u) BY <1>2, UsersStay DEF Holds
  <2>3. \A r \in Requesters :
          \/ tab'.reset[r].user = tab.reset[r].user /\ (tab'.reset[r].state # "gone" => tab.reset[r].state # "gone")
          \/ /\ r = e /\ req[r].op = "requestPasswordReset" /\ req[r].pc = "save"
             /\ tab'.reset[r].user = req[r].on
    <3>1. CASE ResetExpires(e)
      <4>1. tab'.reset = [tab.reset EXCEPT ![e].state = "expired"] /\ tab.reset[e].state = "live"
        BY <3>1, ExpiresFrame DEF CallsInv, ResetExpires
      <4> QED BY <4>1 DEF ResetType
    <3>2. CASE tab'.reset = tab.reset BY <3>2
    <3>3. CASE tab'.reset = [tab.reset EXCEPT ![req[e].on].state = "gone"] BY <3>3 DEF ResetType
    <3>4. CASE /\ req[e].op = "requestPasswordReset" /\ req[e].pc = "save"
               /\ tab'.reset = [tab.reset EXCEPT ![e] = [user |-> req[e].on, state |-> "live"]]
      BY <3>4 DEF ResetType
    <3> QED BY <1>2, <3>1, <3>2, <3>3, <3>4, ResetEffect
  <2>4. \A r \in Requesters : Past(r) => tab'.reset[r].user = tab.reset[r].user
    BY <2>3 DEF Past, IsPast
  <2>5. ASSUME NEW r \in Requesters, tab'.reset[r].state # "gone" PROVE HoldsNext(tab'.reset[r].user)
    <3>1. Holds(tab'.reset[r].user) BY <2>3, <2>5 DEF OwnerInv
    <3> HIDE DEF HoldsNext
    <3> QED BY <2>2, <3>1
  <2>6. ASSUME NEW c \in Requesters, req'[c].op = "requestPasswordReset", req'[c].pc = "save"
        PROVE  HoldsNext(req[c].on)
    <3>1. CASE req'[c] = req[c]
      <4>1. Holds(req[c].on) BY <2>6, <3>1 DEF OwnerInv
      <4> QED BY <2>2, <4>1
    <3>2. CASE c = e /\ req' # req
      <4>1. ~Receive(e) BY <2>6, <3>2, ReceiveFrame DEF CallsInv
      <4>2. req[e].op = "requestPasswordReset" BY <1>2, <2>6, <3>2, ResetEffect
      <4>3. Holds(req[c].on)
        BY <1>2, <2>6, <3>2, <4>1, <4>2, OwnSteps DEF Holds, UserType, UserOps
      <4> QED BY <2>2, <4>3
    <3> QED BY <2>1, <3>1, <3>2
  <2>7. ASSUME NEW c \in Requesters, req'[c].op = "changePassword", req'[c].pc \in {"update", "remove", "ok"}
        PROVE  HoldsNext(req[c].on)
    <3>1. CASE req'[c] = req[c]
      <4>1. Holds(req[c].on) BY <2>7, <3>1 DEF OwnerInv
      <4> QED BY <2>2, <4>1
    <3>2. CASE c = e /\ req' # req
      <4>1. ~Receive(e) BY <2>7, <3>2, ReceiveFrame DEF CallsInv
      <4>2. req[e].op = "changePassword" BY <1>2, <2>7, <3>2, AccountOp DEF RowSavers
      <4>3. Holds(req[c].on)
        BY <1>2, <2>7, <3>2, <4>1, <4>2, OwnSteps DEF Holds, UserType, UserOps, OwnerInv
      <4> QED BY <2>2, <4>3
    <3> QED BY <2>1, <3>1, <3>2
  <2>8. ASSUME NEW c \in Requesters, req'[c].op = "completePasswordReset",
               req'[c].pc \in {"update", "remove", "ok"}
        PROVE  HoldsNext(tab'.reset[req[c].on].user)
    <3>1. req[c].op = "completePasswordReset" /\ req[c].on \in Requesters
      <4>1. req[c].op = "completePasswordReset" BY <1>2, <2>1, <2>8, AccountOp DEF RowSavers
      <4> QED BY <4>1 DEF ResetType, TokenOps
    <3>2. Holds(tab.reset[req[c].on].user) /\ Past(req[c].on)
      <4>1. CASE req'[c] = req[c] BY <2>8, <4>1 DEF OwnerInv, ResetInv
      <4>2. CASE c = e /\ req' # req
        <5>1. ~Receive(e) BY <2>8, <4>2, ReceiveFrame DEF CallsInv
        <5>2. \/ tab.reset[req[e].on].state # "gone" \/ req[e].pc = "update" \/ req[e].pc = "remove"
          BY <1>2, <2>8, <3>1, <4>2, <5>1, OwnSteps
        <5> QED BY <3>1, <4>2, <5>2 DEF OwnerInv, ResetInv
      <4> QED BY <2>1, <4>1, <4>2
    <3>3. tab'.reset[req[c].on].user = tab.reset[req[c].on].user BY <2>4, <3>1, <3>2
    <3> HIDE DEF HoldsNext
    <3> QED BY <2>2, <3>2, <3>3
  <2>9. OwnerInv' = /\ \A r \in Requesters : tab'.reset[r].state # "gone" => HoldsNext(tab'.reset[r].user)
                    /\ \A c \in Requesters :
                         /\ req'[c].op = "requestPasswordReset" /\ req'[c].pc = "save" => HoldsNext(req'[c].on)
                         /\ req'[c].op = "changePassword" /\ req'[c].pc \in {"update", "remove", "ok"} =>
                              HoldsNext(req'[c].on)
                         /\ req'[c].op = "completePasswordReset" /\ req'[c].pc \in {"update", "remove", "ok"} =>
                              HoldsNext(tab'.reset[req'[c].on].user)
    BY DEF OwnerInv, Holds, IsUser
  <2> HIDE DEF HoldsNext
  <2> QED BY <2>1, <2>5, <2>6, <2>7, <2>8, <2>9
<1> QED BY <1>1, <1>2 DEF RequestsNext

\* Another call sets a password and was not answered before c began.
OtherSet(c) == \E d \in Requesters \ {c} : SetsPassword(d) /\ d \notin req[c].before

\* What was answered is in the table and in every row that was read and is to be
\* saved, unless a call that overlapped is to blame.
ConfirmedInv ==
  \A c \in Requesters : req[c].op = "confirmEmail" /\ req[c].pc = "ok" /\ ~SavedOver(c) =>
    \A u \in req[c].todo :
      /\ tab.user[u].confirmed
      /\ \A d \in Requesters : req[d].op \in RowSavers /\ req[d].pc = "save" /\ req[d].on = u => req[d].row.confirmed

PasswordInv ==
  \A c \in Requesters :
    SetsPassword(c) /\ req[c].pc \in {"remove", "ok"} /\ ~SavedOver(c) /\ ~OtherSet(c) =>
      /\ tab.user[Owner(c)].password = c
      /\ \A d \in Requesters : req[d].op \in RowSavers /\ req[d].pc = "save" /\ req[d].on = Owner(c) =>
           req[d].row.password = c

\* Who overlapped has overlapped.
LEMMA BlameStays ==
  ASSUME CallsInv, NEW e \in Requesters, RequestStep(e), NEW c \in Requesters, req[c].pc # "new"
  PROVE  /\ req'[c].before = req[c].before
         /\ SavedOver(c) => SavedOver(c)'
         /\ OtherSet(c) => OtherSet(c)'
<1>1. \A d \in Requesters : req[d].pc # "new" => req'[d].before = req[d].before /\ req'[d].pc # "new"
  BY Moves, ReceiveFrame DEF CallsInv, Stays, Receive
<1>2. \A d \in Requesters : req[d].op # "googleAuth" => req'[d].op = req[d].op
  <2>1. ASSUME NEW d \in Requesters, req[d].op # "googleAuth" PROVE req'[d].op = req[d].op
    BY <2>1, ReceiveFrame, FailFrame, ExpiresFrame, StyleFrame, NamedFrame, TemplateFrame, AccountFrame
       DEF CallsInv, RequestStep, AccountOwn, Stays
  <2> QED BY <2>1
<1>3. SavedOver(c) => SavedOver(c)'
  <2> SUFFICES ASSUME NEW d \in Requesters, req[d].op \in RowSavers, Overlap(c, d)
               PROVE  req'[d].op \in RowSavers /\ Overlap(c, d)'
    BY DEF SavedOver
  <2>1. req'[d].op = req[d].op BY <1>2 DEF RowSavers
  <2> QED BY <1>1, <2>1 DEF Overlap
<1>4. OtherSet(c) => OtherSet(c)' BY <1>1, <1>2 DEF OtherSet, SetsPassword
<1> QED BY <1>1, <1>3, <1>4

\* A row that comes to be saved was read in this step.
LEMMA NewRows ==
  ASSUME CallsInv, UserType, NEW e \in Requesters, RequestStep(e),
         NEW d \in Requesters, req'[d].op \in RowSavers, req'[d].pc = "save", req'[d] # req[d]
  PROVE  req'[d].on = req[d].on /\ req'[d].row = tab.user[req[d].on] /\ tab' = tab
<1>1. d = e /\ req'[d].on = req[d].on /\ req' # req BY UserEffect
<1>2. ~Receive(e) BY <1>1, ReceiveFrame DEF CallsInv
<1>3. Reads(e) BY <1>1, <1>2, UserEffect DEF Counts, Makes, Joins, SavesRow, GoesOn, RowSavers
<1> QED BY <1>1, <1>3 DEF Reads

LEMMA ConfirmedStep ==
  ASSUME CallsInv, UserType, TokenInv, ConfirmedInv, [RequestsNext]_requestVars PROVE ConfirmedInv'
<1>1. CASE UNCHANGED requestVars BY <1>1 DEF requestVars, ConfirmedInv, SavedOver, Overlap
<1>2. ASSUME NEW e \in Requesters, RequestStep(e), NEW c \in Requesters,
             req'[c].op = "confirmEmail", req'[c].pc = "ok", ~SavedOver(c)', NEW u \in req'[c].todo
      PROVE  /\ tab'.user[u].confirmed
             /\ \A d \in Requesters :
                  req'[d].op \in RowSavers /\ req'[d].pc = "save" /\ req'[d].on = u => req'[d].row.confirmed
  <2>1. \A r \in Requesters : r # e => req'[r] = req[r] BY <1>2, UserEffect
  <2>2. req[c].op = "confirmEmail" BY <1>2, <2>1, AccountOp DEF RowSavers
  <2>3. CASE req'[c] = req[c]
    <3>1. ~SavedOver(c) BY <1>2, <2>3, BlameStays
    <3>2. /\ tab.user[u].confirmed
          /\ \A d \in Requesters : req[d].op \in RowSavers /\ req[d].pc = "save" /\ req[d].on = u =>
               req[d].row.confirmed
      BY <1>2, <2>3, <3>1 DEF ConfirmedInv
    <3>3. Holds(u) BY <1>2, <2>2, <2>3 DEF TokenInv
    <3>4. DOMAIN tab.user[u] = RowFields BY <3>3 DEF Holds, UserType
    <3>5. tab'.user[u].confirmed
      <4>1. CASE tab'.user[u] = tab.user[u] BY <3>2, <4>1
      <4>2. CASE Stores(e, u) BY <3>2, <3>4, <4>2 DEF Stores, RowFields
      <4>3. CASE Confirms(e, u) BY <3>4, <4>3 DEF Confirms, RowFields
      <4>4. CASE Sets(e, u) BY <3>2, <3>4, <4>4 DEF Sets, RowFields
      <4>5. CASE Overwrites(e, u) BY <3>2, <4>5 DEF Overwrites
      <4>6. ~Enters(e, u) BY <3>3 DEF Enters, Holds
      <4> QED BY <1>2, <3>3, <4>1, <4>2, <4>3, <4>4, <4>5, <4>6, WhoWrites DEF Holds
    <3>6. ASSUME NEW d \in Requesters, req'[d].op \in RowSavers, req'[d].pc = "save", req'[d].on = u
          PROVE  req'[d].row.confirmed
      <4>1. CASE req'[d] = req[d] BY <3>2, <3>6, <4>1
      <4>2. CASE req'[d] # req[d] BY <1>2, <3>2, <3>6, <4>2, NewRows
      <4> QED BY <4>1, <4>2
    <3> QED BY <3>5, <3>6
  <2>4. CASE c = e /\ req' # req
    <3>1. ~Receive(e) BY <1>2, <2>4, ReceiveFrame DEF CallsInv
    <3>2. /\ req[c].pc = "update" /\ req'[c].todo = req[c].todo
          /\ \E v \in req[c].todo : MakesConfirmed(v)
      BY <1>2, <2>2, <2>4, <3>1, OwnSteps
    <3>3. MakesConfirmed(u) /\ Holds(u) BY <1>2, <2>2, <3>2 DEF TokenInv
    <3>4. tab'.user[u].confirmed BY <3>3 DEF MakesConfirmed, Holds, UserType, RowFields
    <3>5. ASSUME NEW d \in Requesters, req'[d].op \in RowSavers, req'[d].pc = "save" PROVE FALSE
      <4>1. d # c /\ req'[d] = req[d] BY <1>2, <2>1, <2>4, <3>5
      <4>2. c \notin req[d].before /\ d \notin req[c].before BY <3>2, <3>5, <4>1 DEF CallsInv, OrderInv, Over
      <4>3. req'[c].before = req[c].before BY <1>2, <3>2, BlameStays
      <4>4. Overlap(c, d)' BY <3>5, <4>1, <4>2, <4>3 DEF Overlap
      <4> QED BY <1>2, <3>5, <4>4 DEF SavedOver
    <3> QED BY <3>4, <3>5
  <2> QED BY <2>1, <2>3, <2>4
<1>3. ASSUME NEW e \in Requesters, RequestStep(e) PROVE ConfirmedInv' BY <1>2, <1>3 DEF ConfirmedInv
<1> QED BY <1>1, <1>3 DEF RequestsNext

\* The user of a reset that was written stays.
LEMMA PastKeeps ==
  ASSUME CallsInv, ResetType, NEW e \in Requesters, RequestStep(e), NEW r \in Requesters, Past(r)
  PROVE  tab'.reset[r].user = tab.reset[r].user
<1>1. CASE ResetExpires(e)
  <2>1. tab'.reset = [tab.reset EXCEPT ![e].state = "expired"] BY <1>1, ExpiresFrame DEF CallsInv
  <2> QED BY <2>1 DEF ResetType
<1>2. CASE tab'.reset = tab.reset BY <1>2
<1>3. CASE tab'.reset = [tab.reset EXCEPT ![req[e].on].state = "gone"] BY <1>3 DEF ResetType
<1>4. CASE /\ req[e].op = "requestPasswordReset" /\ req[e].pc = "save"
           /\ tab'.reset = [tab.reset EXCEPT ![e] = [user |-> req[e].on, state |-> "live"]]
  BY <1>4 DEF ResetType, Past, IsPast
<1> QED BY <1>1, <1>2, <1>3, <1>4, ResetEffect

LEMMA PasswordStep ==
  ASSUME CallsInv, UserType, ResetType, ResetInv, OwnerInv, PasswordInv, [RequestsNext]_requestVars
  PROVE  PasswordInv'
<1>1. CASE UNCHANGED requestVars
  BY <1>1 DEF requestVars, PasswordInv, SavedOver, Overlap, OtherSet, SetsPassword, Owner
<1>2. ASSUME NEW e \in Requesters, RequestStep(e), NEW c \in Requesters,
             SetsPassword(c)', req'[c].pc \in {"remove", "ok"}, ~SavedOver(c)', ~OtherSet(c)'
      PROVE  /\ tab'.user[Owner(c)'].password = c
             /\ \A d \in Requesters :
                  req'[d].op \in RowSavers /\ req'[d].pc = "save" /\ req'[d].on = Owner(c)' =>
                    req'[d].row.password = c
  <2>1. /\ \A r \in Requesters : r # e => req'[r] = req[r]
        /\ \A r \in Requesters : req'[r].on = req[r].on
    BY <1>2, UserEffect
  <2>2. SetsPassword(c) /\ req'[c].op = req[c].op BY <1>2, <2>1, AccountOp DEF SetsPassword, RowSavers
  <2>3. /\ req[c].pc \in {"update", "remove", "ok"}
        /\ \/ req'[c] = req[c]
           \/ /\ c = e /\ req' # req /\ req[c].pc = "remove" /\ tab'.user = tab.user
           \/ /\ c = e /\ req' # req /\ req[c].pc = "update" /\ GivesPassword(c, Owner(c))
    <3>1. CASE c = e /\ req' # req
      <4>1. ~Receive(e) BY <1>2, <3>1, ReceiveFrame DEF CallsInv
      <4>2. CASE req[c].op = "changePassword" BY <1>2, <3>1, <4>1, <4>2, OwnSteps DEF Owner
      <4>3. CASE req[c].op = "completePasswordReset" BY <1>2, <3>1, <4>1, <4>3, OwnSteps DEF Owner
      <4> QED BY <2>2, <3>1, <4>2, <4>3 DEF SetsPassword
    <3>2. CASE req'[c] = req[c] BY <1>2, <3>2
    <3> QED BY <2>1, <3>1, <3>2
  <2>4. Owner(c)' = Owner(c) /\ Holds(Owner(c))
    <3>1. CASE req[c].op = "changePassword"
      BY <2>1, <2>2, <2>3, <3>1 DEF Owner, OwnerInv
    <3>2. CASE req[c].op = "completePasswordReset"
      <4>1. Holds(tab.reset[req[c].on].user) /\ Past(req[c].on) BY <2>3, <3>2 DEF OwnerInv, ResetInv
      <4>2. req[c].on \in Requesters BY <3>2 DEF ResetType, TokenOps
      <4>3. tab'.reset[req[c].on].user = tab.reset[req[c].on].user BY <1>2, <4>1, <4>2, PastKeeps
      <4> QED BY <2>1, <2>2, <3>2, <4>1, <4>3 DEF Owner
    <3> QED BY <2>2, <3>1, <3>2 DEF SetsPassword
  <2> DEFINE u == Owner(c)
  <2>5. DOMAIN tab.user[u] = RowFields BY <2>4 DEF Holds, UserType
  <2>6. ~SavedOver(c) /\ ~OtherSet(c) BY <1>2, <2>3, BlameStays
  <2>7. CASE req[c].pc \in {"remove", "ok"}
    <3>1. /\ tab.user[u].password = c
          /\ \A d \in Requesters : req[d].op \in RowSavers /\ req[d].pc = "save" /\ req[d].on = u =>
               req[d].row.password = c
      BY <2>2, <2>6, <2>7 DEF PasswordInv
    <3>2. tab'.user[u].password = c
      <4>1. CASE tab'.user[u] = tab.user[u] BY <3>1, <4>1
      <4>2. CASE Stores(e, u) BY <2>5, <3>1, <4>2 DEF Stores, RowFields
      <4>3. CASE Confirms(e, u) BY <2>5, <3>1, <4>3 DEF Confirms, RowFields
      <4>4. ~Sets(e, u)
        <5> SUFFICES ASSUME Sets(e, u) PROVE FALSE
          OBVIOUS
        <5>1. e # c /\ SetsPassword(e) /\ req[e].pc = "update" BY <2>7 DEF Sets
        <5>2. e \notin req[c].before BY <5>1 DEF CallsInv, OrderInv, Over
        <5> QED BY <2>6, <5>1, <5>2 DEF OtherSet
      <4>5. CASE Overwrites(e, u) BY <3>1, <4>5 DEF Overwrites
      <4>6. ~Enters(e, u) BY <2>4 DEF Enters, Holds
      <4> QED BY <1>2, <2>4, <4>1, <4>2, <4>3, <4>4, <4>5, <4>6, WhoWrites DEF Holds
    <3>3. ASSUME NEW d \in Requesters, req'[d].op \in RowSavers, req'[d].pc = "save", req'[d].on = u
          PROVE  req'[d].row.password = c
      <4>1. CASE req'[d] = req[d] BY <3>1, <3>3, <4>1
      <4>2. CASE req'[d] # req[d] BY <1>2, <3>1, <3>3, <4>2, NewRows
      <4> QED BY <4>1, <4>2
    <3> QED BY <2>4, <3>2, <3>3
  <2>8. CASE req[c].pc = "update"
    <3>1. c = e /\ req' # req /\ GivesPassword(c, u) BY <1>2, <2>3, <2>8
    <3>2. tab'.user[u].password = c
      <4>1. tab'.user[u] = [tab.user[u] EXCEPT !.password = c] BY <2>4, <3>1 DEF GivesPassword, Holds
      <4> QED BY <2>5, <4>1 DEF RowFields
    <3>3. ASSUME NEW d \in Requesters, req'[d].op \in RowSavers, req'[d].pc = "save" PROVE FALSE
      <4>1. d # c /\ req'[d] = req[d] BY <1>2, <2>1, <3>1, <3>3
      <4>2. c \notin req[d].before /\ d \notin req[c].before BY <2>8, <3>3, <4>1 DEF CallsInv, OrderInv, Over
      <4>3. req'[c].before = req[c].before BY <1>2, <2>8, BlameStays
      <4>4. Overlap(c, d)' BY <3>3, <4>1, <4>2, <4>3 DEF Overlap
      <4> QED BY <1>2, <3>3, <4>4 DEF SavedOver
    <3> QED BY <2>4, <3>2, <3>3
  <2> QED BY <2>3, <2>7, <2>8
<1>3. ASSUME NEW e \in Requesters, RequestStep(e) PROVE PasswordInv' BY <1>2, <1>3 DEF PasswordInv
<1> QED BY <1>1, <1>3 DEF RequestsNext

\* A confirmed e-mail stays confirmed and a new password stays the user's until
\* another is set: only a call that overlapped and saved a whole row it had read
\* before can undo them, for any calls and users.
THEOREM AnswersStick == ServicesSpec => []AnsweredSticks
<1>1. ASSUME RequestsInit
      PROVE  UserType /\ ResetType /\ ResetInv /\ TokenInv /\ OwnerInv /\ ConfirmedInv /\ PasswordInv
  <2>1. /\ \A c \in Requesters : /\ Begins(req[c], tab) /\ req[c].pc \in {"new", "error"}
                                 /\ req[c].before = {} /\ req[c].row = NoUser
        /\ \A u \in DOMAIN tab.user : DOMAIN tab.user[u] = DOMAIN NoUser /\ tab.user[u].token = "none"
        /\ tab.reset = [c \in Requesters |-> [user |-> "none", state |-> "gone"]]
    BY <1>1, CallsBegin
  <2>2. DOMAIN NoUser = RowFields BY DEF NoUser, RowFields
  <2>3. UserType BY <2>1, <2>2 DEF UserType, Begins
  <2>4. DOMAIN tab.reset = Requesters /\ \A r \in Requesters : tab.reset[r] = [user |-> "none", state |-> "gone"]
    BY <2>1
  <2>5. \A c \in Requesters : req[c].op \in TokenOps => req[c].on \in Requesters BY <2>1 DEF Begins
  <2>6. ResetType BY <2>4, <2>5 DEF ResetType
  <2>7. ResetInv /\ OwnerInv BY <2>1, <2>4 DEF ResetInv, OwnerInv
  <2>8. TokenInv BY <2>1, RequestersAssumption DEF TokenInv
  <2>9. ConfirmedInv /\ PasswordInv BY <2>1 DEF ConfirmedInv, PasswordInv
  <2> QED BY <2>3, <2>6, <2>7, <2>8, <2>9
<1>2. ASSUME ConfirmedInv, PasswordInv, OwnerInv PROVE AnsweredSticks
  <2>1. ASSUME NEW c \in Requesters, req[c].op = "confirmEmail", Answered(c)
        PROVE  (\A e \in req[c].todo : tab.user[e].confirmed) \/ SavedOver(c)
    BY <1>2, <2>1 DEF ConfirmedInv, Answered
  <2>2. ASSUME NEW c \in Requesters, SetsPassword(c), Answered(c), ~SavedOver(c), ~OtherSet(c)
        PROVE  \E e \in Registered : tab.user[e].password = c
    <3>1. tab.user[Owner(c)].password = c BY <1>2, <2>2 DEF PasswordInv, Answered
    <3>2. Holds(Owner(c)) BY <1>2, <2>2 DEF OwnerInv, Owner, SetsPassword, Answered
    <3> QED BY <3>1, <3>2 DEF Registered, Holds
  <2> QED BY <2>1, <2>2 DEF AnsweredSticks, OtherSet
<1> QED
  BY <1>1, <1>2, UserStep, ResetStep, TokenStep, OwnerStep, ConfirmedStep, PasswordStep, CallsInvariance,
     RequestsRun, PTL DEF RequestsSpec
=============================================================================
