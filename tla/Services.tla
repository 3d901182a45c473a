------------------------------- MODULE Services -------------------------------
(***************************************************************************)
(* The services beside the account buffer and the back office.  They share *)
(* no state with each other, so they are put side by side: in a behaviour  *)
(* one of them runs and the others rest.                                   *)
(***************************************************************************)
EXTENDS Styles, Accounts, Directory, Templates, FazoToken, Positions,
        RiskRules, Seeds

CONSTANTS Scenarios   \* the requests that are made at once, on which tables

\* The requests have not begun; nothing they will make is there, and what they
\* are about is in the tables.
Begins(r, table) ==
  /\ \E pc \in {"new", "error"} : r = [Request(r.op, r.on) EXCEPT !.pc = pc]
  /\ r.op \in StyleOps => r.on \in DOMAIN table.style
  /\ r.op \in UserOps => r.on \in DOMAIN table.user
  /\ r.op \in TokenOps => r.on \in Requesters
  /\ r.op \in NamedOps => r.on.kind \in DOMAIN Rows /\ r.on.name # "none"
  /\ r.op \in {"renameNamed", "removeNamed"} => r.on.row \in DOMAIN table.named

ASSUME ScenariosAssumption ==
  /\ Scenarios # {}
  /\ \A s \in Scenarios :
       /\ DOMAIN s.tab = {"style", "user", "reset", "mailed", "named", "balances", "stages", "parameters"}
       /\ DOMAIN s.req = Requesters /\ \A c \in Requesters : Begins(s.req[c], s.tab)
       /\ IsFiniteSet(DOMAIN s.tab.style) /\ DOMAIN s.tab.style # {}
       /\ s.tab.style \in [DOMAIN s.tab.style -> [active : BOOLEAN, born : Nat]]
       /\ \A u \in DOMAIN s.tab.user :
            DOMAIN s.tab.user[u] = DOMAIN NoUser /\ s.tab.user[u].token = "none"
       /\ \A r \in DOMAIN s.tab.named : s.tab.named[r].by = "none"
       /\ KeysAreUnique(s.tab.named)
       /\ s.tab.reset = [c \in Requesters |-> [user |-> "none", state |-> "gone"]]
       /\ s.tab.mailed = {} /\ s.tab.balances = {} /\ s.tab.stages = {} /\ s.tab.parameters = {}

VARIABLE part

servicesVars == <<part, requestVars, fazoVars, positionVars, riskVars, seedVars>>

RequestStep(c) ==
  \/ Receive(c) \/ Fail(c) \/ ResetExpires(c)
  \/ StyleStep(c) \/ AccountStep(c) \/ NamedStep(c) \/ TemplateStep(c)

One(S) == {CHOOSE x \in S : TRUE}

\* A part that rests does so in one of its initial states.
ServicesInit ==
  /\ part \in {"requests", "fazo", "positions", "risk", "seeds"}
  /\ \E s \in IF part = "requests" THEN Scenarios ELSE One(Scenarios) :
       req = s.req /\ tab = s.tab /\ failures = 0
  /\ FazoInit
  /\ PositionsInit /\ (part = "positions" \/ broker.balance \in One(Balances))
  /\ RiskInit
  /\ part = "risk" \/ (clock = 0 /\ rules \in One(Configured) /\ judged.initial \in One(Equities))
  /\ SeedsInit /\ (part = "seeds" \/ queue \in One(Workloads))

RequestsInit == \E s \in Scenarios : req = s.req /\ tab = s.tab /\ failures = 0

RequestsNext == \E c \in Requesters : RequestStep(c)

RequestsSpec == RequestsInit /\ [][RequestsNext]_requestVars

ServicesNext ==
  /\ UNCHANGED part
  /\ \/ /\ part = "requests" /\ RequestsNext
        /\ UNCHANGED <<fazoVars, positionVars, riskVars, seedVars>>
     \/ /\ part = "fazo" /\ FazoNext
        /\ UNCHANGED <<requestVars, positionVars, riskVars, seedVars>>
     \/ /\ part = "positions" /\ PositionsNext
        /\ UNCHANGED <<requestVars, fazoVars, riskVars, seedVars>>
     \/ /\ part = "risk" /\ RiskNext
        /\ UNCHANGED <<requestVars, fazoVars, positionVars, seedVars>>
     \/ /\ part = "seeds" /\ SeedsNext
        /\ UNCHANGED <<requestVars, fazoVars, positionVars, riskVars>>

ServicesSpec == ServicesInit /\ [][ServicesNext]_servicesVars
=============================================================================
