------------------------------ MODULE Templates ------------------------------
(***************************************************************************)
(* The configuration of one relation: its balances, which a submission     *)
(* replaces, its stages with their parameters, which a submission adds row *)
(* by row, and the chain a reader puts together in several queries.        *)
(***************************************************************************)
EXTENDS Requests

CONSTANT Rules   \* the rules each submitted stage has

TemplateOps == {"createRelationBalances", "createRelationBalance", "createRelationStages",
                "findCompleteRelationChain"}

\* Mutant of removeAllRelationBalancesByRelation: only what is asked for again.
removeResubmitted(c) ==
  /\ Asks(c, {"createRelationBalances"}, "start")
  /\ tab' = [tab EXCEPT !.balances = {row \in @ : row[2] \notin Target(c)}]
  /\ To(c, "save")
  /\ UNCHANGED failures

\* createRelationBalances: all rows of the relation are deleted ...
removeAllRelationBalancesByRelation(c) ==
  /\ Asks(c, {"createRelationBalances"}, "start")
  /\ tab' = [tab EXCEPT !.balances = {}]
  /\ To(c, "save")
  /\ UNCHANGED failures

\* ... and one save, a transaction, inserts those of the submission.
createRelationBalances(c) ==
  /\ Asks(c, {"createRelationBalances"}, "save")
  /\ tab' = [tab EXCEPT !.balances = @ \cup {<<c, b>> : b \in Target(c)}]
  /\ To(c, "ok")
  /\ UNCHANGED failures

\* createRelationBalance inserts one row.
createRelationBalance(c) ==
  /\ Asks(c, {"createRelationBalance"}, "start")
  /\ tab' = [tab EXCEPT !.balances = @ \cup {<<c, b>> : b \in Target(c)}]
  /\ To(c, "ok")
  /\ UNCHANGED failures

\* createRelationStages saves a stage, then a parameter for each of its rules.
SaveRelationStage(c) ==
  /\ Asks(c, {"createRelationStages"}, "start")
  /\ tab' = [tab EXCEPT !.stages = @ \cup {c}]
  /\ ToWith(c, "parameters", [req[c] EXCEPT !.todo = Rules])
  /\ UNCHANGED failures

\* Mutant of SaveStageParameter: the loop is not awaited.
SaveOneParameter(c) ==
  /\ Asks(c, {"createRelationStages"}, "parameters")
  /\ \E r \in req[c].todo : tab' = [tab EXCEPT !.parameters = @ \cup {<<c, r>>}]
  /\ To(c, "ok")
  /\ UNCHANGED failures

SaveStageParameter(c) ==
  /\ Asks(c, {"createRelationStages"}, "parameters")
  /\ \E r \in req[c].todo :
       /\ tab' = [tab EXCEPT !.parameters = @ \cup {<<c, r>>}]
       /\ ToWith(c, IF req[c].todo = {r} THEN "ok" ELSE "parameters", [req[c] EXCEPT !.todo = @ \ {r}])
  /\ UNCHANGED failures

\* findCompleteRelationChain reads the relation with balances and stages, then
\* the parameters of one stage after the other.
ReadRelation(c) ==
  /\ Asks(c, {"findCompleteRelationChain"}, "start")
  /\ ToWith(c, IF tab.stages = {} THEN "ok" ELSE "stages", [req[c] EXCEPT !.todo = tab.stages])
  /\ UNCHANGED <<tab, failures>>

findCompleteRelationChain(c) ==
  /\ Asks(c, {"findCompleteRelationChain"}, "stages")
  /\ \E s \in req[c].todo :
       ToWith(c, IF req[c].todo = {s} THEN "ok" ELSE "stages",
              [req[c] EXCEPT !.todo = @ \ {s}, !.seen = @ \cup {<<s, {p \in tab.parameters : p[1] = s}>>}])
  /\ UNCHANGED <<tab, failures>>

TemplateStep(c) ==
  \/ removeAllRelationBalancesByRelation(c) \/ createRelationBalances(c) \/ createRelationBalance(c)
  \/ SaveRelationStage(c) \/ SaveStageParameter(c) \/ ReadRelation(c) \/ findCompleteRelationChain(c)

\* After a submission that overlapped no other call the balances of the relation
\* are those it asked for, also after one that failed between its two queries.
SubmissionReplaces ==
  \A c \in Requesters : req[c].op = "createRelationBalances" /\ IsLast(c) =>
    tab.balances = {<<c, b>> : b \in Target(c)}

\* A chain lacks a parameter only of a stage whose submission was not answered
\* when the reader began: it is read in several queries but never mixes more.
ChainIsWhole ==
  \A c, s \in Requesters :
    Answered(c) /\ req[c].op = "findCompleteRelationChain"
    /\ req[s].op = "createRelationStages" /\ Answered(s) /\ s \in req[c].before =>
      <<s, {<<s, r>> : r \in Rules}>> \in req[c].seen
=============================================================================
