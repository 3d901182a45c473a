-------------------------------- MODULE Styles --------------------------------
(***************************************************************************)
(* styles.service.ts: which style the mails are written in.                *)
(***************************************************************************)
EXTENDS Requests, FiniteSetsExt

StyleOps == {"createStyle", "setActiveStyle", "updateStyle", "removeStyle"}

\* tab.style[s]: whether s is there, is active, and when it was created.
Exists(s) == tab.style[s].born > 0
ActiveStyles == {s \in DOMAIN tab.style : Exists(s) /\ tab.style[s].active}

\* The newest of the active ones, if there is one.
findActiveStyle ==
  {s \in ActiveStyles : \A t \in ActiveStyles : tab.style[t].born <= tab.style[s].born}

SetStyle(s, row) == tab' = [tab EXCEPT !.style[s] = row]

\* create: the name was looked for (Directory); the caller says whether it is active.
CreateStyle(c) ==
  /\ Asks(c, {"createStyle"}, "start")
  /\ \E active \in BOOLEAN : SetStyle(Target(c),
       [active |-> active, born |-> 1 + Max({tab.style[s].born : s \in DOMAIN tab.style})])
  /\ To(c, "ok")
  /\ UNCHANGED failures

\* Mutant of DeactivateAll: the one that is shown is deactivated.
DeactivateShown(c) ==
  /\ Asks(c, {"setActiveStyle"}, "start")
  /\ tab' = [tab EXCEPT !.style = [s \in DOMAIN @ |-> [@[s] EXCEPT !.active = @ /\ s \notin findActiveStyle]]]
  /\ To(c, "find")
  /\ UNCHANGED failures

\* setActiveStyle: all of them are deactivated, then the one is read ...
DeactivateAll(c) ==
  /\ Asks(c, {"setActiveStyle"}, "start")
  /\ tab' = [tab EXCEPT !.style = [s \in DOMAIN @ |-> [@[s] EXCEPT !.active = FALSE]]]
  /\ To(c, "find")
  /\ UNCHANGED failures

\* ... as update and remove read theirs.
FindStyle(c) ==
  /\ \/ Asks(c, {"setActiveStyle"}, "find")
     \/ Asks(c, {"updateStyle", "removeStyle"}, "start")
  /\ IF Exists(Target(c))
     THEN ToWith(c, "save", [req[c] EXCEPT !.seen = {tab.style[Target(c)]}])
     ELSE To(c, "error")
  /\ UNCHANGED <<tab, failures>>

\* The whole row is saved as it was read, activated or with what the caller says.
SaveStyle(c) ==
  /\ Asks(c, {"setActiveStyle", "updateStyle"}, "save")
  /\ \E row \in req[c].seen, active \in BOOLEAN :
       /\ req[c].op = "setActiveStyle" => active
       /\ SetStyle(Target(c), [row EXCEPT !.active = active])
  /\ To(c, "ok")
  /\ UNCHANGED failures

RemoveStyle(c) ==
  /\ Asks(c, {"removeStyle"}, "save")
  /\ SetStyle(Target(c), [active |-> FALSE, born |-> 0])
  /\ To(c, "ok")
  /\ UNCHANGED failures

StyleStep(c) == CreateStyle(c) \/ DeactivateAll(c) \/ FindStyle(c) \/ SaveStyle(c) \/ RemoveStyle(c)

\* After an activation that overlapped no other call the mails are written in its
\* style, whatever was active, failed half-way or was saved from a stale row before.
LastActivationShows ==
  \A c \in Requesters : req[c].op = "setActiveStyle" /\ IsLast(c) => findActiveStyle = {Target(c)}
=============================================================================
