------------------------------ MODULE MCInbox ------------------------------
EXTENDS Inbox, TLC

CONSTANTS a, b, c

\* A person's message, a steer and a task report.
OneOfEach == a :> "human" @@ b :> "steer" @@ c :> "report"

\* The report comes into sessions where no file, worker or card is lost and
\* nobody cancels the turn.  (Only inputs of the environment are left out; the
\* fair actions stay whole.)
Reported == item[c].state # "new"
Calm ==
  Reported => /\ faults = 0 /\ ~card
              /\ \A i \in Items : ~item[i].gone /\ item[i].error = "none"

MCNext == InboxNext /\ Calm' /\ ~(Reported /\ CancelSession)

MCSpec == InboxInit /\ [][MCNext]_inboxVars /\ Fairness
=============================================================================
