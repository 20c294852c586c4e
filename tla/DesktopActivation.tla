-------------------------- MODULE DesktopActivation --------------------------
(***************************************************************************)
(* The consumer of the payment outbox that gives a paying workspace its     *)
(* cloud desktop and takes it away when the term ends                       *)
(* (sandbox/desktop_activation.py), for one workspace.                      *)
(*                                                                          *)
(* Workers of several processes share one row under a lease.  Buying a      *)
(* machine or another month of it cannot be repeated safely, because the    *)
(* cloud offers no idempotency key: an intent is saved first, and whoever   *)
(* finds an intent reconciles it against what the cloud shows, which lags.  *)
(* A worker may crash or lose its lease anywhere, and a request it has sent *)
(* lives on without it.                                                     *)
(*                                                                          *)
(* Time passes in months; a worker is due whenever the lease is free        *)
(* (next_run_at and the backoff only delay it).                             *)
(***************************************************************************)
EXTENDS Naturals, FiniteSets

CONSTANTS Workers,       \* concurrent consumers, one run each
          Machines,      \* machines that can be bought for the workspace
          Pooled,        \* prewarmed machines, of which some are in the pool
          None,          \* no machine, no worker, no attempt
          Attempts,      \* channel attempt ids, more than can be in use
          MaxMonths,     \* bound on the months that pass and are paid for
          MaxFailures,   \* bound on cloud calls that answer with an error
          MaxCrashes,    \* bound on crashes and cancellations
          MaxExpiries    \* bound on leases that run out under a live worker

\* Names are kept apart, and attempt ids do not run out.
ActivationConstants ==
    /\ None \notin Workers \cup Machines \cup Pooled \cup Attempts
    /\ Machines \cap Pooled = {}
    /\ IsFiniteSet(Workers) /\ IsFiniteSet(Attempts)
    /\ Cardinality(Attempts) > Cardinality(Workers) + 1
    /\ MaxMonths \in Nat
ASSUME ActivationAssumption == ActivationConstants

VARIABLES
    month, paidUntil,    \* the month, and the month the paid term ends in
    act,                 \* the row of desktop_activations
    desk,                \* the row of cloud_desktops of the workspace
    cloud,               \* what ECD knows of each machine
    at, see,             \* each worker's next statement and what it has read
    sent,                \* requests on their way to ECD
    faults,              \* failures, crashes and expiries so far; left counts
                         \* the cancellations with a request under way
    world                \* what holds of the cloud throughout a behaviour:
                         \* prompt: a request sent is done with before its lease
                         \* ends; lags: the answers that may not show a new
                         \* machine yet, "list" by tag and "describe" by id

activationVars == <<month, paidUntil, act, desk, cloud, at, see, sent, faults>>

All == Machines \cup Pooled
Paid == month < paidUntil  \* active_subscription with a plan other than free
NoDesk == [row |-> FALSE, id |-> None, attempt |-> None,
           assigning |-> FALSE, up |-> FALSE, paidTo |-> 0]
Blank == [kind |-> "none", base |-> 0, step |-> "queued",
          desk |-> [row |-> FALSE, id |-> None, attempt |-> None, assigning |-> FALSE],
          got |-> None, paidTo |-> 0]

ActivationInit ==
    /\ month = 0 /\ paidUntil = 0
    /\ act = [state |-> "none", step |-> "queued", kind |-> "none",
              base |-> 0, lease |-> None]
    /\ desk = NoDesk
    /\ \E stock \in SUBSET Pooled :
         cloud = [m \in All |->
           [there |-> m \in stock, shown |-> m \in stock, tagged |-> FALSE,
            granted |-> FALSE, on |-> m \in stock,
            paidTo |-> IF m \in stock THEN 1 ELSE 0,
            shownTo |-> IF m \in stock THEN 1 ELSE 0]]
    /\ at = [w \in Workers |-> "idle"]
    /\ see = [w \in Workers |-> Blank]
    /\ sent = {}
    /\ faults = [fail |-> 0, crash |-> 0, expire |-> 0, left |-> 0]
    /\ world \in [prompt : BOOLEAN, lags : SUBSET {"list", "describe"}]

-----------------------------------------------------------------------------
(* Payments and the passing of time.                                        *)

\* enqueue_subscription_activation: the row is queued anew unless a worker
\* holds it; neither its lease nor an unresolved purchase is touched.
Enqueue(j) ==
    IF j.lease = None THEN [j EXCEPT !.state = "queued", !.step = "queued"] ELSE j

Pay ==
    /\ paidUntil' = (IF Paid THEN paidUntil ELSE month) + 1
    /\ paidUntil' <= MaxMonths
    /\ act' = Enqueue(act)
    /\ UNCHANGED <<month, desk, cloud, at, see, sent, faults>>

\* The term runs out, or an operator cancels it.
MonthPasses ==
    /\ month < MaxMonths
    /\ month' = month + 1
    /\ UNCHANGED <<paidUntil, act, desk, cloud, at, see, sent, faults>>
Cancel ==
    /\ Paid
    /\ paidUntil' = month
    /\ UNCHANGED <<month, act, desk, cloud, at, see, sent, faults>>

-----------------------------------------------------------------------------
(* ECD: requests land late or fail, and what it shows lags behind.          *)

Sent(w, op, m) == sent' = sent \cup {[who |-> w, op |-> op, m |-> m]}
Answered(w) == \A f \in sent : f.who # w

Effect(f, m) ==
    CASE f.op = "create" ->
           [cloud EXCEPT ![m] = [there |-> TRUE, shown |-> FALSE, tagged |-> TRUE,
              granted |-> TRUE, on |-> TRUE, paidTo |-> month + 1, shownTo |-> month + 1]]
      [] f.op = "renew"  -> [cloud EXCEPT ![m].paidTo = @ + 1]
      [] f.op = "grant"  -> [cloud EXCEPT ![m].granted = TRUE]
      [] f.op = "revoke" -> [cloud EXCEPT ![m].granted = FALSE]

Target(f) == IF f.op = "create" THEN {m \in Machines : ~cloud[m].there} ELSE {f.m}

\* Entitlements change on running machines only.
Accepted(f) == f.op \in {"grant", "revoke"} => cloud[f.m].on

\* verify_ownership: the machine carries the workspace's tag.
Verified(m) == cloud[m].tagged

\* The request takes effect; its sender, if it still waits, gets the answer.
Land(f) ==
    /\ Accepted(f)
    /\ sent' = sent \ {f}
    /\ \E m \in Target(f) :
         /\ cloud' = Effect(f, m)
         /\ IF f.who = None THEN UNCHANGED see
            ELSE see' = [see EXCEPT ![f.who].got = m]
    /\ UNCHANGED <<month, paidUntil, act, desk, at, faults>>

\* The request is refused, or takes effect and its answer is lost: the sender
\* sees an exception either way.  A request whose sender is gone may be lost.
RequestFails(f) ==
    /\ IF f.who = None \/ ~Accepted(f) THEN UNCHANGED faults
       ELSE /\ faults.fail < MaxFailures
            /\ faults' = [faults EXCEPT !.fail = @ + 1]
    /\ sent' = sent \ {f}
    /\ \/ UNCHANGED cloud
       \/ Accepted(f) /\ \E m \in Target(f) : cloud' = Effect(f, m)
    /\ at' = IF f.who = None THEN at ELSE [at EXCEPT ![f.who] = "failed"]
    /\ UNCHANGED <<month, paidUntil, act, desk, see>>

\* ECD lists a new machine, and shows the month it is really paid to.
Show(m) ==
    /\ cloud[m].there
    /\ ~cloud[m].shown \/ cloud[m].shownTo # cloud[m].paidTo
    /\ cloud' = [cloud EXCEPT ![m].shown = TRUE, ![m].shownTo = cloud[m].paidTo]
    /\ UNCHANGED <<month, paidUntil, act, desk, at, see, sent, faults>>

\* A machine nobody pays for is stopped.
Stop(m) ==
    /\ cloud[m].on /\ cloud[m].paidTo <= month
    /\ cloud' = [cloud EXCEPT ![m].on = FALSE]
    /\ UNCHANGED <<month, paidUntil, act, desk, at, see, sent, faults>>

\* list_desktops by tag, and describe_desktop by id.
Listed == {m \in All : cloud[m].tagged /\ (cloud[m].shown \/ "list" \notin world.lags)}
Known(m) == cloud[m].shown \/ "describe" \notin world.lags

-----------------------------------------------------------------------------
(* A worker: the lease, what it reads, and how it stops.                    *)

Go(w, p) == at' = [at EXCEPT ![w] = p]
Owns(w) == act.lease = w                       \* the fence of _save
\* What identifies the row; expiry and health are not part of it.
Identity(d) == [row |-> d.row, id |-> d.id, attempt |-> d.attempt, assigning |-> d.assigning]
\* The channel attempt: its row is still the one the worker last read.
Current(w) == see[w].desk = Identity(desk)
Fresh == CHOOSE a \in Attempts :
            a # desk.attempt /\ \A w \in Workers : a # see[w].desk.attempt
\* authority() before every statement of an activation, suspension_authority()
\* before every statement of a suspension.
Authorised(w) == Owns(w) /\ Paid /\ Current(w)
MaySuspend(w) == Owns(w) /\ ~Paid /\ Current(w)

\* Mutant: a row that needs attention is not looked at again.
ClaimUnattended(w) ==
    /\ at[w] = "idle" /\ act.lease = None /\ act.state \notin {"none", "needs_attention"}
    /\ act' = [act EXCEPT !.lease = w]
    /\ Go(w, "read")
    /\ UNCHANGED <<month, paidUntil, desk, cloud, see, sent, faults>>
\* process: claim the row, if nobody holds it.
Claim(w) ==
    /\ at[w] = "idle" /\ act.lease = None /\ act.state # "none"
    /\ act' = [act EXCEPT !.lease = w]
    /\ Go(w, "read")
    /\ UNCHANGED <<month, paidUntil, desk, cloud, see, sent, faults>>

Healthy == act.state = "ready" /\ desk.up /\ desk.paidTo > month

\* _advance reads the term, the job and the desktop, and takes a path.
ReadRow(w) ==
    /\ at[w] = "read"
    /\ see' = [see EXCEPT ![w] = [kind |-> act.kind, base |-> act.base,
         step |-> act.step, desk |-> Identity(desk), got |-> None, paidTo |-> 0]]
    /\ Go(w, IF ~Paid THEN "maintain" ELSE IF Healthy THEN "release" ELSE "assign")
    /\ UNCHANGED <<month, paidUntil, act, desk, cloud, sent, faults>>

\* The ends of process: an outcome is saved if the row is still the worker's,
\* and then the lease is given back.
Ended(w, state, step) ==
    /\ act' = IF Owns(w) THEN [act EXCEPT !.state = state, !.step = step] ELSE act
    /\ Go(w, "release")
Uncertain(w) == Ended(w, "needs_attention", act.step)

Release(w) ==
    /\ at[w] = "release"
    /\ act' = IF Owns(w) THEN [act EXCEPT !.lease = None] ELSE act
    /\ see' = [see EXCEPT ![w] = Blank]
    /\ Go(w, "idle")
    /\ UNCHANGED <<month, paidUntil, desk, cloud, sent, faults>>

Retry(w) ==
    /\ at[w] = "failed"
    /\ Ended(w, "retrying", act.step)
    /\ UNCHANGED <<month, paidUntil, desk, cloud, see, sent, faults>>

Orphaned(w) == sent' = {IF f.who = w THEN [f EXCEPT !.who = None] ELSE f : f \in sent}

Crash(w) ==
    /\ at[w] # "idle" /\ faults.crash < MaxCrashes
    /\ faults' = [faults EXCEPT !.crash = @ + 1]
    /\ Go(w, "idle") /\ see' = [see EXCEPT ![w] = Blank]
    /\ Orphaned(w)
    /\ UNCHANGED <<month, paidUntil, act, desk, cloud>>

\* A lease runs out: of a worker that is gone, or of one that stalls.  With
\* world.prompt none of its requests is still on the way.
Expire(w) ==
    /\ Owns(w)
    /\ world.prompt => \A f \in sent : f.who \notin {w, None}
    /\ \/ at[w] = "idle" /\ UNCHANGED faults
       \/ at[w] # "idle" /\ faults.expire < MaxExpiries
          /\ faults' = [faults EXCEPT !.expire = @ + 1]
    /\ act' = [act EXCEPT !.lease = None]
    /\ UNCHANGED <<month, paidUntil, desk, cloud, at, see, sent>>

\* Mutant: the worker goes on while its request is still being sent.
HeartbeatForgets(w) ==
    /\ at[w] \notin {"idle", "release"} /\ ~Owns(w)
    /\ Go(w, "release")
    /\ UNCHANGED <<month, paidUntil, act, desk, cloud, see, sent, faults>>
\* _heartbeat: the renewal fails, and the operation is cancelled under way.
Heartbeat(w) ==
    /\ at[w] \notin {"idle", "release"} /\ ~Owns(w)
    /\ Go(w, "release") /\ Orphaned(w)
    /\ UNCHANGED <<month, paidUntil, act, desk, cloud, see, faults>>

\* stop, or a renewal that raises because the database does not answer: the
\* operation is cancelled although the lease is its own, and process gives the
\* lease back at once, whether or not a request is still on its way.
Cancelled(w) ==
    /\ at[w] \notin {"idle", "release"} /\ Owns(w) /\ faults.crash < MaxCrashes
    /\ faults' = [faults EXCEPT !.crash = @ + 1,
                                !.left = IF Answered(w) THEN @ ELSE @ + 1]
    /\ Go(w, "release") /\ Orphaned(w)
    /\ UNCHANGED <<month, paidUntil, act, desk, cloud, see>>

-----------------------------------------------------------------------------
(* Activation of a paying workspace.                                        *)

Stage == act' = [act EXCEPT !.state = "working", !.step = "working"]
Seen(w, d) == see' = [see EXCEPT ![w].desk = Identity(d)]

Assign(w) ==
    /\ at[w] = "assign" /\ Authorised(w)
    /\ Stage
    /\ Go(w, IF see[w].desk.row THEN "begin" ELSE "list")
    /\ UNCHANGED <<month, paidUntil, desk, cloud, see, sent, faults>>

\* claim_channel_attempt: a compare-and-set on the row as it was read.
BeginActivation(w) ==
    /\ at[w] = "begin" /\ Current(w)
    /\ desk' = [desk EXCEPT !.attempt = Fresh]
    /\ Seen(w, desk')
    /\ Go(w, IF desk.id = None THEN "list" ELSE "describe")
    /\ UNCHANGED <<month, paidUntil, act, cloud, sent, faults>>

\* Mutant: an empty inventory is taken for proof that nothing was bought.
ListBuys(w) ==
    /\ at[w] = "list" /\ Authorised(w)
    /\ IF Cardinality(Listed) > 1 THEN Uncertain(w) /\ UNCHANGED see
       ELSE /\ \/ \E m \in Listed :
                    /\ see' = [see EXCEPT ![w].got = m]
                    /\ Go(w, IF see[w].desk.row THEN "bind" ELSE "allocate")
               \/ /\ Listed = {} /\ UNCHANGED see
                  /\ Go(w, IF see[w].desk.row THEN "intent" ELSE "allocate")
            /\ UNCHANGED act
    /\ UNCHANGED <<month, paidUntil, desk, cloud, sent, faults>>

\* The inventory by tag, before anything may be bought.
List(w) ==
    /\ at[w] = "list" /\ Authorised(w)
    /\ IF Cardinality(Listed) > 1 \/ (Listed = {} /\ see[w].kind # "none")
       THEN Uncertain(w) /\ UNCHANGED see
       ELSE /\ \/ \E m \in Listed :
                    /\ see' = [see EXCEPT ![w].got = m]
                    /\ Go(w, IF see[w].desk.row THEN "bind" ELSE "allocate")
               \/ /\ Listed = {} /\ UNCHANGED see
                  /\ Go(w, IF see[w].desk.row THEN "intent" ELSE "allocate")
            /\ UNCHANGED act
    /\ UNCHANGED <<month, paidUntil, desk, cloud, sent, faults>>

\* allocate, under the balance and the job lock: a row for the machine found,
\* one out of the pool, or a row whose machine is still to be bought.
Usable == {m \in Pooled : cloud[m].there /\ ~cloud[m].tagged /\ cloud[m].paidTo > month}
Row(m, assigning) == [NoDesk EXCEPT !.row = TRUE, !.id = m, !.assigning = assigning,
                                    !.paidTo = IF m = None THEN 0 ELSE cloud[m].paidTo]
Allocate(w) ==
    /\ at[w] = "allocate" /\ Authorised(w)
    /\ IF see[w].got # None THEN desk' = Row(see[w].got, FALSE)
       ELSE IF Usable # {} THEN \E m \in Usable : desk' = Row(m, TRUE)
       ELSE desk' = Row(None, FALSE)
    /\ Seen(w, desk')
    /\ Go(w, "begin_new")
    /\ UNCHANGED <<month, paidUntil, act, cloud, sent, faults>>

BeginNew(w) ==
    /\ at[w] = "begin_new" /\ Current(w)
    /\ desk' = [desk EXCEPT !.attempt = Fresh]
    /\ Seen(w, desk')
    /\ Go(w, IF desk.id = None THEN "intent"
             ELSE IF desk.assigning THEN "describe" ELSE "clear")
    /\ UNCHANGED <<month, paidUntil, act, cloud, sent, faults>>

\* before_purchase: the intent is on disk before the request is sent, and the
\* lease and the term are checked once more in between.
Intent(w) ==
    /\ at[w] = "intent" /\ Authorised(w)
    /\ act' = [act EXCEPT !.state = "working", !.step = "working", !.kind = "create"]
    /\ Go(w, "buy")
    /\ UNCHANGED <<month, paidUntil, desk, cloud, see, sent, faults>>

Buy(w) ==
    /\ at[w] = "buy"
    /\ Sent(w, "create", None)
    /\ Go(w, "bought")
    /\ UNCHANGED <<month, paidUntil, act, desk, cloud, see, faults>>

Bought(w) ==
    /\ at[w] = "bought" /\ Answered(w) /\ Authorised(w)
    /\ Go(w, "bind")
    /\ UNCHANGED <<month, paidUntil, act, desk, cloud, see, sent, faults>>

\* attempt.write of the machine's id: only the row is compared here, the lease
\* was checked in an earlier transaction.
Bind(w) ==
    /\ at[w] = "bind" /\ Current(w)
    /\ desk' = [desk EXCEPT !.id = see[w].got, !.paidTo = cloud[see[w].got].shownTo]
    /\ Seen(w, desk')
    /\ Go(w, "clear")
    /\ UNCHANGED <<month, paidUntil, act, cloud, sent, faults>>

Cleared == [act EXCEPT !.kind = "none", !.base = 0]

Clear(w) ==
    /\ at[w] = "clear" /\ Authorised(w)
    /\ act' = Cleared
    /\ Go(w, "describe")
    /\ UNCHANGED <<month, paidUntil, desk, cloud, see, sent, faults>>

\* What the machine is paid to, and whether an intent to renew is settled.
\* Mutant: an intent to renew does not hold back another one.
SettledBlindly(w, m) == TRUE
RenewalSettled(w, m) == see[w].kind # "renew" \/ cloud[m].shownTo > see[w].base
RenewalDue(m) == cloud[m].shownTo <= month /\ paidUntil > cloud[m].shownTo
\* Mutant: a machine the cloud does not show is replaced by a new one.
DescribeReplaces(w) ==
    /\ at[w] = "describe" /\ Authorised(w)
    /\ LET m == desk.id IN
       IF ~Known(m) THEN /\ desk' = [desk EXCEPT !.id = None] /\ Seen(w, desk')
                         /\ Go(w, "intent") /\ UNCHANGED act
       ELSE /\ desk' = [desk EXCEPT !.paidTo = cloud[m].shownTo]
            /\ see' = [see EXCEPT ![w].paidTo = cloud[m].shownTo]
            /\ IF ~RenewalSettled(w, m) THEN Uncertain(w)
               ELSE /\ act' = IF see[w].kind = "renew" THEN Cleared ELSE act
                    /\ Go(w, IF RenewalDue(m) THEN "renew" ELSE "start")
    /\ UNCHANGED <<month, paidUntil, cloud, sent, faults>>
Describe(w) ==
    /\ at[w] = "describe" /\ Authorised(w)
    /\ LET m == desk.id IN
       IF ~Known(m) THEN Uncertain(w) /\ UNCHANGED <<desk, see>>
       ELSE IF ~desk.assigning /\ ~Verified(m)
       THEN Go(w, "failed") /\ UNCHANGED <<act, desk, see>>
       ELSE /\ desk' = [desk EXCEPT !.paidTo = cloud[m].shownTo]
            /\ see' = [see EXCEPT ![w].paidTo = cloud[m].shownTo]
            /\ IF ~RenewalSettled(w, m) THEN Uncertain(w)
               ELSE /\ act' = IF see[w].kind = "renew" THEN Cleared ELSE act
                    /\ Go(w, IF RenewalDue(m) THEN "renew" ELSE "start")
    /\ UNCHANGED <<month, paidUntil, cloud, sent, faults>>

\* Another month: the intent with the month it starts from, then the request.
RenewIntent(w) ==
    /\ at[w] = "renew" /\ Authorised(w)
    /\ act' = [act EXCEPT !.state = "working", !.step = "working",
                          !.kind = "renew", !.base = see[w].paidTo]
    /\ Go(w, "extend")
    /\ UNCHANGED <<month, paidUntil, desk, cloud, see, sent, faults>>

Extend(w) ==
    /\ at[w] = "extend"
    /\ Sent(w, "renew", desk.id)
    /\ Go(w, "extended")
    /\ UNCHANGED <<month, paidUntil, act, desk, cloud, see, faults>>

Extended(w) ==
    /\ at[w] = "extended" /\ Answered(w) /\ Authorised(w)
    /\ IF Known(desk.id) /\ cloud[desk.id].shownTo > see[w].paidTo
       THEN /\ act' = Cleared
            /\ desk' = [desk EXCEPT !.paidTo = cloud[desk.id].shownTo]
            /\ Go(w, "start")
       ELSE Uncertain(w) /\ UNCHANGED desk
    /\ UNCHANGED <<month, paidUntil, cloud, see, sent, faults>>

\* start_desktop and wait_desktop_ready; a machine that is not paid for does
\* not start.
StartMachine(w) ==
    /\ at[w] = "start" /\ Authorised(w)
    /\ Stage
    /\ IF cloud[desk.id].paidTo > month
       THEN cloud' = [cloud EXCEPT ![desk.id].on = TRUE] /\ Go(w, "grant")
       ELSE UNCHANGED cloud /\ Go(w, "failed")
    /\ UNCHANGED <<month, paidUntil, desk, see, sent, faults>>

Grant(w) ==
    /\ at[w] = "grant" /\ Authorised(w)
    /\ Sent(w, "grant", desk.id)
    /\ Go(w, "granted")
    /\ UNCHANGED <<month, paidUntil, act, desk, cloud, see, faults>>

\* Tag a machine that came out of the pool, then install and verify its channel.
Connect(w) ==
    /\ at[w] = "granted" /\ Answered(w) /\ Authorised(w)
    /\ cloud' = IF desk.assigning THEN [cloud EXCEPT ![desk.id].tagged = TRUE] ELSE cloud
    /\ Stage
    /\ \/ Go(w, "finish") /\ UNCHANGED faults
       \/ /\ faults.fail < MaxFailures /\ Go(w, "failed")
          /\ faults' = [faults EXCEPT !.fail = @ + 1]
    /\ UNCHANGED <<month, paidUntil, desk, see, sent>>

\* The desktop and the receipt commit together, under both fences.
FinishActivation(w) ==
    /\ at[w] = "finish" /\ Authorised(w)
    /\ desk' = [desk EXCEPT !.up = TRUE, !.assigning = FALSE]
    /\ Ended(w, "ready", "ready")
    /\ UNCHANGED <<month, paidUntil, cloud, see, sent, faults>>

\* The statements that check the lease, the term and the row, and what
\* process makes of the exception.
Fenced == {"assign", "list", "allocate", "intent", "bought", "clear", "describe",
           "renew", "extended", "start", "grant", "granted", "finish"}
Denied(w) ==
    /\ at[w] \in Fenced /\ Answered(w) /\ ~Authorised(w)
    /\ IF ~Owns(w) THEN Go(w, "release") /\ UNCHANGED act
       ELSE IF ~Paid THEN Ended(w, "queued", "suspending")
       ELSE Ended(w, "needs_attention", "connecting")
    /\ UNCHANGED <<month, paidUntil, desk, cloud, see, sent, faults>>

\* A compare-and-set that finds another row.
Outdated(w) ==
    /\ at[w] \in {"begin", "begin_new", "bind"} /\ ~Current(w)
    /\ Ended(w, "needs_attention", "connecting")
    /\ UNCHANGED <<month, paidUntil, desk, cloud, see, sent, faults>>

-----------------------------------------------------------------------------
(* Suspension of a workspace whose term is over.                            *)

\* Mutant: a suspension that was begun counts as done.
NeedsRevokeOnce(id, step) == id # None /\ step \notin {"suspending", "suspended"}
NeedsRevoke(id, step) == id # None /\ step # "suspended"

\* maintain with reuse: the row's attempt is shared, not replaced.
Maintain(w) ==
    /\ at[w] = "maintain" /\ MaySuspend(w)
    /\ desk' = IF desk.row /\ desk.attempt = None
               THEN [desk EXCEPT !.attempt = Fresh] ELSE desk
    /\ Seen(w, desk')
    /\ Go(w, IF desk.row /\ desk.id = None /\ see[w].kind = "create" THEN "find"
             ELSE IF NeedsRevoke(desk.id, see[w].step) THEN "inspect" ELSE "suspended")
    /\ UNCHANGED <<month, paidUntil, act, cloud, sent, faults>>

\* A machine bought before the term ended is adopted, to be revoked as well.
Find(w) ==
    /\ at[w] = "find" /\ MaySuspend(w)
    /\ IF Cardinality(Listed) = 1
       THEN \E m \in Listed :
              /\ see' = [see EXCEPT ![w].got = m]
              /\ Go(w, "keep")
       ELSE Go(w, "suspended") /\ UNCHANGED see
    /\ UNCHANGED <<month, paidUntil, act, desk, cloud, sent, faults>>

Keep(w) ==
    /\ at[w] = "keep" /\ MaySuspend(w)
    /\ desk' = [desk EXCEPT !.id = see[w].got]
    /\ Seen(w, desk')
    /\ act' = [act EXCEPT !.kind = "none"]
    /\ Go(w, "inspect")
    /\ UNCHANGED <<month, paidUntil, cloud, sent, faults>>

\* Mutant: a stopped machine is recorded as suspended.
InspectStopped(w) ==
    /\ at[w] = "inspect" /\ MaySuspend(w)
    /\ IF Known(desk.id) /\ ~cloud[desk.id].on THEN Ended(w, "suspended", "suspended")
       ELSE /\ act' = [act EXCEPT !.state = "working", !.step = "suspending"]
            /\ Go(w, IF Known(desk.id) THEN "revoke" ELSE "suspended")
    /\ UNCHANGED <<month, paidUntil, desk, cloud, see, sent, faults>>

\* Mutant: the row still says ready while the machine is revoked.
InspectUnsaved(w) ==
    /\ at[w] = "inspect" /\ MaySuspend(w)
    /\ IF Known(desk.id) /\ ~cloud[desk.id].on THEN Ended(w, "suspended", "suspending")
       ELSE /\ UNCHANGED act
            /\ Go(w, IF Known(desk.id) THEN "revoke" ELSE "suspended")
    /\ UNCHANGED <<month, paidUntil, desk, cloud, see, sent, faults>>

\* A machine that is not running cannot be revoked and is not started for it.
Inspect(w) ==
    /\ at[w] = "inspect" /\ MaySuspend(w)
    /\ IF Known(desk.id) /\ ~cloud[desk.id].on THEN Ended(w, "suspended", "suspending")
       ELSE /\ act' = [act EXCEPT !.state = "working", !.step = "suspending"]
            /\ Go(w, IF Known(desk.id) THEN "revoke" ELSE "suspended")
    /\ UNCHANGED <<month, paidUntil, desk, cloud, see, sent, faults>>

\* A machine without the tag is refused, even if it is the one on record.
Revoke(w) ==
    /\ at[w] = "revoke" /\ MaySuspend(w)
    /\ IF Verified(desk.id) THEN Sent(w, "revoke", desk.id) /\ Go(w, "revoked")
       ELSE Go(w, "failed") /\ UNCHANGED sent
    /\ UNCHANGED <<month, paidUntil, act, desk, cloud, see, faults>>

Revoked(w) ==
    /\ at[w] = "revoked" /\ Answered(w) /\ MaySuspend(w)
    /\ Go(w, "suspended")
    /\ UNCHANGED <<month, paidUntil, act, desk, cloud, see, sent, faults>>

Suspended(w) ==
    /\ at[w] = "suspended" /\ MaySuspend(w)
    /\ Ended(w, "suspended", "suspended")
    /\ UNCHANGED <<month, paidUntil, desk, cloud, see, sent, faults>>

\* A payment in between ends the suspension like a lost lease.
Reprieved(w) ==
    /\ at[w] \in {"maintain", "find", "keep", "inspect", "revoke", "revoked", "suspended"}
    /\ Answered(w) /\ ~MaySuspend(w)
    /\ IF ~Owns(w) \/ Paid THEN Go(w, "release") /\ UNCHANGED act
       ELSE Ended(w, "needs_attention", "connecting")
    /\ UNCHANGED <<month, paidUntil, desk, cloud, see, sent, faults>>

-----------------------------------------------------------------------------
Step(w) ==
    \/ ReadRow(w) \/ Release(w) \/ Retry(w) \/ Heartbeat(w)
    \/ Assign(w) \/ BeginActivation(w) \/ List(w) \/ Allocate(w) \/ BeginNew(w)
    \/ Intent(w) \/ Buy(w) \/ Bought(w) \/ Bind(w) \/ Clear(w)
    \/ Describe(w) \/ RenewIntent(w) \/ Extend(w) \/ Extended(w)
    \/ StartMachine(w) \/ Grant(w) \/ Connect(w) \/ FinishActivation(w)
    \/ Denied(w) \/ Outdated(w)
    \/ Maintain(w) \/ Find(w) \/ Keep(w) \/ Inspect(w) \/ Revoke(w)
    \/ Revoked(w) \/ Suspended(w) \/ Reprieved(w)

ActivationNext ==
    /\ \/ Pay \/ MonthPasses \/ Cancel
       \/ \E f \in sent : Land(f) \/ RequestFails(f)
       \/ \E m \in All : Show(m) \/ Stop(m)
       \/ \E w \in Workers : Claim(w) \/ Crash(w) \/ Cancelled(w) \/ Expire(w) \/ Step(w)
    /\ UNCHANGED world

ActivationSpec == ActivationInit /\ [][ActivationNext]_<<activationVars, world>>

\* The sweep comes back every few seconds, statements return, leases run out,
\* and the cloud decides on each request and shows what it has done.
Fairness ==
    /\ WF_activationVars(\E w \in Workers : Claim(w))
    /\ \A w \in Workers : /\ WF_activationVars(Step(w))
                         /\ WF_activationVars(Expire(w) /\ at[w] = "idle")
    /\ WF_activationVars(\E f \in sent : Land(f) \/ RequestFails(f))
    /\ \A m \in All : WF_activationVars(Show(m))

FairActivation == ActivationSpec /\ Fairness

-----------------------------------------------------------------------------
Machine == [there : BOOLEAN, shown : BOOLEAN, tagged : BOOLEAN, granted : BOOLEAN,
            on : BOOLEAN, paidTo : Nat, shownTo : Nat]

\* The shape of the state; and a statement waiting for an answer is not one
\* that has gone on without it.
ActivationTypeOK ==
    /\ month \in 0..MaxMonths /\ paidUntil \in 0..MaxMonths
    /\ act \in [state : {"none", "queued", "working", "retrying", "needs_attention",
                         "ready", "suspended"},
                step : {"queued", "working", "connecting", "suspending", "suspended", "ready"},
                kind : {"none", "create", "renew"}, base : Nat,
                lease : Workers \cup {None}]
    /\ desk.id \in All \cup {None} /\ desk.attempt \in Attempts \cup {None}
    /\ cloud \in [All -> Machine]
    /\ \A f \in sent : f.who # None =>
         at[f.who] \in {"bought", "extended", "granted", "revoked"}

\* Whatever crashes, leases lost and requests still on their way, a workspace
\* never gets a second machine: an intent nobody could resolve is never
\* followed by another purchase.
BoughtOnce == Cardinality({m \in All : cloud[m].there /\ (m \in Machines \/ cloud[m].tagged)}) <= 1

\* Nor is a month bought twice: the machine is never paid further ahead than
\* the month that runs.
PaidOnce == \A m \in All : cloud[m].paidTo <= month + 1

\* A cloud that shows at once what it has done, and workers that see every
\* request through before their lease ends.
Exact == [prompt |-> TRUE, lags |-> {}]

\* In such a world, with no worker that stalls past its lease and none cancelled
\* while it waits for an answer, a workspace whose suspension is on record, with
\* no purchase left to look for, has no machine its user may still enter.
\* (Without these provisos: README section 5.)
SuspendedIsRevoked ==
    (/\ world = Exact /\ faults.expire = 0 /\ faults.left = 0
     /\ act.step = "suspended" /\ act.lease = None /\ act.kind # "create") =>
        \A m \in All : cloud[m].tagged \/ m = desk.id => ~cloud[m].granted

\* And a paying workspace whose activation is on record has a machine its user may
\* enter, and it is the machine on record, again if no cancelled worker has left a
\* request behind.
ReadyIsUsable ==
    (world = Exact /\ faults.left = 0 /\ act.state = "ready" /\ act.lease = None /\ Paid) =>
        desk.id # None /\ cloud[desk.id].tagged /\ cloud[desk.id].granted

\* One machine for a workspace and one purchase for a month.
PaidForOnce == ActivationTypeOK /\ BoughtOnce /\ PaidOnce
\* What the row says of access is what the cloud grants.
AccessAgrees == SuspendedIsRevoked /\ ReadyIsUsable

\* A machine that was bound to the workspace is never replaced by another.
MachineKept == [][desk.id # None => desk'.id = desk.id]_activationVars

\* A workspace that keeps paying gets its desktop, unless the purchase its row
\* announces never happened.
PaidIsServed ==
    <>[]Paid => <>[](\/ act.state = "ready"
                     \/ act.kind = "create" /\ \A m \in Machines : ~cloud[m].there
                     \/ act.kind = "renew" /\ cloud[desk.id].paidTo <= act.base)

\* The machine came out of the pool and its tag was never set: granting access
\* and tagging are two calls, and revoking it again is refused for want of the tag.
Unowned(m) == m = desk.id /\ desk.assigning /\ ~cloud[m].tagged

\* A workspace that stays without a term loses its entitlement, unless the machine
\* does not run, was never tagged, or a cancelled worker left a request behind.
ExpiredIsRevoked ==
    <>[]~Paid => <>[](\A m \in All : cloud[m].granted =>
                         ~cloud[m].on \/ Unowned(m) \/ faults.left > 0)

\* What is not so (README section 5): that no exception for the tag is needed.
NeverStranded ==
    <>[]~Paid => <>[](\A m \in All : cloud[m].granted => ~cloud[m].on \/ faults.left > 0)
=============================================================================
