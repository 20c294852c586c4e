------------------------ MODULE MCDesktopActivation ------------------------
(***************************************************************************)
(* Instances of DesktopActivation for TLC.  `scene' says how much of the   *)
(* constants a behaviour uses:                                             *)
(*   race     two workers, an empty pool, one month, a crash and a lease   *)
(*            that runs out under a live worker; requests outlive leases   *)
(*            and the cloud shows new machines late                        *)
(*   renewal  one worker, two months, a failed call or a crash, likewise   *)
(*   access   one worker, a machine in the pool, two months, a failed call *)
(*            or a crash, in an exact world                                *)
(***************************************************************************)
EXTENDS DesktopActivation

CONSTANTS w1, w2, d1, d2
VARIABLE scene

all == <<activationVars, world, scene>>

Vague == [prompt |-> FALSE, lags |-> {"list", "describe"}]
Stocked == \E m \in Pooled : cloud[m].there

MCInit ==
    /\ ActivationInit
    /\ \/ scene \in {"race", "renewal"} /\ world = Vague /\ ~Stocked
       \/ scene = "access" /\ world = Exact /\ Stocked

\* Workers are interchangeable while neither has begun, machines while neither
\* was bought.
Ordered ==
    /\ at[w1] = "idle" /\ at[w2] = "idle" => at'[w2] = "idle"
    /\ cloud'[d2].there => cloud'[d1].there

Bounds ==
    /\ scene \in {"race", "renewal"} => paidUntil <= paidUntil'
    /\ IF scene = "race" THEN month' <= 1 /\ paidUntil' <= 1 /\ faults'.fail = 0
       ELSE at'[w2] = "idle" /\ faults'.expire = 0 /\ faults'.fail + faults'.crash <= 1

MCNext == ActivationNext /\ Ordered /\ Bounds /\ UNCHANGED scene

MCSpec == MCInit /\ [][MCNext]_all /\ Fairness

\* A workspace gets its own machine back, ends with a desktop if it pays and
\* without access if it does not (these two in an exact world).
KeptAndServed ==
    /\ MachineKept
    /\ scene = "access" => PaidIsServed /\ ExpiredIsRevoked
=============================================================================
