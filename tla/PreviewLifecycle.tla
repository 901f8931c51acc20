-------------------------- MODULE PreviewLifecycle ---------------------------
(***************************************************************************)
(* What the operator promises of a preview environment, without caches,    *)
(* queues or retries: it is requested, it may have an App while it is      *)
(* requested, and it is not forgotten while an App of it exists.           *)
(***************************************************************************)
VARIABLES
    stage,      \* "absent", "live" or "terminating": the PRDeployment
    deployed    \* TRUE while the App exists

lifecycleVars == <<stage, deployed>>

Init == stage = "absent" /\ deployed = FALSE

Request == stage = "absent" /\ stage' = "live" /\ UNCHANGED deployed

\* A reconcile under way may still create the App after the deletion request.
Deploy == /\ stage # "absent" /\ ~deployed
          /\ deployed' = TRUE
          /\ UNCHANGED stage

Undeploy == /\ deployed
            /\ deployed' = FALSE
            /\ UNCHANGED stage

\* Before anything was done for the request it may vanish at once.
Terminate == /\ stage = "live"
             /\ stage' = "terminating" \/ (~deployed /\ stage' = "absent")
             /\ UNCHANGED deployed

Finish == /\ stage = "terminating" /\ ~deployed
          /\ stage' = "absent"
          /\ UNCHANGED deployed

Next == Request \/ Deploy \/ Undeploy \/ Terminate \/ Finish

Spec == Init /\ [][Next]_lifecycleVars
=============================================================================
