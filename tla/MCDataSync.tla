----------------------------- MODULE MCDataSync -----------------------------
(* Small instances of CopartSync, composed with ImageCacheJobs, for TLC.    *)
EXTENDS CopartSync

CONSTANTS l1, l2, s1, s2, c1, t1

MCFeeds == {{l1}, {l2}}

Left(fault, people, age) == [fault |-> fault, people |-> people, age |-> age]

\* One message waiting, or none.
Waiting(kinds) == [k \in Kind |-> IF k \in kinds THEN 1 ELSE 0]

Plan(lots, off, dark, kinds, jobs, sync) ==
    [lots |-> lots, off |-> off, dark |-> dark, kinds |-> kinds, jobs |-> jobs, sync |-> sync]

None == Left(0, 0, 0)

\* At night the pipeline alone: one lot with a fault, with people, two lots. By day,
\* with the crawler paused, the sync: faults and time, an import asked for while the
\* cron runs, any trigger. Then an import under a working pipeline, and a recreation
\* that fails half way.
Plans ==
    {Plan({l1}, FALSE, TRUE, {}, Left(1, 0, 1), None),
     Plan({l1}, FALSE, TRUE, {}, Left(0, 1, 1), None),
     Plan({l1, l2}, FALSE, TRUE, {}, None, None),
     Plan({}, TRUE, FALSE, {}, None, Left(1, 0, 1)),
     Plan({}, TRUE, FALSE, {}, None, Left(2, 0, 0)),
     Plan({}, TRUE, FALSE, {"import"}, None, Left(1, 0, 0)),
     Plan({}, TRUE, FALSE, {}, None, Left(0, 1, 0)),
     Plan({}, FALSE, TRUE, {"import"}, None, None),
     Plan({l2}, TRUE, TRUE, {"recreate", "reindex"}, None, Left(1, 0, 1))}

Init ==
    \E p \in Plans :
        /\ paused = p.off /\ jobsLeft = p.jobs
        /\ night = p.dark /\ triggers = Waiting(p.kinds) /\ syncLeft = p.sync
        /\ JobsInit /\ Listed = p.lots /\ SyncInit

Spec == Init /\ [][SyncNext]_<<jobsVars, syncVars>> /\ SyncFairness
=============================================================================
