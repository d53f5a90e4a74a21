----------------------------- MODULE MCJobQueue -----------------------------
(* Model values and symmetry for checking JobQueue with TLC. *)
EXTENDS JobQueue, TLC

CONSTANTS j1, j2, w1, w2, p1

OneJob == {j1}
TwoJobs == {j1, j2}
OnePoison == {j2}
OneWorker == {w1}
TwoWorkers == {w1, w2}
OneProducer == {p1}

AllFaults == {"db", "commit", "redis", "startup", "flush", "crash"}
\* Faults after which one worker process alone still settles every job.
SurvivableFaults == {"redis", "flush", "crash"}
\* Faults that leave the table of one worker process consistent.
ContractFaults == AllFaults \ {"commit"}
OnlyCrash == {"crash"}
NoFaultKinds == {}

WorkerSymmetry == Permutations(TwoWorkers)
=============================================================================
