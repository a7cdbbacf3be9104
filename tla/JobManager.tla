----------------------------- MODULE JobManager -----------------------------
(***************************************************************************)
(* The job manager of one replica: the monitor that turns leadership into  *)
(* running jobs, the goroutines the jobs run in, and the shutdown of the   *)
(* process.  Every job of the program requires leadership.  The election   *)
(* is seen through IsLeader alone, and may change its mind at any time;    *)
(* a replica that is not distributed has none.                             *)
(* Names that LeaderElection has too begin with Jobs here, so that a       *)
(* module can extend both.                                                 *)
(***************************************************************************)
EXTENDS Naturals

CONSTANTS
    Jobs,           \* the registered jobs
    Broken,         \* jobs whose interval is not positive: Run returns at once
    MaxGoroutines   \* bound on the goroutines of one job that are ending

ASSUME ManagerAssumption ==
    /\ Broken \subseteq Jobs
    /\ MaxGoroutines \in Nat

VARIABLES
    election,     \* what Election.IsLeader answers; "none" without one
    monitor,      \* where monitorLeadership stands
    seen,         \* its last answer from IsLeader
    wasLeader,    \* its variable of that name
    cancelFuncs,  \* jobs that have an entry in the map of that name
    live,         \* goroutines of each job whose context is not cancelled
    ending,       \* goroutines of each job whose context is cancelled
    cancelled,    \* whether the server's context is cancelled
    phase         \* the process: "new", "up", "stopping", "waiting",
                  \* "clean" or "forced"

mon == <<monitor, seen, wasLeader>>
runs == <<cancelFuncs, live, ending>>
jobVars == <<election, mon, runs, cancelled, phase>>

JobsInit ==
    /\ election \in {"none", "follower"}
    /\ monitor = "none"
    /\ seen = FALSE
    /\ wasLeader = FALSE
    /\ cancelFuncs = {}
    /\ live = [j \in Jobs |-> 0]
    /\ ending = [j \in Jobs |-> 0]
    /\ cancelled = FALSE
    /\ phase = "new"

Distributed == election # "none"

ProcessRuns == phase \in {"up", "stopping", "waiting"}

-----------------------------------------------------------------------------
(* Under jm.mu.                                                            *)

\* A goroutine for every job that has no entry in cancelFuncs.  Its context
\* derives from the server's.
startLeaderJobs ==
    LET started(j) == IF j \in cancelFuncs THEN 0 ELSE 1 IN
    /\ cancelFuncs' = Jobs
    /\ IF cancelled
       THEN /\ ending' = [j \in Jobs |-> ending[j] + started(j)]
            /\ UNCHANGED live
       ELSE /\ live' = [j \in Jobs |-> live[j] + started(j)]
            /\ UNCHANGED ending

\* A faulty stopLeaderJobs: it clears the map and cancels nothing.
stopForgetsToCancel == cancelFuncs' = {} /\ UNCHANGED <<live, ending>>

\* Cancel and forget every job, without waiting for its goroutine.
stopLeaderJobs ==
    /\ cancelFuncs' = {}
    /\ live' = [j \in Jobs |-> IF j \in cancelFuncs THEN 0 ELSE live[j]]
    /\ ending' = [j \in Jobs |-> IF j \in cancelFuncs THEN ending[j] + live[j]
                                                      ELSE ending[j]]

\* Keeps the model finite.
RoomForGoroutines == \A j \in Jobs : live[j] + ending[j] < MaxGoroutines

-----------------------------------------------------------------------------
(* The process.                                                            *)

\* A faulty Start: it monitors an election that is not there.
StartAlwaysMonitors ==
    /\ phase = "new"
    /\ phase' = "up"
    /\ monitor' = "idle"
    /\ UNCHANGED <<election, seen, wasLeader, runs, cancelled>>

StartManager ==
    /\ phase = "new"
    /\ phase' = "up"
    /\ IF Distributed
       THEN /\ monitor' = "idle"
            /\ UNCHANGED runs
       ELSE /\ startLeaderJobs
            /\ UNCHANGED monitor
    /\ UNCHANGED <<election, seen, wasLeader, cancelled>>

\* The HTTP server fails to listen and cancels the server's context, from
\* which every job's context derives.
CancelContext ==
    /\ ProcessRuns
    /\ ~cancelled
    /\ cancelled' = TRUE
    /\ live' = [j \in Jobs |-> 0]
    /\ ending' = [j \in Jobs |-> ending[j] + live[j]]
    /\ UNCHANGED <<election, mon, cancelFuncs, phase>>

\* SIGTERM, or the context is done: Start goes on to Shutdown.
Signal ==
    /\ phase = "up"
    /\ phase' = "stopping"
    /\ UNCHANGED <<election, mon, runs, cancelled>>

stopAllJobs ==
    /\ phase = "stopping"
    /\ phase' = "waiting"
    /\ stopLeaderJobs
    /\ UNCHANGED <<election, mon, cancelled>>

NoGoroutine == \A j \in Jobs : live[j] = 0 /\ ending[j] = 0

Gone == monitor' = "none" /\ live' = [j \in Jobs |-> 0] /\ ending' = live'

\* A faulty Shutdown: the monitor is not counted in the wait group.
WaitIgnoresMonitor ==
    /\ phase = "waiting"
    /\ NoGoroutine
    /\ phase' = "clean"
    /\ UNCHANGED <<election, mon, runs, cancelled>>

\* wg.Wait returns when the monitor and every job has returned.
WaitReturns ==
    /\ phase = "waiting"
    /\ monitor \in {"none", "done"}
    /\ NoGoroutine
    /\ phase' = "clean"
    /\ UNCHANGED <<election, mon, runs, cancelled>>

\* A faulty Shutdown: it waits without a timeout.
WaitNeverTimesOut == phase = "waiting" /\ NoGoroutine /\ WaitReturns

\* Thirty seconds have passed; the process ends with whatever still runs.
WaitTimesOut ==
    /\ phase = "waiting"
    /\ phase' = "forced"
    /\ Gone
    /\ UNCHANGED <<election, seen, wasLeader, cancelFuncs, cancelled>>

-----------------------------------------------------------------------------
(* monitorLeadership.                                                      *)

\* The ticker fires and IsLeader is asked.
MonitorAsks ==
    /\ ProcessRuns
    /\ monitor = "idle"
    /\ monitor' = "asked"
    /\ seen' = (election = "leader")
    /\ UNCHANGED <<election, wasLeader, runs, cancelled, phase>>

\* A faulty monitor: wasLeader is not reset when the jobs are stopped.
MonitorKeepsWasLeader ==
    /\ ProcessRuns
    /\ monitor = "asked"
    /\ monitor' = "idle"
    /\ wasLeader' = (seen \/ wasLeader)
    /\ \/ seen /\ ~wasLeader /\ RoomForGoroutines /\ startLeaderJobs
       \/ ~seen /\ wasLeader /\ stopLeaderJobs
       \/ seen = wasLeader /\ UNCHANGED runs
    /\ UNCHANGED <<election, seen, cancelled, phase>>

MonitorActs ==
    /\ ProcessRuns
    /\ monitor = "asked"
    /\ monitor' = "idle"
    /\ wasLeader' = seen
    /\ \/ seen /\ ~wasLeader /\ RoomForGoroutines /\ startLeaderJobs
       \/ ~seen /\ wasLeader /\ stopLeaderJobs
       \/ seen = wasLeader /\ UNCHANGED runs
    /\ UNCHANGED <<election, seen, cancelled, phase>>

MonitorEnds ==
    /\ ProcessRuns
    /\ monitor = "idle"
    /\ cancelled
    /\ monitor' = "done"
    /\ stopLeaderJobs
    /\ UNCHANGED <<election, seen, wasLeader, cancelled, phase>>

-----------------------------------------------------------------------------
(* The goroutines, and the election.                                       *)

\* A job sees that its context is done, after whatever it was doing.
JobReturns(j) ==
    /\ ending[j] > 0
    /\ ending' = [ending EXCEPT ![j] = @ - 1]
    /\ UNCHANGED <<election, mon, cancelFuncs, live, cancelled, phase>>

\* A job with a useless interval returns an error; its entry stays.
JobFails(j) ==
    /\ j \in Broken
    /\ live[j] > 0
    /\ live' = [live EXCEPT ![j] = @ - 1]
    /\ UNCHANGED <<election, mon, cancelFuncs, ending, cancelled, phase>>

LeadershipChanges ==
    /\ Distributed
    /\ ProcessRuns
    /\ election' \in {"follower", "leader"} \ {election}
    /\ UNCHANGED <<mon, runs, cancelled, phase>>

Monitor == MonitorAsks \/ MonitorActs \/ MonitorEnds

JobsNext ==
    \/ StartManager \/ CancelContext \/ Signal \/ stopAllJobs
    \/ WaitReturns \/ WaitTimesOut
    \/ Monitor
    \/ \E j \in Jobs : JobReturns(j) \/ JobFails(j)
    \/ LeadershipChanges

JobsSpec == JobsInit /\ [][JobsNext]_jobVars

\* The program runs: its ticker fires, cancelled jobs return, Shutdown goes
\* on and its timeout expires.  The monitor's select chooses at random between
\* a tick and a context that is done, so it does not choose the tick for ever.
\* Nothing obliges a signal to come, or the election to change its mind.
JobsFairness ==
    /\ WF_jobVars(StartManager)
    /\ WF_jobVars(stopAllJobs)
    /\ WF_jobVars(WaitReturns \/ WaitTimesOut)
    /\ WF_jobVars(MonitorAsks)
    /\ WF_jobVars(MonitorActs)
    /\ SF_jobVars(MonitorEnds)
    /\ WF_jobVars(cancelled /\ Signal)
    /\ \A j \in Jobs : WF_jobVars(JobReturns(j)) /\ WF_jobVars(JobFails(j))

JobsFairSpec == JobsSpec /\ JobsFairness

-----------------------------------------------------------------------------
(* Properties.                                                             *)

\* Every variable has its type.
JobsTypeOK ==
    /\ election \in {"none", "follower", "leader"}
    /\ monitor \in {"none", "idle", "asked", "done"}
    /\ seen \in BOOLEAN
    /\ wasLeader \in BOOLEAN
    /\ cancelFuncs \subseteq Jobs
    /\ live \in [Jobs -> Nat]
    /\ ending \in [Jobs -> Nat]
    /\ cancelled \in BOOLEAN
    /\ phase \in {"new", "up", "stopping", "waiting", "clean", "forced"}

\* A job never runs twice at once in a goroutine that nobody told to stop, and
\* whoever runs so can still be told: its entry is in cancelFuncs.  What
\* startLeaderJobs and stopLeaderJobs do to the map and to the goroutines must
\* agree, through any sequence of flips, failures and shutdown.
OneLiveRun ==
    \A j \in Jobs : live[j] <= 1 /\ (live[j] = 1 => j \in cancelFuncs)

\* A replica that stays leader ends up running every job that works, and one
\* that stays follower ends up running none, however leadership flipped
\* before: the monitor misses flips between two ticks but not their outcome.
JobsFollowLeadership ==
    /\ <>[](election = "leader" /\ phase = "up" /\ ~cancelled)
       => <>[](\A j \in Jobs \ Broken : live[j] = 1)
    /\ <>[](election = "follower" /\ phase = "up")
       => <>[]NoGoroutine

\* Without an election every job that works runs from the start until the
\* process is told to stop.  With one, a job that nobody told to stop has a
\* monitor that still looks, and that found the replica leading when it last
\* acted: no job runs on that the next look would not stop, also of those that
\* were started again after stopAllJobs.
JobsRunAsElected ==
    IF Distributed
    THEN (\E j \in Jobs : live[j] > 0)
         => wasLeader /\ monitor \in {"idle", "asked"}
    ELSE phase = "up" /\ ~cancelled => \A j \in Jobs \ Broken : live[j] = 1

\* Shutdown ends; with an election, where the monitor outlives stopAllJobs and
\* may start the jobs again, only the timeout sees to that.
ShutdownEnds == phase = "stopping" ~> phase \in {"clean", "forced"}

\* When it ends by itself the jobs have ended; and with an election it ends by
\* itself only after the server's context was cancelled, since nothing else
\* stops the monitor: after a signal it always takes the full timeout.
CleanShutdown ==
    phase = "clean" => NoGoroutine /\ (Distributed => cancelled)

\* Why it holds: until the server's context is cancelled the monitor of a
\* process with an election goes on.
MonitorInv ==
    /\ CleanShutdown
    /\ phase = "new" => NoGoroutine
    /\ Distributed /\ phase # "new" /\ monitor \in {"none", "done"} =>
          cancelled \/ phase = "forced"
=============================================================================
