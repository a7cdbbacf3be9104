----------------------------- MODULE LeaderJobs -----------------------------
(***************************************************************************)
(* The election and the job managers of all replicas together: which       *)
(* replica's jobs run while leases expire, commands fail, monitors look    *)
(* late and processes stop.  The leader's jobs of a replica are started    *)
(* and stopped together (JobManager follows each of them), so it suffices  *)
(* here whether they run.                                                  *)
(***************************************************************************)
EXTENDS LeaderElection

VARIABLES
    heard,    \* the answer of IsLeader that each monitor holds, or "nothing"
    acted,    \* wasLeader of each monitor
    runners,  \* replicas whose jobs run with a context that is not cancelled
    process   \* each process is "up", "stopping" or "cancelled"

managers == <<heard, acted, runners, process>>
clusterVars == <<vars, managers>>

ClusterInit ==
    /\ Init
    /\ heard = [i \in Instances |-> "nothing"]
    /\ acted = [i \in Instances |-> FALSE]
    /\ runners = {}
    /\ process = [i \in Instances |-> "up"]

-----------------------------------------------------------------------------
(* monitorLeadership.                                                      *)

\* The ticker fires.  IsLeader waits for the mutex that a campaign holds from
\* its GET on until after its EXPIRE.
AskIsLeader(i) ==
    /\ pc[i] \in {"idle", "get"}
    /\ process[i] # "cancelled"
    /\ heard[i] = "nothing"
    /\ heard' = [heard EXCEPT ![i] = IF isLeader[i] THEN "leads" ELSE "follows"]
    /\ UNCHANGED <<vars, acted, runners, process>>

\* A faulty monitor: a replica that lost leadership runs on.
ObeyStarts(i) ==
    /\ Running(i)
    /\ heard[i] # "nothing"
    /\ heard' = [heard EXCEPT ![i] = "nothing"]
    /\ acted' = [acted EXCEPT ![i] = heard[i] = "leads"]
    /\ runners' = IF heard[i] = "leads" THEN runners \cup {i} ELSE runners
    /\ UNCHANGED <<vars, process>>

\* The jobs are started or stopped if the answer differs from the last one.
\* By now it may be out of date.
Obey(i) ==
    /\ Running(i)
    /\ heard[i] # "nothing"
    /\ heard' = [heard EXCEPT ![i] = "nothing"]
    /\ acted' = [acted EXCEPT ![i] = heard[i] = "leads"]
    /\ \/ /\ heard[i] = "leads" /\ ~acted[i]
          /\ runners' = runners \cup {i}
       \/ /\ heard[i] = "follows" /\ acted[i]
          /\ runners' = runners \ {i}
       \/ /\ heard[i] = "leads" <=> acted[i]
          /\ UNCHANGED runners
    /\ UNCHANGED <<vars, process>>

-----------------------------------------------------------------------------
(* The end of a process.                                                   *)

\* A signal, and stopAllJobs.  The election and the monitor go on, and the
\* monitor may start the jobs again.
StopOnSignal(i) ==
    /\ Running(i)
    /\ process[i] = "up"
    /\ process' = [process EXCEPT ![i] = "stopping"]
    /\ runners' = runners \ {i}
    /\ UNCHANGED <<vars, heard, acted>>

\* The server's context is cancelled, from which every job's derives.  What
\* the monitor still does starts nothing that runs.
ContextEnds(i) ==
    /\ Running(i)
    /\ process[i] # "cancelled"
    /\ process' = [process EXCEPT ![i] = "cancelled"]
    /\ runners' = runners \ {i}
    /\ heard' = [heard EXCEPT ![i] = "nothing"]
    /\ UNCHANGED <<vars, acted>>

\* The election resigns, or the process ends without.  One that is started
\* again knows nothing of its predecessor.
ProcessEnds(i) ==
    /\ \/ Exit(i)
       \/ process[i] = "cancelled" /\ Resign(i)
    /\ heard' = [heard EXCEPT ![i] = "nothing"]
    /\ acted' = [acted EXCEPT ![i] = FALSE]
    /\ runners' = runners \ {i}
    /\ process' = [process EXCEPT ![i] = "up"]

-----------------------------------------------------------------------------

ElectionStep ==
    /\ \/ \E i \in Instances : Start(i) \/ Campaign(i)
       \/ Tick
    /\ UNCHANGED managers

ManagerStep(i) ==
    \/ AskIsLeader(i) \/ Obey(i)
    \/ StopOnSignal(i) \/ ContextEnds(i) \/ ProcessEnds(i)

ClusterNext == ElectionStep \/ \E i \in Instances : ManagerStep(i)

ClusterSpec == ClusterInit /\ [][ClusterNext]_clusterVars

\* Besides the election, the monitors of running processes go on.
ClusterFairSpec ==
    /\ ClusterSpec
    /\ Fairness
    /\ \A i \in Instances : WF_clusterVars(AskIsLeader(i) \/ Obey(i))

-----------------------------------------------------------------------------
(* Properties.                                                             *)

\* Every variable of the managers has its type.
ManagersTypeOK ==
    /\ heard \in [Instances -> {"nothing", "leads", "follows"}]
    /\ acted \in [Instances -> BOOLEAN]
    /\ runners \subseteq Instances
    /\ process \in [Instances -> {"up", "stopping", "cancelled"}]

\* A replica that believes that it leads, or whose jobs nobody told to stop.
Active(i) == isLeader[i] \/ i \in runners

\* At most one replica is active.
OneActive == \A i, j \in Instances : Active(i) /\ Active(j) => i = j

\* While the election is Timely no job runs on two replicas, although a
\* monitor looks only now and then and acts on what it heard: a failed GET
\* ends a leadership whose jobs run on, an exit or a resignation passes the
\* key on, and a stopping process may start its jobs once more.
JobsRunOnce == Timely => OneActive

\* Whatever made two replicas lead, or run the jobs, it ends: every campaign
\* that can read the key corrects isLeader, and the monitors follow.
SplitEnds == []<>OneActive

\* Why JobsRunOnce holds: a replica that is about to start its jobs, or runs
\* them, holds the key, also when it does not know any more that it does.
RunnersInv ==
    \A i \in Instances :
        /\ ~Running(i) => heard[i] = "nothing" /\ i \notin runners
        /\ heard[i] = "leads" \/ i \in runners => holder = i
=============================================================================
