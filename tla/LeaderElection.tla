--------------------------- MODULE LeaderElection ---------------------------
(***************************************************************************)
(* The election of the replica that runs the background jobs: a Redis key  *)
(* with a time to live, which every replica tries to set and its holder    *)
(* extends, on a ticker of a third of that time.  One action per Redis     *)
(* command, because the key may expire and change hands between two.       *)
(* Time is counted in ticks and only relatively: the ticks a key has left, *)
(* the ticks since a replica's last campaign.                              *)
(***************************************************************************)
EXTENDS Naturals

CONSTANTS
    Instances,   \* replicas, named by their hostname
    TTL,         \* the key's time to live, in ticks
    Slack,       \* how late a campaign starts, and how long it takes
    Faults,      \* the Redis commands that may fail, named below
    MaxFaults,   \* bound on the number of failures
    MaxExits,    \* bound on the number of processes that end
    None         \* no holder

(***************************************************************************)
(* "setNX", "get" and "expire" fail without effect; "setNXLost" sets the   *)
(* key although the caller sees an error.                                  *)
(***************************************************************************)
FaultKinds == {"setNX", "setNXLost", "get", "expire"}

ASSUME ElectionAssumption ==
    /\ TTL \in Nat /\ TTL >= 3
    /\ Slack \in Nat
    /\ Faults \subseteq FaultKinds
    /\ MaxFaults \in Nat
    /\ MaxExits \in Nat
    /\ None \notin Instances

Interval == TTL \div 3

VARIABLES
    holder,    \* value of leaderKey, None when the key does not exist
    left,      \* ticks until the key expires
    isLeader,  \* field isLeader of each replica's Election
    pc,        \* where each replica's campaign stands
    age,       \* ticks since each replica's last campaign started
    faults,    \* failed commands so far
    exits,     \* ended processes so far
    inherited  \* whether a process has started under the name in the key

redis == <<holder, left>>
vars == <<redis, isLeader, pc, age, faults, exits, inherited>>

Init ==
    /\ holder = None
    /\ left = 0
    /\ isLeader = [i \in Instances |-> FALSE]
    /\ pc = [i \in Instances |-> "new"]
    /\ age = [i \in Instances |-> Interval]
    /\ faults = 0
    /\ exits = 0
    /\ inherited = FALSE

Fault(kind) ==
    /\ kind \in Faults
    /\ faults < MaxFaults
    /\ faults' = faults + 1

Hold(i) == holder' = i /\ left' = TTL

Lead(i, leads) == isLeader' = [isLeader EXCEPT ![i] = leads]

Goes(i, step) == pc' = [pc EXCEPT ![i] = step]

-----------------------------------------------------------------------------
(* campaign.                                                               *)

\* The ticker fires, or the replica starts: SET leaderKey NX.  An error
\* leaves isLeader as it is.
SetNX(i) ==
    /\ pc[i] = "idle"
    /\ age[i] >= Interval
    /\ age' = [age EXCEPT ![i] = 0]
    /\ \/ /\ holder = None
          /\ Hold(i)
          /\ Lead(i, TRUE)
          /\ UNCHANGED <<pc, faults>>
       \/ /\ holder # None
          /\ Goes(i, "get")
          /\ UNCHANGED <<redis, isLeader, faults>>
       \/ /\ Fault("setNX")
          /\ UNCHANGED <<redis, isLeader, pc>>
       \/ /\ holder = None
          /\ Fault("setNXLost")
          /\ Hold(i)
          /\ UNCHANGED <<isLeader, pc>>
    /\ UNCHANGED <<exits, inherited>>

\* A faulty campaign: it extends the key whoever it finds there.
GetExtendsAnyKey(i) ==
    /\ pc[i] = "get"
    /\ \/ /\ Lead(i, holder = i)
          /\ Goes(i, "expire")
          /\ UNCHANGED faults
       \/ /\ Fault("get")
          /\ Lead(i, FALSE)
          /\ Goes(i, "idle")
    /\ UNCHANGED <<redis, age, exits, inherited>>

\* GET leaderKey: whoever finds its own name leads, and goes on to extend.
Get(i) ==
    /\ pc[i] = "get"
    /\ \/ /\ holder = i
          /\ Lead(i, TRUE)
          /\ Goes(i, "expire")
          /\ UNCHANGED faults
       \/ /\ holder # i
          /\ Lead(i, FALSE)
          /\ Goes(i, "idle")
          /\ UNCHANGED faults
       \/ /\ Fault("get")
          /\ Lead(i, FALSE)
          /\ Goes(i, "idle")
    /\ UNCHANGED <<redis, age, exits, inherited>>

\* A faulty campaign: the leader forgets to extend its key.
ExpireForgotten(i) ==
    /\ pc[i] = "expire"
    /\ Goes(i, "idle")
    /\ UNCHANGED <<redis, isLeader, age, faults, exits, inherited>>

\* EXPIRE leaderKey, whoever holds it by now; its result is not looked at.
Expire(i) ==
    /\ pc[i] = "expire"
    /\ Goes(i, "idle")
    /\ \/ /\ left' = IF holder = None THEN 0 ELSE TTL
          /\ UNCHANGED faults
       \/ /\ Fault("expire")
          /\ UNCHANGED left
    /\ UNCHANGED <<holder, isLeader, age, exits, inherited>>

-----------------------------------------------------------------------------
(* The start and the end of a process.                                     *)

\* A replica campaigns as soon as it starts.  One that is started again has
\* its old hostname, which the key may hold still.
Start(i) ==
    /\ pc[i] \in {"new", "down"}
    /\ Goes(i, "idle")
    /\ age' = [age EXCEPT ![i] = Interval]
    /\ inherited' = (inherited \/ holder = i)
    /\ UNCHANGED <<redis, isLeader, faults, exits>>

Running(i) == pc[i] \in {"idle", "get", "expire"}

Ended(i) ==
    /\ exits < MaxExits
    /\ exits' = exits + 1
    /\ Goes(i, "down")
    /\ Lead(i, FALSE)

\* The server's context is cancelled: the script that compares and deletes
\* runs under that very context, and is refused or not.
Resign(i) ==
    /\ pc[i] = "idle"
    /\ Ended(i)
    /\ \/ /\ isLeader[i]
          /\ holder = i
          /\ holder' = None
          /\ left' = 0
       \/ UNCHANGED redis
    /\ UNCHANGED <<age, faults, inherited>>

\* SIGTERM or a crash: nothing resigns, the key stays until it expires.
Exit(i) ==
    /\ Running(i)
    /\ Ended(i)
    /\ UNCHANGED <<redis, age, faults, inherited>>

-----------------------------------------------------------------------------

\* A campaign starts at most Slack ticks after its time, and takes at most
\* Slack ticks.
OnTime(i) ==
    \/ ~Running(i)
    \/ pc[i] = "idle" /\ age[i] < Interval + Slack
    \/ pc[i] \in {"get", "expire"} /\ age[i] < Slack

\* The passing of time, and the expiry of the key.
Tick ==
    /\ \A i \in Instances : OnTime(i)
    /\ age' = [i \in Instances |-> IF Running(i) THEN age[i] + 1 ELSE age[i]]
    /\ left' = IF left = 0 THEN 0 ELSE left - 1
    /\ holder' = IF left <= 1 THEN None ELSE holder
    /\ UNCHANGED <<isLeader, pc, faults, exits, inherited>>

Campaign(i) == SetNX(i) \/ Get(i) \/ Expire(i)

Next ==
    \/ \E i \in Instances : Start(i) \/ Campaign(i) \/ Resign(i) \/ Exit(i)
    \/ Tick

Spec == Init /\ [][Next]_vars

\* Time passes, the tickers of running processes fire, and every replica of
\* the deployment is started.  Nobody is obliged to restart one that ended.
Fairness ==
    /\ WF_vars(Tick)
    /\ \A i \in Instances : /\ WF_vars(Campaign(i))
                            /\ WF_vars(pc[i] = "new" /\ Start(i))

-----------------------------------------------------------------------------
(* Properties.                                                             *)

\* Every variable has its type, and a key that exists has time left.
TypeOK ==
    /\ holder \in Instances \cup {None}
    /\ left \in 0 .. TTL
    /\ isLeader \in [Instances -> BOOLEAN]
    /\ pc \in [Instances -> {"new", "idle", "get", "expire", "down"}]
    /\ age \in [Instances -> 0 .. Interval + Slack]
    /\ faults \in 0 .. MaxFaults
    /\ exits \in 0 .. MaxExits
    /\ inherited \in BOOLEAN
    /\ holder = None <=> left = 0

\* The longest time between the starts of two campaigns of a replica.
Reach == Interval + Slack

\* Campaigns are on time, the key just set outlives as many campaigns of its
\* holder as have failed, and one more; and nobody found the key of a process
\* of the same name that ended.
Timely == ~inherited /\ (faults + 1) * Reach + Slack < TTL

\* At most one replica believes that it leads.
OneLeader == \A i, j \in Instances : isLeader[i] /\ isLeader[j] => i = j

\* So it is for as long as the replicas are Timely: as the key outlives two of
\* its holder's campaigns, one Redis command may fail.  A replica that cannot
\* reach Redis for longer leads on, since an error leaves isLeader as it is;
\* and one that is restarted may find the key of its predecessor expire
\* between reading and extending it.
AtMostOneLeader == Timely => OneLeader

\* Whether a campaign has begun that has not extended the key yet.
Begun(i) == IF pc[i] \in {"get", "expire"} THEN 1 ELSE 0

\* Why it holds: a leader holds the key, and the key of a running replica was
\* extended no longer ago than its campaigns since then that failed.
LeaseInv ==
    \A i \in Instances :
        /\ isLeader[i] => holder = i /\ Running(i)
        /\ pc[i] = "new" => holder # i
        /\ pc[i] = "expire" => isLeader[i]
        /\ holder = i /\ Running(i) =>
              left + age[i] + (faults + Begun(i)) * Reach >= TTL

\* Somebody leads again and again, whatever process ended while it held the
\* key, as long as the deployment keeps a replica running.
SomebodyLeads == []<>(\E i \in Instances : isLeader[i])
=============================================================================
