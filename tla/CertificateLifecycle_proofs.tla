--------------------- MODULE CertificateLifecycle_proofs --------------------
(***************************************************************************)
(* Proofs about CertificateLifecycle, for every set of requests, users and *)
(* instances, both providers, every clock bound and every set of failures. *)
(***************************************************************************)
EXTENDS CertificateLifecycle, FiniteSetTheorems, TLAPS

\* A generated name is a name.
LEMMA NameType ==
    ASSUME NEW r \in Requests, TypeOK
    PROVE  /\ ExpectedIdentifier(r) \in Names
           /\ NewName(r) \in Names
BY LifecycleAssumption
   DEF TypeOK, ExpectedIdentifier, NewName, GenerateCertificateName, Names

\* What a status update does to the two columns it writes.
LEMMA UpdateType ==
    ASSUME NEW r \in Requests, NEW new \in Statuses,
           NEW by \in Users \cup {System}, NEW note \in Notes,
           status \in [Requests -> Statuses],
           events \in [Requests -> SUBSET Event],
           UpdateCertificateRequestStatus(r, new, by, note)
    PROVE  /\ status' \in [Requests -> Statuses]
           /\ events' \in [Requests -> SUBSET Event]
BY DEF UpdateCertificateRequestStatus, Event

\* The two counters of failures are unchanged together.
USE DEF failures

\* A failure stays within its bound, and leaves requests behind, if any.
LEMMA FaultType ==
    ASSUME NEW kind, Fault(kind), faults \in 0 .. MaxFaults,
           abandoned \subseteq Requests
    PROVE  faults' \in 0 .. MaxFaults /\ abandoned' \subseteq Requests
BY LifecycleAssumption DEF Fault

LEMMA FaultLeavesType ==
    ASSUME NEW kind, NEW left \in SUBSET Requests, FaultLeaves(kind, left),
           faults \in 0 .. MaxFaults, abandoned \subseteq Requests
    PROVE  faults' \in 0 .. MaxFaults /\ abandoned' \subseteq Requests
BY LifecycleAssumption DEF FaultLeaves

\* Replacing the state of one creation job by a well-formed one.
LEMMA CreatorType ==
    ASSUME creator \in [Instances -> CreatorState], CreatorControl,
           NEW i \in Instances, NEW c \in CreatorState,
           c.pc # "batch" => c.cur \in Requests,
           c.pc = "metadata" => c.ident \in Names,
           creator' = [creator EXCEPT ![i] = c]
    PROVE  creator' \in [Instances -> CreatorState] /\ CreatorControl'
BY DEF CreatorControl

\* Moving a creation job that works on a request.
LEMMA CreatorGoesType ==
    ASSUME creator \in [Instances -> CreatorState], CreatorControl,
           NEW i \in Instances, NEW pc \in CreatorPcs,
           NEW ident \in Names \cup {None},
           creator[i].pc # "batch",
           pc = "metadata" => ident \in Names,
           CreatorGoes(i, pc, ident)
    PROVE  creator' \in [Instances -> CreatorState] /\ CreatorControl'
<1> DEFINE c == [creator[i] EXCEPT !.pc = pc, !.ident = ident]
<1>1. creator[i] \in CreatorState /\ creator[i].cur \in Requests
    BY DEF CreatorControl
<1>2. c \in CreatorState
    BY <1>1 DEF CreatorState
<1>3. c.pc = pc /\ c.cur = creator[i].cur /\ c.ident = ident
    BY <1>1 DEF CreatorState
<1>4. creator' = [creator EXCEPT ![i] = c]
    BY DEF CreatorGoes
<1> HIDE DEF c
<1>5. QED
    BY <1>1, <1>2, <1>3, <1>4, CreatorType

\* Moving on to the next request of the batch.
LEMMA CreatorContinuesType ==
    ASSUME creator \in [Instances -> CreatorState], CreatorControl,
           NEW i \in Instances, CreatorContinues(i)
    PROVE  creator' \in [Instances -> CreatorState] /\ CreatorControl'
<1> DEFINE c == [creator[i] EXCEPT !.pc = "batch", !.cur = None, !.ident = None]
<1>1. c \in CreatorState
    BY DEF CreatorState, CreatorPcs
<1>2. c.pc = "batch"
    BY DEF CreatorState
<1>3. creator' = [creator EXCEPT ![i] = c]
    BY DEF CreatorContinues
<1> HIDE DEF c
<1>4. QED
    BY <1>1, <1>2, <1>3, CreatorType

-----------------------------------------------------------------------------

\* The variables keep their types and the processes their control state.
TypeAndControl == TypeOK /\ ControlInv

\* Initially every variable is well-typed and nobody is past a first step.
LEMMA TypeInit == Init => TypeAndControl
BY LifecycleAssumption
   DEF Init, TypeAndControl, TypeOK, ControlInv,
            ReviewControl, CreatorControl, CheckerControl, CreatorState, CheckerState, IdleReview, IdleCreator,
       IdleChecker, CreatorPcs, Times, Statuses

\* Every step keeps the types and the control state, action by action.
LEMMA TypeStep == TypeAndControl /\ [Next]_vars => TypeAndControl'
<1> SUFFICES ASSUME TypeOK, ControlInv, [Next]_vars
             PROVE  TypeOK' /\ ControlInv'
    BY DEF TypeAndControl
<1> USE DEF Statuses, Notes
<1>1. ASSUME NEW r \in Requests, CreateCertificateRequest(r)
      PROVE  TypeOK' /\ ControlInv'
    BY <1>1 DEF CreateCertificateRequest, TypeOK, ControlInv,
            ReviewControl, CreatorControl, CheckerControl, CreatorState, CheckerState, provider
<1>2. ASSUME NEW r \in Requests, AutoApprove(r)
      PROVE  TypeOK' /\ ControlInv'
    <2>1. status' \in [Requests -> Statuses] /\ events' \in [Requests -> SUBSET Event]
        BY <1>2, UpdateType DEF AutoApprove, TypeOK
    <2>2. faults' \in 0 .. MaxFaults /\ abandoned' \subseteq Requests
        BY <1>2, FaultType DEF AutoApprove, TypeOK
    <2>3. QED
        BY <1>2, <2>1, <2>2 DEF AutoApprove, TypeOK, ControlInv,
            ReviewControl, CreatorControl, CheckerControl, CreatorState, CheckerState, provider
<1>3. ASSUME NEW u \in Users, ReviewUpdate(u)
      PROVE  TypeOK' /\ ControlInv'
    <2>1. status' \in [Requests -> Statuses] /\ events' \in [Requests -> SUBSET Event]
        <3>1. /\ review[u].req \in Requests
              /\ review[u].decision \in Statuses
            BY <1>3 DEF ReviewUpdate, ControlInv, ReviewControl
        <3>2. CASE UNCHANGED <<status, events>>
            BY <3>2 DEF TypeOK
        <3>3. CASE UpdateCertificateRequestStatus(review[u].req,
                                                  review[u].decision,
                                                  u, "review")
            BY <3>1, <3>3, UpdateType DEF TypeOK
        <3>4. QED
            BY <1>3, <3>2, <3>3 DEF ReviewUpdate
    <2>2. faults' \in 0 .. MaxFaults /\ abandoned' \subseteq Requests
        BY <1>3, FaultType DEF ReviewUpdate, TypeOK
    <2>3. QED
        BY <1>3, <2>1, <2>2
        DEF ReviewUpdate, TypeOK, ControlInv,
            ReviewControl, CreatorControl, CheckerControl, CreatorState, CheckerState, provider, IdleReview
<1>4. ASSUME NEW u \in Users, NEW r \in Requests,
             NEW d \in {"approved", "rejected"}, ReviewCheck(u, r, d)
      PROVE  TypeOK' /\ ControlInv'
    BY <1>4 DEF ReviewCheck, TypeOK, ControlInv,
            ReviewControl, CreatorControl, CheckerControl, CreatorState, CheckerState, provider, table, IdleReview
<1>5. ASSUME NEW i \in Instances, GetApprovedCertificateRequests(i)
      PROVE  TypeOK' /\ ControlInv'
    BY <1>5
    DEF GetApprovedCertificateRequests, TypeOK, ControlInv,
            ReviewControl, CreatorControl, CheckerControl, CreatorState, CheckerState, provider, table,
        IdleCreator, CreatorPcs
<1>6. ASSUME NEW i \in Instances, NEW r \in Requests, CreatorReserve(i, r)
      PROVE  TypeOK' /\ ControlInv'
    <2> DEFINE left == [IdleCreator EXCEPT !.batch = creator[i].batch \ {r}]
               busy == [left EXCEPT !.pc = "lookup", !.cur = r]
    <2>1. status' \in [Requests -> Statuses] /\ events' \in [Requests -> SUBSET Event]
        BY <1>6, UpdateType DEF CreatorReserve, TypeOK
    <2>2. faults' \in 0 .. MaxFaults /\ abandoned' \subseteq Requests
        BY <1>6, FaultType DEF CreatorReserve, TypeOK
    <2>3. creator[i] \in CreatorState
        BY DEF TypeOK
    <2>4. left \in CreatorState /\ left.pc = "batch"
        BY <2>3 DEF CreatorState, IdleCreator, CreatorPcs
    <2>5. busy \in CreatorState /\ busy.cur = r /\ busy.pc = "lookup"
        BY <2>3 DEF CreatorState, IdleCreator, CreatorPcs
    <2>6. creator' = [creator EXCEPT ![i] = left]
          \/ creator' = [creator EXCEPT ![i] = busy]
        BY <1>6 DEF CreatorReserve
    <2> HIDE DEF left, busy
    <2>7. creator' \in [Instances -> CreatorState] /\ CreatorControl'
        BY <2>4, <2>5, <2>6, CreatorType DEF TypeOK, ControlInv
    <2>8. QED
        BY <1>6, <2>1, <2>2, <2>7
        DEF CreatorReserve, TypeOK, ControlInv, ReviewControl, CheckerControl,
            provider
<1>7. ASSUME NEW i \in Instances, CreatorLookup(i)
      PROVE  TypeOK' /\ ControlInv'
    <2>1. faults' \in 0 .. MaxFaults /\ abandoned' \subseteq Requests
        BY <1>7, FaultType, FaultLeavesType
        DEF CreatorLookup, TypeOK, ControlInv, CreatorControl
    <2>2. ExpectedIdentifier(creator[i].cur) \in Names
        BY <1>7, NameType DEF CreatorLookup, ControlInv, CreatorControl
    <2>3. creator' \in [Instances -> CreatorState] /\ CreatorControl'
        BY <1>7, <2>2, CreatorGoesType, CreatorContinuesType
        DEF CreatorLookup, TypeOK, ControlInv, CreatorPcs
    <2>4. QED
        BY <1>7, <2>1, <2>3
        DEF CreatorLookup, TypeOK, ControlInv, ReviewControl, CheckerControl,
            provider, table
<1>8. ASSUME NEW i \in Instances, CreatorCreate(i)
      PROVE  TypeOK' /\ ControlInv'
    <2>1. faults' \in 0 .. MaxFaults /\ abandoned' \subseteq Requests
        BY <1>8, FaultType, FaultLeavesType
        DEF CreatorCreate, TypeOK, ControlInv, CreatorControl
    <2>2. creator[i].cur \in Requests /\ NewName(creator[i].cur) \in Names
        BY <1>8, NameType DEF CreatorCreate, ControlInv, CreatorControl
    <2>3. creator' \in [Instances -> CreatorState] /\ CreatorControl'
        BY <1>8, <2>2, CreatorGoesType
        DEF CreatorCreate, TypeOK, ControlInv, CreatorPcs
    <2>4. certs' \in [Names -> Requests \cup {None}] /\ ready' \subseteq Names
        BY <1>8, <2>2 DEF CreatorCreate, AddCertificate, TypeOK, provider
    <2>5. QED
        BY <1>8, <2>1, <2>3, <2>4
        DEF CreatorCreate, TypeOK, ControlInv, ReviewControl, CheckerControl,
            table
<1>9. ASSUME NEW i \in Instances, CreatorRollback(i)
      PROVE  TypeOK' /\ ControlInv'
    <2>1. status' \in [Requests -> Statuses] /\ events' \in [Requests -> SUBSET Event]
        BY <1>9, UpdateType
        DEF CreatorRollback, TypeOK, ControlInv, CreatorControl
    <2>2. faults' \in 0 .. MaxFaults /\ abandoned' \subseteq Requests
        BY <1>9, FaultType, FaultLeavesType
        DEF CreatorRollback, TypeOK, ControlInv, CreatorControl
    <2>3. creator' \in [Instances -> CreatorState] /\ CreatorControl'
        BY <1>9, CreatorContinuesType DEF CreatorRollback, TypeOK, ControlInv
    <2>4. QED
        BY <1>9, <2>1, <2>2, <2>3
        DEF CreatorRollback, TypeOK, ControlInv, ReviewControl,
            CheckerControl, provider
<1>10. ASSUME NEW i \in Instances, UpdateCertificateMetadata(i)
       PROVE  TypeOK' /\ ControlInv'
    <2>1. faults' \in 0 .. MaxFaults /\ abandoned' \subseteq Requests
        BY <1>10, FaultType, FaultLeavesType
        DEF UpdateCertificateMetadata, TypeOK, ControlInv, CreatorControl
    <2>2. creator' \in [Instances -> CreatorState] /\ CreatorControl'
        BY <1>10, CreatorContinuesType
        DEF UpdateCertificateMetadata, TypeOK, ControlInv
    <2>3. certificateIdentifier' \in [Requests -> Names \cup {None}]
        BY <1>10
        DEF UpdateCertificateMetadata, TypeOK, ControlInv, CreatorControl
    <2>4. QED
        BY <1>10, <2>1, <2>2, <2>3
        DEF UpdateCertificateMetadata, TypeOK, ControlInv, ReviewControl,
            CheckerControl, provider
<1>11. ASSUME NEW i \in Instances, GetPendingCertificateRequests(i)
       PROVE  TypeOK' /\ ControlInv'
    BY <1>11
    DEF GetPendingCertificateRequests, TypeOK, ControlInv,
            ReviewControl, CreatorControl, CheckerControl, CreatorState, CheckerState, provider, table,
        IdleChecker
<1>12. ASSUME NEW i \in Instances, NEW r \in Requests, NEW n \in Names,
              CheckerCheck(i, r, n)
       PROVE  TypeOK' /\ ControlInv'
    <2> DEFINE left == [IdleChecker EXCEPT !.batch = checker[i].batch \ {<<r, n>>}]
               busy == [left EXCEPT !.cur = r, !.ident = n]
    <2>1. faults' \in 0 .. MaxFaults /\ abandoned' \subseteq Requests
        BY <1>12, FaultType DEF CheckerCheck, TypeOK
    <2>2. checker[i] \in CheckerState
        BY DEF TypeOK
    <2>3. left \in CheckerState /\ left.cur = None
        BY <2>2 DEF CheckerState, IdleChecker
    <2>4. busy \in CheckerState /\ busy.ident = n
        BY <2>2 DEF CheckerState, IdleChecker
    <2>5. checker' = [checker EXCEPT ![i] = left]
          \/ checker' = [checker EXCEPT ![i] = busy]
        BY <1>12 DEF CheckerCheck
    <2> HIDE DEF left, busy
    <2>6. checker' \in [Instances -> CheckerState] /\ CheckerControl'
        BY <2>3, <2>4, <2>5 DEF TypeOK, ControlInv, CheckerControl
    <2>7. QED
        BY <1>12, <2>1, <2>6
        DEF CheckerCheck, TypeOK, ControlInv, ReviewControl, CreatorControl,
            provider, table
<1>13. ASSUME NEW i \in Instances, UpdateCertificateRequestIssued(i)
       PROVE  TypeOK' /\ ControlInv'
    <2>0. checker[i].cur \in Requests /\ checker[i].ident \in Names
        BY <1>13
        DEF UpdateCertificateRequestIssued, TypeOK, CheckerState, ControlInv,
            CheckerControl
    <2>1. status' \in [Requests -> Statuses] /\ events' \in [Requests -> SUBSET Event]
        BY <1>13, <2>0, UpdateType DEF UpdateCertificateRequestIssued, TypeOK
    <2>2. faults' \in 0 .. MaxFaults /\ abandoned' \subseteq Requests
        BY <1>13, FaultType DEF UpdateCertificateRequestIssued, TypeOK
    <2>3. QED
        BY <1>13, <2>0, <2>1, <2>2
        DEF UpdateCertificateRequestIssued, TypeOK, ControlInv,
            ReviewControl, CreatorControl, CheckerControl, CreatorState, CheckerState, provider,
            IdleChecker
<1>14. ASSUME NEW i \in Instances, Crash(i)
       PROVE  TypeOK' /\ ControlInv'
    <2>1. faults' \in 0 .. MaxFaults /\ abandoned' \subseteq Requests
        <3>1. {creator[i].cur} \ {None} \in SUBSET Requests
            BY DEF TypeOK, CreatorState
        <3>2. QED
            BY <1>14, <3>1, FaultLeavesType DEF Crash, TypeOK
    <2>2. QED
        BY <1>14, <2>1
        DEF Crash, TypeOK, ControlInv,
            ReviewControl, CreatorControl, CheckerControl, CreatorState, CheckerState, provider, table, IdleChecker,
            IdleCreator, CreatorPcs
<1>15. ASSUME NEW n \in Names, IssuerReady(n)
       PROVE  TypeOK' /\ ControlInv'
    BY <1>15 DEF IssuerReady, TypeOK, ControlInv,
            ReviewControl, CreatorControl, CheckerControl, CreatorState, CheckerState, table
<1>16. CASE Tick
    BY <1>16, LifecycleAssumption
    DEF Tick, TypeOK, ControlInv,
            ReviewControl, CreatorControl, CheckerControl, CreatorState, CheckerState, table, provider, Times
<1>17. CASE UNCHANGED vars
    BY <1>17 DEF vars, TypeOK, ControlInv,
            ReviewControl, CreatorControl, CheckerControl, CreatorState, CheckerState, table, provider
<1>18. QED
    BY <1>1, <1>2, <1>3, <1>4, <1>5, <1>6, <1>7, <1>8, <1>9, <1>10, <1>11,
       <1>12, <1>13, <1>14, <1>15, <1>16, <1>17
    DEF Next, Handlers, CreationJob, StatusJob

\* Type correctness: in every reachable state each column and each job
\* variable has its type.
THEOREM TypeCorrect == Spec => []TypeOK
<1>1. TypeAndControl => TypeOK
    BY DEF TypeAndControl
<1>2. QED
    BY <1>1, TypeInit, TypeStep, PTL DEF Spec

-----------------------------------------------------------------------------

\* Events are never removed, so a granted request stays granted.
LEMMA GrantedStable ==
    ASSUME TypeAndControl, [Next]_vars, NEW r \in Requests, Granted(r)
    PROVE  Granted(r)'
<1> SUFFICES events[r] \subseteq events'[r]
    BY DEF Granted, Entitles
<1>1. ASSUME NEW s \in Requests, NEW new, NEW by, NEW note,
             UpdateCertificateRequestStatus(s, new, by, note)
      PROVE  events[r] \subseteq events'[r]
    BY <1>1 DEF UpdateCertificateRequestStatus, TypeAndControl, TypeOK
<1>2. CASE UNCHANGED events
    BY <1>2
<1>3. ASSUME NEW u \in Users, ReviewUpdate(u)
      PROVE  events[r] \subseteq events'[r]
    BY <1>1, <1>2, <1>3
    DEF ReviewUpdate, TypeAndControl, ControlInv, ReviewControl
<1>4. ASSUME NEW i \in Instances, CreatorRollback(i)
      PROVE  events[r] \subseteq events'[r]
    BY <1>1, <1>2, <1>4
    DEF CreatorRollback, TypeAndControl, ControlInv, CreatorControl
<1>5. ASSUME NEW i \in Instances, UpdateCertificateRequestIssued(i)
      PROVE  events[r] \subseteq events'[r]
    BY <1>1, <1>2, <1>5
    DEF UpdateCertificateRequestIssued, TypeAndControl, TypeOK, CheckerState
<1>6. ASSUME NEW s \in Requests, AutoApprove(s)
      PROVE  events[r] \subseteq events'[r]
    BY <1>1, <1>2, <1>6 DEF AutoApprove
<1>7. ASSUME NEW i \in Instances, NEW s \in Requests, CreatorReserve(i, s)
      PROVE  events[r] \subseteq events'[r]
    BY <1>1, <1>2, <1>7 DEF CreatorReserve
<1>8. QED
    BY <1>2, <1>3, <1>4, <1>5, <1>6, <1>7
    DEF Next, vars, table, Handlers, CreationJob, StatusJob,
        CreateCertificateRequest, ReviewCheck, GetApprovedCertificateRequests,
        CreatorLookup, CreatorCreate, UpdateCertificateMetadata,
        GetPendingCertificateRequests, CheckerCheck, Crash, IssuerReady, Tick

\* The parts of ApprovalInv, by the actor that carries the approval.
ApprovedGranted == \A r \in Requests : status[r] = "approved" => Granted(r)

PosterEntitled == \A r \in posting : Owner[r] \in AutoApprovers

ReviewerEntitled ==
    \A u \in Users : review[u] # IdleReview =>
        /\ u \in Approvers
        /\ u = Owner[review[u].req] => u \in SelfApprovers

CreatorGranted ==
    \A i \in Instances :
        /\ \A r \in creator[i].batch : Granted(r)
        /\ creator[i].pc # "batch" => Granted(creator[i].cur)

\* ApprovalInv is the conjunction of its named parts.
LEMMA ApprovalParts ==
    ApprovalInv <=> /\ CertificateNeedsApproval
                    /\ ApprovedGranted
                    /\ PosterEntitled
                    /\ ReviewerEntitled
                    /\ CreatorGranted
BY DEF ApprovalInv, ApprovedGranted, PosterEntitled, ReviewerEntitled,
       CreatorGranted

\* Initially there is no certificate and nobody carries an approval.
LEMMA ApprovalInit == Init => ApprovalInv
BY LifecycleAssumption
   DEF Init, ApprovalInv, CertificateNeedsApproval, IdleReview, IdleCreator,
       Statuses

\* An automatic or a reviewer's approval grants the request.
LEMMA ApprovalGrants ==
    ASSUME TypeAndControl, NEW r \in Requests, NEW by, NEW note,
           UpdateCertificateRequestStatus(r, "approved", by, note),
           \/ note = "auto" /\ Owner[r] \in AutoApprovers
           \/ /\ note = "review"
              /\ by \in Approvers
              /\ by = Owner[r] => by \in SelfApprovers
    PROVE  Granted(r)'
<1> DEFINE e == [status |-> "approved", by |-> by, note |-> note]
<1>1. e \in events'[r]
    BY DEF UpdateCertificateRequestStatus, TypeAndControl, TypeOK
<1>2. Entitles(e, r)
    BY DEF Entitles
<1>3. QED
    BY <1>1, <1>2 DEF Granted, Entitles

\* A status becomes "approved" only by a grant or a rollback.
LEMMA ApprovedGrantedStep ==
    ASSUME TypeAndControl, ApprovalInv, [Next]_vars
    PROVE  ApprovedGranted'
<1> SUFFICES ASSUME NEW r \in Requests, status'[r] = "approved"
             PROVE  Granted(r)'
    BY DEF ApprovedGranted
<1>1. CASE status[r] = "approved"
    BY <1>1, GrantedStable DEF ApprovalInv
<1>2. ASSUME NEW s \in Requests, NEW new, NEW by, NEW note,
             UpdateCertificateRequestStatus(s, new, by, note),
             status[r] # "approved"
      PROVE  s = r /\ new = "approved"
    BY <1>2 DEF UpdateCertificateRequestStatus, TypeAndControl, TypeOK
<1>3. ASSUME NEW u \in Users, ReviewUpdate(u), status[r] # "approved"
      PROVE  Granted(r)'
    BY <1>2, <1>3, ApprovalGrants
    DEF ReviewUpdate, TypeAndControl, ControlInv, ReviewControl, ApprovalInv
<1>4. ASSUME NEW i \in Instances, CreatorRollback(i), status[r] # "approved"
      PROVE  Granted(r)'
    BY <1>2, <1>4, GrantedStable
    DEF CreatorRollback, TypeAndControl, ControlInv, CreatorControl,
        ApprovalInv
<1>5. ASSUME NEW i \in Instances, UpdateCertificateRequestIssued(i),
             status[r] # "approved"
      PROVE  Granted(r)'
    BY <1>2, <1>5
    DEF UpdateCertificateRequestIssued, TypeAndControl, TypeOK, CheckerState
<1>6. ASSUME NEW s \in Requests, AutoApprove(s), status[r] # "approved"
      PROVE  Granted(r)'
    BY <1>2, <1>6, ApprovalGrants DEF AutoApprove, ApprovalInv
<1>7. ASSUME NEW i \in Instances, NEW s \in Requests, CreatorReserve(i, s),
             status[r] # "approved"
      PROVE  Granted(r)'
    BY <1>2, <1>7 DEF CreatorReserve
<1>8. ASSUME NEW s \in Requests, CreateCertificateRequest(s),
             status[r] # "approved"
      PROVE  Granted(r)'
    BY <1>8 DEF CreateCertificateRequest, TypeAndControl, TypeOK
<1>9. QED
    BY <1>1, <1>3, <1>4, <1>5, <1>6, <1>7, <1>8
    DEF Next, vars, table, Handlers, CreationJob, StatusJob, ReviewCheck,
        GetApprovedCertificateRequests, CreatorLookup, CreatorCreate,
        UpdateCertificateMetadata, GetPendingCertificateRequests,
        CheckerCheck, Crash, IssuerReady, Tick

\* The handlers in flight act for those who may approve.
LEMMA HandlersEntitledStep ==
    ASSUME TypeAndControl, ApprovalInv, [Next]_vars
    PROVE  PosterEntitled' /\ ReviewerEntitled'
<1>0. PosterEntitled /\ ReviewerEntitled
    BY ApprovalParts
<1>1. ASSUME NEW r \in Requests, CreateCertificateRequest(r) \/ AutoApprove(r)
      PROVE  PosterEntitled' /\ ReviewerEntitled'
    BY <1>0, <1>1
    DEF CreateCertificateRequest, AutoApprove, PosterEntitled,
        ReviewerEntitled
<1>2. ASSUME NEW u \in Users, ReviewUpdate(u)
      PROVE  PosterEntitled' /\ ReviewerEntitled'
    BY <1>0, <1>2
    DEF ReviewUpdate, PosterEntitled, ReviewerEntitled, TypeAndControl, TypeOK
<1>3. ASSUME NEW u \in Users, NEW r \in Requests,
             NEW d \in {"approved", "rejected"}, ReviewCheck(u, r, d)
      PROVE  PosterEntitled' /\ ReviewerEntitled'
    BY <1>0, <1>3
    DEF ReviewCheck, PosterEntitled, ReviewerEntitled, TypeAndControl, TypeOK
<1>4. CASE UNCHANGED <<posting, review>>
    BY <1>0, <1>4 DEF PosterEntitled, ReviewerEntitled
<1>5. QED
    BY <1>1, <1>2, <1>3, <1>4
    DEF Next, vars, Handlers, CreationJob, StatusJob,
        GetApprovedCertificateRequests, CreatorReserve, CreatorLookup,
        CreatorCreate, CreatorRollback, UpdateCertificateMetadata,
        GetPendingCertificateRequests, CheckerCheck,
        UpdateCertificateRequestIssued, Crash, IssuerReady, Tick

\* A creation job only ever holds granted requests, however stale its batch.
LEMMA CreatorGrantedStep ==
    ASSUME TypeAndControl, ApprovalInv, [Next]_vars
    PROVE  CreatorGranted'
<1>0. \A r \in Requests : Granted(r) => Granted(r)'
    BY GrantedStable
<1>1. /\ creator \in [Instances -> CreatorState]
      /\ CreatorControl
      /\ CreatorGranted
    BY ApprovalParts DEF TypeAndControl, TypeOK, ControlInv
<1>2. ASSUME NEW i \in Instances, NEW c,
             creator' = [creator EXCEPT ![i] = c],
             \A r \in c.batch : r \in Requests /\ Granted(r),
             c.pc # "batch" => c.cur \in Requests /\ Granted(c.cur)
      PROVE  CreatorGranted'
    BY <1>0, <1>1, <1>2 DEF CreatorGranted, CreatorControl, CreatorState
<1>3. ASSUME NEW i \in Instances, NEW pc, NEW ident, creator[i].pc # "batch",
             CreatorGoes(i, pc, ident)
      PROVE  CreatorGranted'
    <2> DEFINE c == [creator[i] EXCEPT !.pc = pc, !.ident = ident]
    <2>1. c.batch = creator[i].batch /\ c.cur = creator[i].cur
        BY <1>1 DEF CreatorState
    <2>2. creator' = [creator EXCEPT ![i] = c]
        BY <1>3 DEF CreatorGoes
    <2>3. /\ \A r \in creator[i].batch : r \in Requests /\ Granted(r)
          /\ creator[i].cur \in Requests /\ Granted(creator[i].cur)
        BY <1>1, <1>3 DEF CreatorGranted, CreatorControl, CreatorState
    <2> HIDE DEF c
    <2>4. QED
        BY <1>2, <2>1, <2>2, <2>3
<1>4. ASSUME NEW i \in Instances, CreatorContinues(i)
      PROVE  CreatorGranted'
    <2> DEFINE c == [creator[i] EXCEPT !.pc = "batch", !.cur = None, !.ident = None]
    <2>1. c.batch = creator[i].batch /\ c.pc = "batch"
        BY <1>1 DEF CreatorState
    <2>2. creator' = [creator EXCEPT ![i] = c]
        BY <1>4 DEF CreatorContinues
    <2>3. \A r \in creator[i].batch : r \in Requests /\ Granted(r)
        BY <1>1 DEF CreatorGranted, CreatorState
    <2> HIDE DEF c
    <2>4. QED
        BY <1>2, <2>1, <2>2, <2>3
<1>5. ASSUME NEW i \in Instances, GetApprovedCertificateRequests(i)
      PROVE  CreatorGranted'
    <2> DEFINE c == [creator[i] EXCEPT !.batch = {r \in Requests : status[r] = "approved"}]
    <2>1. /\ c.batch = {r \in Requests : status[r] = "approved"}
          /\ c.pc = "batch"
        BY <1>1, <1>5
        DEF GetApprovedCertificateRequests, CreatorState, IdleCreator
    <2>2. creator' = [creator EXCEPT ![i] = c]
        BY <1>5 DEF GetApprovedCertificateRequests
    <2> HIDE DEF c
    <2>3. QED
        BY <1>2, <2>1, <2>2 DEF ApprovalInv
<1>6. ASSUME NEW i \in Instances, NEW r \in Requests, CreatorReserve(i, r)
      PROVE  CreatorGranted'
    <2> DEFINE left == [IdleCreator EXCEPT !.batch = creator[i].batch \ {r}]
               busy == [left EXCEPT !.pc = "lookup", !.cur = r]
    <2>1. /\ left.batch = creator[i].batch \ {r}
          /\ left.pc = "batch"
          /\ busy.batch = left.batch
          /\ busy.cur = r
        BY DEF IdleCreator
    <2>2. \/ creator' = [creator EXCEPT ![i] = left]
          \/ creator' = [creator EXCEPT ![i] = busy]
        BY <1>6 DEF CreatorReserve
    <2>3. /\ \A s \in creator[i].batch : s \in Requests /\ Granted(s)
          /\ r \in creator[i].batch
        BY <1>1, <1>6 DEF CreatorReserve, Oldest, CreatorGranted, CreatorState
    <2> HIDE DEF left, busy
    <2>4. QED
        BY <1>2, <2>1, <2>2, <2>3
<1>7. ASSUME NEW i \in Instances, Crash(i)
      PROVE  CreatorGranted'
    <2>1. IdleCreator.batch = {} /\ IdleCreator.pc = "batch"
        BY DEF IdleCreator
    <2>2. creator' = [creator EXCEPT ![i] = IdleCreator]
        BY <1>7 DEF Crash
    <2>3. QED
        BY <1>2, <2>1, <2>2
<1>8. CASE UNCHANGED creator
    BY <1>0, <1>1, <1>8 DEF CreatorGranted, CreatorControl, CreatorState
<1>9. QED
    BY <1>3, <1>4, <1>5, <1>6, <1>7, <1>8
    DEF Next, vars, Handlers, CreationJob, StatusJob,
        CreateCertificateRequest, AutoApprove, ReviewCheck, ReviewUpdate,
        CreatorLookup, CreatorCreate, CreatorRollback,
        UpdateCertificateMetadata, GetPendingCertificateRequests,
        CheckerCheck, UpdateCertificateRequestIssued, IssuerReady, Tick

\* The one step that adds a certificate adds it for a granted request.
LEMMA CertificateStep ==
    ASSUME TypeAndControl, ApprovalInv, [Next]_vars
    PROVE  CertificateNeedsApproval'
<1>0. \A r \in Requests : Granted(r) => Granted(r)'
    BY GrantedStable
<1>1. certs \in [Names -> Requests \cup {None}]
    BY DEF TypeAndControl, TypeOK
<1>2. ASSUME NEW i \in Instances, CreatorCreate(i)
      PROVE  CertificateNeedsApproval'
    <2>1. creator[i].cur \in Requests /\ Granted(creator[i].cur)
        BY <1>2
        DEF CreatorCreate, TypeAndControl, ControlInv, CreatorControl,
            ApprovalInv
    <2>2. \A n \in Names : certs'[n] \in {certs[n], creator[i].cur}
        BY <1>1, <1>2 DEF CreatorCreate, AddCertificate, provider
    <2>3. QED
        BY <1>0, <1>1, <2>1, <2>2 DEF ApprovalInv, CertificateNeedsApproval
<1>3. CASE UNCHANGED certs
    BY <1>0, <1>1, <1>3 DEF ApprovalInv, CertificateNeedsApproval
<1>4. QED
    BY <1>2, <1>3
    DEF Next, vars, provider, Handlers, CreationJob, StatusJob,
        CreateCertificateRequest, AutoApprove, ReviewCheck, ReviewUpdate,
        GetApprovedCertificateRequests, CreatorReserve, CreatorLookup,
        CreatorRollback, UpdateCertificateMetadata,
        GetPendingCertificateRequests, CheckerCheck,
        UpdateCertificateRequestIssued, Crash, IssuerReady, Tick

\* Every step keeps ApprovalInv.
LEMMA ApprovalStep ==
    TypeAndControl /\ ApprovalInv /\ [Next]_vars => ApprovalInv'
<1> SUFFICES ASSUME TypeAndControl, ApprovalInv, [Next]_vars
             PROVE  ApprovalInv'
    OBVIOUS
<1>1. /\ CertificateNeedsApproval'
      /\ ApprovedGranted'
      /\ PosterEntitled'
      /\ ReviewerEntitled'
      /\ CreatorGranted'
    BY CertificateStep, ApprovedGrantedStep, HandlersEntitledStep,
       CreatorGrantedStep
<1>2. QED
    BY <1>1
    DEF ApprovalInv, ApprovedGranted, PosterEntitled, ReviewerEntitled,
        CreatorGranted

\* No certificate without an approval by somebody entitled to give it, with
\* any number of overlapping jobs, reviewers and failures.
THEOREM Approval == Spec => []CertificateNeedsApproval
<1>1. ApprovalInv => CertificateNeedsApproval
    BY DEF ApprovalInv
<1>2. QED
    BY <1>1, TypeInit, TypeStep, ApprovalInit, ApprovalStep, PTL DEF Spec

-----------------------------------------------------------------------------

\* The parts of RecordsInv: what the provider holds, what the rows record and
\* what the jobs hand on.
ProviderRecords ==
    /\ \A n \in ready : certs[n] # None
    /\ \A n \in Names : certs[n] # None => Owner[certs[n]] = n[1]

CreatorRecords ==
    \A i \in Instances :
        creator[i].pc = "metadata" => Belongs(creator[i].ident, creator[i].cur)

CheckerRecords ==
    \A i \in Instances :
        /\ \A e \in checker[i].batch :
              /\ Belongs(e[2], e[1])
              /\ certificateIdentifier[e[1]] # None
        /\ checker[i].cur # None =>
              /\ Belongs(checker[i].ident, checker[i].cur)
              /\ checker[i].ident \in ready
              /\ certificateIdentifier[checker[i].cur] # None

\* RecordsInv is the conjunction of its named parts.
LEMMA RecordsParts ==
    RecordsInv <=> /\ RecordsRealCertificate
                   /\ ProviderRecords
                   /\ CreatorRecords
                   /\ CheckerRecords
BY DEF RecordsInv, ProviderRecords, CreatorRecords, CheckerRecords

\* Initially no row records anything.
LEMMA RecordsInit == Init => RecordsInv
BY LifecycleAssumption
   DEF Init, RecordsInv, RecordsRealCertificate, IdleCreator, IdleChecker

\* The name under which a certificate is looked up or created carries the
\* owner of the request.
LEMMA NameOwner ==
    ASSUME NEW r \in Requests, TypeOK
    PROVE  /\ ExpectedIdentifier(r)[1] = Owner[r]
           /\ NewName(r)[1] = Owner[r]
BY DEF ExpectedIdentifier, NewName, GenerateCertificateName

\* Certificates are added and never removed or given to another request.
LEMMA CertsGrow ==
    ASSUME TypeAndControl, ProviderRecords, [Next]_vars
    PROVE  /\ ProviderRecords'
           /\ \A n \in Names : certs[n] # None => certs'[n] = certs[n]
           /\ \A n \in ready : n \in ready'
<1>1. /\ certs \in [Names -> Requests \cup {None}]
      /\ ready \subseteq Names
    BY DEF TypeAndControl, TypeOK
<1>2. ASSUME NEW r \in Requests, NEW n \in Names, n[1] = Owner[r],
             certs[n] = None, AddCertificate(n, r)
      PROVE  /\ ProviderRecords'
             /\ \A m \in Names : certs[m] # None => certs'[m] = certs[m]
             /\ \A m \in ready : m \in ready'
    <2>1. \A m \in Names : certs'[m] = IF m = n THEN r ELSE certs[m]
        BY <1>1, <1>2 DEF AddCertificate
    <2>2. ready \subseteq ready' /\ ready' \subseteq ready \cup {n}
        BY <1>2 DEF AddCertificate
    <2>3. r # None
        BY LifecycleAssumption
    <2>4. QED
        BY <1>1, <1>2, <2>1, <2>2, <2>3 DEF ProviderRecords
<1>3. ASSUME NEW i \in Instances, CreatorCreate(i)
      PROVE  /\ ProviderRecords'
             /\ \A m \in Names : certs[m] # None => certs'[m] = certs[m]
             /\ \A m \in ready : m \in ready'
    <2>1. /\ creator[i].cur \in Requests
          /\ NewName(creator[i].cur) \in Names
          /\ NewName(creator[i].cur)[1] = Owner[creator[i].cur]
        BY <1>3, NameType, NameOwner
        DEF CreatorCreate, TypeAndControl, ControlInv, CreatorControl
    <2>2. CASE UNCHANGED provider
        BY <1>1, <2>2 DEF provider, ProviderRecords
    <2>3. QED
        BY <1>2, <1>3, <2>1, <2>2 DEF CreatorCreate
<1>4. ASSUME NEW n \in Names, IssuerReady(n)
      PROVE  /\ ProviderRecords'
             /\ \A m \in Names : certs[m] # None => certs'[m] = certs[m]
             /\ \A m \in ready : m \in ready'
    BY <1>1, <1>4 DEF IssuerReady, ProviderRecords
<1>5. CASE UNCHANGED provider
    BY <1>1, <1>5 DEF provider, ProviderRecords
<1>6. QED
    BY <1>3, <1>4, <1>5
    DEF Next, vars, Handlers, CreationJob, StatusJob,
        CreateCertificateRequest, AutoApprove, ReviewCheck, ReviewUpdate,
        GetApprovedCertificateRequests, CreatorReserve, CreatorLookup,
        CreatorRollback, UpdateCertificateMetadata,
        GetPendingCertificateRequests, CheckerCheck,
        UpdateCertificateRequestIssued, Crash, Tick

\* A certificate that belongs to the owner of a request goes on doing so.
LEMMA BelongsStable ==
    ASSUME TypeAndControl, RecordsInv, [Next]_vars,
           NEW n \in Names, NEW r, Belongs(n, r)
    PROVE  Belongs(n, r)'
BY CertsGrow, RecordsParts DEF Belongs

\* The columns a step may write, and with what.
LEMMA ColumnStep ==
    ASSUME TypeAndControl, RecordsInv, [Next]_vars, NEW r \in Requests
    PROVE  /\ \/ certificateIdentifier'[r] = certificateIdentifier[r]
              \/ /\ certificateIdentifier'[r] \in Names
                 /\ Belongs(certificateIdentifier'[r], r)
           /\ \/ /\ certificatePem'[r] = certificatePem[r]
                 /\ status'[r] = "issued" => status[r] = "issued"
              \/ /\ certificatePem'[r] \in ready
                 /\ Belongs(certificatePem'[r], r)
                 /\ certificateIdentifier[r] # None
<1> DEFINE Goal == /\ \/ certificateIdentifier'[r] = certificateIdentifier[r]
                      \/ /\ certificateIdentifier'[r] \in Names
                         /\ Belongs(certificateIdentifier'[r], r)
                   /\ \/ /\ certificatePem'[r] = certificatePem[r]
                         /\ status'[r] = "issued" => status[r] = "issued"
                      \/ /\ certificatePem'[r] \in ready
                         /\ Belongs(certificatePem'[r], r)
                         /\ certificateIdentifier[r] # None
<1>0. TypeOK /\ ControlInv /\ CreatorRecords /\ CheckerRecords
    BY RecordsParts DEF TypeAndControl
<1>1. ASSUME NEW s, NEW new, NEW by, NEW note, new # "issued",
             UpdateCertificateRequestStatus(s, new, by, note)
      PROVE  status'[r] = "issued" => status[r] = "issued"
    BY <1>0, <1>1 DEF UpdateCertificateRequestStatus, TypeOK
<1>2. ASSUME NEW u \in Users, ReviewUpdate(u)
      PROVE  Goal
    BY <1>0, <1>1, <1>2 DEF ReviewUpdate, ControlInv, ReviewControl
<1>3. ASSUME NEW i \in Instances, CreatorRollback(i)
      PROVE  Goal
    BY <1>1, <1>3 DEF CreatorRollback
<1>4. ASSUME NEW s \in Requests, AutoApprove(s)
      PROVE  Goal
    BY <1>1, <1>4 DEF AutoApprove
<1>5. ASSUME NEW i \in Instances, NEW s \in Requests, CreatorReserve(i, s)
      PROVE  Goal
    BY <1>1, <1>5 DEF CreatorReserve
<1>6. ASSUME NEW s \in Requests, CreateCertificateRequest(s)
      PROVE  Goal
    BY <1>0, <1>6 DEF CreateCertificateRequest, TypeOK
<1>7. ASSUME NEW i \in Instances, UpdateCertificateMetadata(i)
      PROVE  Goal
    BY <1>0, <1>7
    DEF UpdateCertificateMetadata, CreatorRecords, TypeOK, ControlInv,
        CreatorControl
<1>8. ASSUME NEW i \in Instances, UpdateCertificateRequestIssued(i)
      PROVE  Goal
    <2>1. CASE UNCHANGED <<status, events, certificatePem>>
        BY <1>8, <2>1 DEF UpdateCertificateRequestIssued
    <2>2. CASE /\ UpdateCertificateRequestStatus(checker[i].cur, "issued",
                                                 System, "job")
               /\ certificatePem' = [certificatePem EXCEPT
                                       ![checker[i].cur] = checker[i].ident]
        <3>1. CASE r = checker[i].cur
            BY <1>0, <1>8, <2>2, <3>1
            DEF UpdateCertificateRequestIssued, CheckerRecords, TypeOK
        <3>2. CASE r # checker[i].cur
            BY <1>0, <1>8, <2>2, <3>2
            DEF UpdateCertificateRequestIssued,
                UpdateCertificateRequestStatus, TypeOK
        <3>3. QED
            BY <3>1, <3>2
    <2>3. QED
        BY <1>8, <2>1, <2>2 DEF UpdateCertificateRequestIssued
<1>9. CASE UNCHANGED <<certificateIdentifier, certificatePem, status>>
    BY <1>9
<1>10. QED
    BY <1>2, <1>3, <1>4, <1>5, <1>6, <1>7, <1>8, <1>9
    DEF Next, vars, table, Handlers, CreationJob, StatusJob, ReviewCheck,
        GetApprovedCertificateRequests, CreatorLookup, CreatorCreate,
        GetPendingCertificateRequests, CheckerCheck, Crash, IssuerReady, Tick

\* What the rows record goes on existing, whatever a step writes.
LEMMA RowsStep ==
    ASSUME TypeAndControl, RecordsInv, [Next]_vars
    PROVE  RecordsRealCertificate'
<1> SUFFICES ASSUME NEW r \in Requests
             PROVE  /\ certificateIdentifier'[r] # None =>
                          Belongs(certificateIdentifier[r], r)'
                    /\ certificatePem'[r] # None =>
                          /\ Belongs(certificatePem[r], r)'
                          /\ certificatePem'[r] \in ready'
                    /\ status'[r] = "issued" =>
                          /\ certificatePem'[r] # None
                          /\ certificateIdentifier'[r] # None
    BY DEF RecordsRealCertificate
<1>1. /\ certificateIdentifier \in [Requests -> Names \cup {None}]
      /\ certificatePem \in [Requests -> Names \cup {None}]
      /\ ready \subseteq Names
      /\ None \notin Names
    BY LifecycleAssumption DEF TypeAndControl, TypeOK
<1>2. \A n \in Names : Belongs(n, r) =>
        certs'[n] # None /\ Owner[certs'[n]] = Owner[r]
    BY BelongsStable DEF Belongs
<1>3. \A n \in ready : n \in ready'
    BY CertsGrow, RecordsParts
<1>4. RecordsRealCertificate
    BY RecordsParts
<1>5. QED
    BY <1>1, <1>2, <1>3, <1>4, ColumnStep
    DEF RecordsRealCertificate, Belongs

\* A creation job only hands on a name it has found or created.
LEMMA CreatorRecordsStep ==
    ASSUME TypeAndControl, RecordsInv, [Next]_vars
    PROVE  CreatorRecords'
<1>1. /\ creator \in [Instances -> CreatorState]
      /\ TypeOK /\ CreatorControl /\ CreatorRecords
      /\ RecordsRealCertificate /\ ProviderRecords
    BY RecordsParts DEF TypeAndControl, TypeOK, ControlInv
<1>2. \A n \in Names, r \in Requests : Belongs(n, r) => Belongs(n, r)'
    BY BelongsStable
<1> DEFINE Held(n, r) == certs'[n] # None /\ Owner[certs'[n]] = Owner[r]
<1>3. ASSUME NEW i \in Instances, NEW c,
             creator' = [creator EXCEPT ![i] = c],
             c.pc = "metadata" => Held(c.ident, c.cur)
      PROVE  CreatorRecords'
    BY <1>1, <1>2, <1>3
    DEF CreatorRecords, CreatorControl, CreatorState, Belongs
<1>4. ASSUME NEW i \in Instances, NEW pc, NEW ident, CreatorGoes(i, pc, ident),
             pc = "metadata" => Held(ident, creator[i].cur)
      PROVE  CreatorRecords'
    <2> DEFINE c == [creator[i] EXCEPT !.pc = pc, !.ident = ident]
    <2>1. c.pc = pc /\ c.cur = creator[i].cur /\ c.ident = ident
        BY <1>1 DEF CreatorState
    <2>2. creator' = [creator EXCEPT ![i] = c]
        BY <1>4 DEF CreatorGoes
    <2>3. c.pc = "metadata" => Held(c.ident, c.cur)
        BY <1>4, <2>1
    <2> HIDE DEF c, Held
    <2>4. QED
        BY <1>3, <2>2, <2>3
<1>5. ASSUME NEW i \in Instances, CreatorContinues(i)
      PROVE  CreatorRecords'
    <2> DEFINE c == [creator[i] EXCEPT !.pc = "batch", !.cur = None, !.ident = None]
    <2>1. c.pc = "batch"
        BY <1>1 DEF CreatorState
    <2>2. creator' = [creator EXCEPT ![i] = c]
        BY <1>5 DEF CreatorContinues
    <2> HIDE DEF c
    <2>3. QED
        BY <1>3, <2>1, <2>2
<1>6. ASSUME NEW i \in Instances, GetApprovedCertificateRequests(i)
      PROVE  CreatorRecords'
    <2> DEFINE c == [creator[i] EXCEPT !.batch = {r \in Requests : status[r] = "approved"}]
    <2>1. c.pc = "batch"
        BY <1>1, <1>6
        DEF GetApprovedCertificateRequests, CreatorState, IdleCreator
    <2>2. creator' = [creator EXCEPT ![i] = c]
        BY <1>6 DEF GetApprovedCertificateRequests
    <2> HIDE DEF c
    <2>3. QED
        BY <1>3, <2>1, <2>2
<1>7. ASSUME NEW i \in Instances, NEW r \in Requests, CreatorReserve(i, r)
      PROVE  CreatorRecords'
    <2> DEFINE left == [IdleCreator EXCEPT !.batch = creator[i].batch \ {r}]
               busy == [left EXCEPT !.pc = "lookup", !.cur = r]
    <2>1. left.pc = "batch" /\ busy.pc = "lookup"
        BY DEF IdleCreator
    <2>2. \/ creator' = [creator EXCEPT ![i] = left]
          \/ creator' = [creator EXCEPT ![i] = busy]
        BY <1>7 DEF CreatorReserve
    <2> HIDE DEF left, busy
    <2>3. QED
        BY <1>3, <2>1, <2>2
<1>8. ASSUME NEW i \in Instances, Crash(i)
      PROVE  CreatorRecords'
    <2>1. IdleCreator.pc = "batch"
        BY DEF IdleCreator
    <2>2. creator' = [creator EXCEPT ![i] = IdleCreator]
        BY <1>8 DEF Crash
    <2>3. QED
        BY <1>3, <2>1, <2>2
<1>9. ASSUME NEW i \in Instances, CreatorLookup(i)
      PROVE  CreatorRecords'
    <2> DEFINE expected == ExpectedIdentifier(creator[i].cur)
    <2>1. creator[i].cur \in Requests
        BY <1>1, <1>9 DEF CreatorLookup, CreatorControl
    <2>2. expected \in Names /\ expected[1] = Owner[creator[i].cur]
        BY <1>1, <2>1, NameType, NameOwner
    <2>3. expected \in ready => Belongs(expected, creator[i].cur)
        BY <1>1, <2>2 DEF ProviderRecords, Belongs
    <2>4. \/ CreatorGoes(i, "create", None)
          \/ expected \in ready /\ CreatorGoes(i, "metadata", expected)
          \/ CreatorContinues(i)
        BY <1>9 DEF CreatorLookup
    <2>5. expected \in ready => Held(expected, creator[i].cur)
        BY <1>2, <2>1, <2>2, <2>3 DEF Belongs
    <2>6. CASE CreatorGoes(i, "create", None)
        BY <1>4, <2>6
    <2>7. CASE expected \in ready /\ CreatorGoes(i, "metadata", expected)
        <3> HIDE DEF expected, Held
        <3>1. QED
            BY <1>4, <2>5, <2>7
    <2>8. QED
        BY <1>5, <2>4, <2>6, <2>7
<1>10. ASSUME NEW i \in Instances, CreatorCreate(i)
       PROVE  CreatorRecords'
    <2> DEFINE n == NewName(creator[i].cur)
    <2>1. creator[i].cur \in Requests
        BY <1>1, <1>10 DEF CreatorCreate, CreatorControl
    <2>2. n \in Names
        BY <1>1, <2>1, NameType
    <2>3. \/ AddCertificate(n, creator[i].cur) /\ CreatorGoes(i, "metadata", n)
          \/ CreatorGoes(i, "rollback", None)
        BY <1>10 DEF CreatorCreate
    <2>4. AddCertificate(n, creator[i].cur) => certs'[n] = creator[i].cur
        BY <1>1, <2>2 DEF AddCertificate, TypeOK
    <2> HIDE DEF n
    <2>5. AddCertificate(n, creator[i].cur) => Held(n, creator[i].cur)
        BY <2>1, <2>4, LifecycleAssumption
    <2> HIDE DEF Held
    <2>6. CASE AddCertificate(n, creator[i].cur) /\ CreatorGoes(i, "metadata", n)
        BY <1>4, <2>5, <2>6
    <2>7. CASE CreatorGoes(i, "rollback", None)
        BY <1>4, <2>7
    <2>8. QED
        BY <2>3, <2>6, <2>7
<1>11. CASE UNCHANGED creator
    BY <1>1, <1>2, <1>11
    DEF CreatorRecords, CreatorControl, CreatorState, Belongs
<1>12. QED
    BY <1>5, <1>6, <1>7, <1>8, <1>9, <1>10, <1>11
    DEF Next, vars, Handlers, CreationJob, StatusJob,
        CreateCertificateRequest, AutoApprove, ReviewCheck, ReviewUpdate,
        CreatorRollback, UpdateCertificateMetadata,
        GetPendingCertificateRequests, CheckerCheck,
        UpdateCertificateRequestIssued, IssuerReady, Tick

\* A status job only hands on names it has read from rows, and seen ready.
LEMMA CheckerRecordsStep ==
    ASSUME TypeAndControl, RecordsInv, [Next]_vars
    PROVE  CheckerRecords'
<1>1. /\ checker \in [Instances -> CheckerState]
      /\ TypeOK /\ CheckerControl /\ CheckerRecords
      /\ RecordsRealCertificate
    BY RecordsParts DEF TypeAndControl, TypeOK, ControlInv
<1>2. \A n \in Names, r \in Requests : Belongs(n, r) => Belongs(n, r)'
    BY BelongsStable
<1>3. \A n \in ready : n \in ready'
    BY CertsGrow, RecordsParts
<1>4. \A r \in Requests :
        certificateIdentifier[r] # None => certificateIdentifier'[r] # None
    BY ColumnStep, LifecycleAssumption
<1> DEFINE Good(c) ==
        /\ c.batch \subseteq Requests \X Names
        /\ \A e \in c.batch :
              Belongs(e[2], e[1]) /\ certificateIdentifier[e[1]] # None
        /\ c.cur # None =>
              /\ c.cur \in Requests
              /\ c.ident \in Names
              /\ Belongs(c.ident, c.cur)
              /\ c.ident \in ready
              /\ certificateIdentifier[c.cur] # None
<1>5. \A j \in Instances : Good(checker[j])
    BY <1>1 DEF CheckerRecords, CheckerControl, CheckerState
<1>6. ASSUME \A j \in Instances : Good(checker'[j])
      PROVE  CheckerRecords'
    <2> SUFFICES ASSUME NEW j \in Instances
                 PROVE  /\ \A e \in checker'[j].batch :
                              /\ Belongs(e[2], e[1])'
                              /\ certificateIdentifier'[e[1]] # None
                        /\ checker'[j].cur # None =>
                              /\ Belongs(checker[j].ident, checker[j].cur)'
                              /\ checker'[j].ident \in ready'
                              /\ certificateIdentifier'[checker'[j].cur] # None
        BY DEF CheckerRecords, Belongs
    <2>1. Good(checker'[j])
        BY <1>6
    <2>2. QED
        BY <1>2, <1>3, <1>4, <2>1 DEF Belongs
<1>7. ASSUME NEW i \in Instances, NEW c, Good(c),
             checker' = [checker EXCEPT ![i] = c]
      PROVE  CheckerRecords'
    <2>1. \A j \in Instances : checker'[j] = IF j = i THEN c ELSE checker[j]
        BY <1>1, <1>7
    <2> HIDE DEF Good
    <2>2. QED
        BY <1>5, <1>6, <1>7, <2>1
<1>8. ASSUME NEW i \in Instances, GetPendingCertificateRequests(i)
      PROVE  CheckerRecords'
    <2> DEFINE pending == {r \in Requests : /\ status[r] = "pending"
                                            /\ certificateIdentifier[r] # None}
               c == [checker[i] EXCEPT !.batch =
                       {<<r, certificateIdentifier[r]>> : r \in pending}]
    <2>1. checker' = [checker EXCEPT ![i] = c] /\ checker[i] = IdleChecker
        BY <1>8 DEF GetPendingCertificateRequests
    <2>2. /\ c.batch = {<<r, certificateIdentifier[r]>> : r \in pending}
          /\ c.cur = None
        BY <2>1 DEF IdleChecker
    <2>3. \A r \in pending : /\ certificateIdentifier[r] \in Names
                             /\ Belongs(certificateIdentifier[r], r)
        BY <1>1 DEF TypeOK, RecordsRealCertificate
    <2> HIDE DEF c
    <2>4. Good(c)
        BY <2>2, <2>3
    <2>5. QED
        BY <1>7, <2>1, <2>4
<1>9. ASSUME NEW i \in Instances, NEW r \in Requests, NEW n \in Names,
             CheckerCheck(i, r, n)
      PROVE  CheckerRecords'
    <2> DEFINE left == [IdleChecker EXCEPT !.batch = checker[i].batch \ {<<r, n>>}]
               busy == [left EXCEPT !.cur = r, !.ident = n]
    <2>1. \/ checker' = [checker EXCEPT ![i] = left]
          \/ n \in ready /\ checker' = [checker EXCEPT ![i] = busy]
        BY <1>9 DEF CheckerCheck
    <2>2. /\ left.batch = checker[i].batch \ {<<r, n>>}
          /\ left.cur = None
          /\ busy.batch = left.batch /\ busy.cur = r /\ busy.ident = n
        BY DEF IdleChecker
    <2>3. Good(checker[i]) /\ <<r, n>> \in checker[i].batch
        BY <1>5, <1>9 DEF CheckerCheck
    <2> HIDE DEF left, busy
    <2>4. Good(left)
        BY <2>2, <2>3
    <2>5. Belongs(n, r) /\ certificateIdentifier[r] # None
        BY <2>3
    <2>6. n \in ready => Good(busy)
        BY <2>2, <2>4, <2>5
    <2> HIDE DEF Good
    <2>7. QED
        BY <1>7, <2>1, <2>4, <2>6
<1>10. ASSUME NEW i \in Instances, UpdateCertificateRequestIssued(i)
       PROVE  CheckerRecords'
    <2> DEFINE c == [IdleChecker EXCEPT !.batch = checker[i].batch]
    <2>1. checker' = [checker EXCEPT ![i] = c]
        BY <1>10 DEF UpdateCertificateRequestIssued
    <2>2. c.batch = checker[i].batch /\ c.cur = None
        BY DEF IdleChecker
    <2> HIDE DEF c
    <2>3. Good(c)
        BY <1>5, <2>2
    <2>4. QED
        BY <1>7, <2>1, <2>3
<1>11. ASSUME NEW i \in Instances, Crash(i)
       PROVE  CheckerRecords'
    <2>1. Good(IdleChecker)
        BY DEF IdleChecker
    <2>2. checker' = [checker EXCEPT ![i] = IdleChecker]
        BY <1>11 DEF Crash
    <2> HIDE DEF Good
    <2>3. QED
        BY <1>7, <2>1, <2>2
<1>12. CASE UNCHANGED checker
    <2> HIDE DEF Good
    <2>1. QED
        BY <1>5, <1>6, <1>12
<1>13. QED
    BY <1>8, <1>9, <1>10, <1>11, <1>12
    DEF Next, vars, Handlers, CreationJob, StatusJob,
        CreateCertificateRequest, AutoApprove, ReviewCheck, ReviewUpdate,
        GetApprovedCertificateRequests, CreatorReserve, CreatorLookup,
        CreatorCreate, CreatorRollback, UpdateCertificateMetadata,
        IssuerReady, Tick

\* Every step keeps RecordsInv.
LEMMA RecordsStep ==
    TypeAndControl /\ RecordsInv /\ [Next]_vars => RecordsInv'
<1> SUFFICES ASSUME TypeAndControl, RecordsInv, [Next]_vars
             PROVE  RecordsInv'
    OBVIOUS
<1>1. /\ RecordsRealCertificate'
      /\ ProviderRecords'
      /\ CreatorRecords'
      /\ CheckerRecords'
    BY RowsStep, CertsGrow, CreatorRecordsStep, CheckerRecordsStep,
       RecordsParts
<1>2. QED
    BY <1>1
    DEF RecordsInv, ProviderRecords, CreatorRecords, CheckerRecords

\* What a row records is a certificate of its owner that exists.
THEOREM Records == Spec => []RecordsRealCertificate
<1>1. RecordsInv => RecordsRealCertificate
    BY DEF RecordsInv
<1>2. QED
    BY <1>1, TypeInit, TypeStep, RecordsInit, RecordsStep, PTL DEF Spec

-----------------------------------------------------------------------------

\* The handlers and jobs implement CertificateIssuance: a status update is a
\* grant or nothing, a creation makes a certificate, the status job publishes
\* one, and every other step stutters.
LEMMA ImplementationInit == Init => Issuance!Init
BY DEF Init, Issuance!Init, Granted

\* A status update grants at most the request it updates.
LEMMA UpdateGrants ==
    ASSUME TypeAndControl, [Next]_vars, NEW r \in Requests,
           NEW new, NEW by, NEW note,
           UpdateCertificateRequestStatus(r, new, by, note),
           UNCHANGED <<certs, certificatePem>>
    PROVE  [Issuance!Next]_(Issuance!vars)
<1> DEFINE granted == {s \in Requests : Granted(s)}
           grantedNext == {s \in Requests : Granted(s)'}
<1>1. \A s \in Requests : Granted(s) => Granted(s)'
    BY GrantedStable
<1>2. \A s \in Requests : s # r => events'[s] = events[s]
    BY DEF UpdateCertificateRequestStatus, TypeAndControl, TypeOK
<1>3. \A s \in Requests : s # r /\ Granted(s)' => Granted(s)
    BY <1>2 DEF Granted, Entitles
<1>4. grantedNext = granted \/ grantedNext = granted \cup {r}
    BY <1>1, <1>3
<1>5. QED
    BY <1>4 DEF Issuance!Next, Issuance!Grant, Issuance!vars

\* A step that leaves the events alone, and its effect on the certificates.
LEMMA QuietStep ==
    ASSUME UNCHANGED <<events, certs, certificatePem>>
    PROVE  UNCHANGED Issuance!vars
BY DEF Issuance!vars, Granted, Entitles

\* A creation makes a certificate for a granted request, or nothing.
LEMMA CreateMakes ==
    ASSUME TypeAndControl, ApprovalInv, NEW i \in Instances, CreatorCreate(i)
    PROVE  [Issuance!Next]_(Issuance!vars)
<1> DEFINE r == creator[i].cur
           n == NewName(r)
<1>1. r \in Requests /\ Granted(r) /\ n \in Names
    BY NameType
    DEF CreatorCreate, TypeAndControl, ControlInv, CreatorControl, ApprovalInv
<1>2. UNCHANGED <<events, certificatePem>>
    BY DEF CreatorCreate, table
<1>3. \/ certs[n] = None /\ certs' = [certs EXCEPT ![n] = r]
      \/ UNCHANGED certs
    BY DEF CreatorCreate, AddCertificate, provider
<1> HIDE DEF r, n
<1>4. CASE certs[n] = None /\ certs' = [certs EXCEPT ![n] = r]
    <2>1. {s \in Requests : Granted(s)'} = {s \in Requests : Granted(s)}
        BY <1>2 DEF Granted, Entitles
    <2>2. Issuance!Make(r, n)
        BY <1>1, <1>2, <1>4, <2>1 DEF Issuance!Make
    <2>3. QED
        BY <1>1, <2>2 DEF Issuance!Next
<1>5. CASE UNCHANGED certs
    BY <1>2, <1>5, QuietStep
<1>6. QED
    BY <1>3, <1>4, <1>5

\* The "issued" event grants nothing, and the PEM published is that of a
\* certificate of the same owner.
LEMMA IssuePublishes ==
    ASSUME TypeAndControl, RecordsInv, [Next]_vars,
           NEW i \in Instances, UpdateCertificateRequestIssued(i)
    PROVE  [Issuance!Next]_(Issuance!vars)
<1> DEFINE r == checker[i].cur
           n == checker[i].ident
<1>1. /\ r \in Requests /\ n \in Names
      /\ Belongs(n, r)
    BY RecordsParts
    DEF UpdateCertificateRequestIssued, TypeAndControl, TypeOK, CheckerState,
        ControlInv, CheckerControl, CheckerRecords
<1>2. UNCHANGED certs
    BY DEF UpdateCertificateRequestIssued, provider
<1>3. \/ UNCHANGED <<events, certificatePem>>
      \/ /\ UpdateCertificateRequestStatus(r, "issued", System, "job")
         /\ certificatePem' = [certificatePem EXCEPT ![r] = n]
    BY DEF UpdateCertificateRequestIssued
<1> HIDE DEF r, n
<1>4. CASE UNCHANGED <<events, certificatePem>>
    BY <1>2, <1>4, QuietStep
<1>5. CASE /\ UpdateCertificateRequestStatus(r, "issued", System, "job")
           /\ certificatePem' = [certificatePem EXCEPT ![r] = n]
    <2>1. \A s \in Requests : \A e \in events'[s] :
            e \in events[s] \/ e.status = "issued"
        BY <1>1, <1>5
        DEF UpdateCertificateRequestStatus, TypeAndControl, TypeOK
    <2>2. \A s \in Requests : Granted(s)' => Granted(s)
        BY <2>1 DEF Granted, Entitles
    <2>3. \A s \in Requests : Granted(s) => Granted(s)'
        BY GrantedStable
    <2>4. {s \in Requests : Granted(s)'} = {s \in Requests : Granted(s)}
        BY <2>2, <2>3
    <2>5. Issuance!Publish(r, n)
        BY <1>1, <1>2, <1>5, <2>4 DEF Issuance!Publish, Belongs
    <2>6. QED
        BY <1>1, <2>5 DEF Issuance!Next
<1>6. QED
    BY <1>3, <1>4, <1>5

\* Every step is a grant, a creation, a publication or a stutter.
LEMMA ImplementationStep ==
    TypeAndControl /\ ApprovalInv /\ RecordsInv /\ [Next]_vars
    => [Issuance!Next]_(Issuance!vars)
<1> SUFFICES ASSUME TypeAndControl, ApprovalInv, RecordsInv, [Next]_vars
             PROVE  [Issuance!Next]_(Issuance!vars)
    OBVIOUS
<1> DEFINE Goal == [Issuance!Next]_(Issuance!vars)
<1>1. ASSUME NEW r \in Requests, AutoApprove(r)
      PROVE  Goal
    BY <1>1, UpdateGrants, QuietStep DEF AutoApprove, provider
<1>2. ASSUME NEW u \in Users, ReviewUpdate(u)
      PROVE  Goal
    BY <1>2, UpdateGrants, QuietStep
    DEF ReviewUpdate, provider, TypeAndControl, ControlInv, ReviewControl
<1>3. ASSUME NEW i \in Instances, NEW r \in Requests, CreatorReserve(i, r)
      PROVE  Goal
    BY <1>3, UpdateGrants, QuietStep DEF CreatorReserve, provider
<1>4. ASSUME NEW i \in Instances, CreatorRollback(i)
      PROVE  Goal
    BY <1>4, UpdateGrants, QuietStep
    DEF CreatorRollback, provider, TypeAndControl, ControlInv, CreatorControl
<1>5. ASSUME NEW i \in Instances, CreatorCreate(i)
      PROVE  Goal
    BY <1>5, CreateMakes
<1>6. ASSUME NEW i \in Instances, UpdateCertificateRequestIssued(i)
      PROVE  Goal
    BY <1>6, IssuePublishes
<1>7. CASE UNCHANGED <<events, certs, certificatePem>>
    BY <1>7, QuietStep
<1>8. QED
    BY <1>1, <1>2, <1>3, <1>4, <1>5, <1>6, <1>7
    DEF Next, vars, table, provider, Handlers, CreationJob, StatusJob,
        CreateCertificateRequest, ReviewCheck, GetApprovedCertificateRequests,
        CreatorLookup, UpdateCertificateMetadata,
        GetPendingCertificateRequests, CheckerCheck, Crash, IssuerReady, Tick

\* Whatever handlers, jobs, failures and overlapping instances do, certificates
\* are made for granted requests only, stay with them, and are published only
\* on requests of the same owner.
THEOREM Implementation == Spec => ImplementsIssuance
BY TypeInit, TypeStep, ApprovalInit, ApprovalStep, RecordsInit, RecordsStep,
   ImplementationInit, ImplementationStep, PTL DEF Spec, ImplementsIssuance, Issuance!Spec

-----------------------------------------------------------------------------

\* Creation jobs, and status jobs, that have nothing to do with a request.
CreatorsAway(r) ==
    \A i \in Instances : r \notin creator[i].batch /\ creator[i].cur # r

CheckersAway(r) ==
    \A i \in Instances : /\ checker[i].cur # r
                         /\ \A e \in checker[i].batch : e[1] # r

\* A rejection stays as it is when the row is written for another request.
LEMMA RejectedKept ==
    ASSUME TypeAndControl, NEW r \in Requests, Settled(r), [Next]_vars
    PROVE  status'[r] = "rejected"
<1>1. status \in [Requests -> Statuses] /\ status[r] = "rejected"
    BY DEF Settled, TypeAndControl, TypeOK
<1>2. ASSUME NEW s, s # r, NEW new, NEW by, NEW note,
             UpdateCertificateRequestStatus(s, new, by, note)
      PROVE  status'[r] = "rejected"
    BY <1>1, <1>2 DEF UpdateCertificateRequestStatus
<1>3. CASE UNCHANGED status
    BY <1>1, <1>3
<1>4. ASSUME NEW s \in Requests, CreateCertificateRequest(s)
      PROVE  status'[r] = "rejected"
    BY <1>1, <1>4 DEF CreateCertificateRequest
<1>5. ASSUME NEW s \in Requests, AutoApprove(s)
      PROVE  status'[r] = "rejected"
    BY <1>2, <1>3, <1>5 DEF AutoApprove, Settled
<1>6. ASSUME NEW u \in Users, ReviewUpdate(u)
      PROVE  status'[r] = "rejected"
    BY <1>2, <1>3, <1>6 DEF ReviewUpdate, Settled
<1>7. ASSUME NEW i \in Instances, NEW s \in Requests, CreatorReserve(i, s)
      PROVE  status'[r] = "rejected"
    BY <1>2, <1>3, <1>7 DEF CreatorReserve, Oldest, Settled
<1>8. ASSUME NEW i \in Instances, CreatorRollback(i)
      PROVE  status'[r] = "rejected"
    BY <1>2, <1>3, <1>8 DEF CreatorRollback, Settled
<1>9. ASSUME NEW i \in Instances, UpdateCertificateRequestIssued(i)
      PROVE  status'[r] = "rejected"
    BY <1>2, <1>3, <1>9 DEF UpdateCertificateRequestIssued, Settled
<1>10. QED
    BY <1>3, <1>4, <1>5, <1>6, <1>7, <1>8, <1>9
    DEF Next, vars, table, Handlers, CreationJob, StatusJob, ReviewCheck,
        GetApprovedCertificateRequests, CreatorLookup, CreatorCreate,
        UpdateCertificateMetadata, GetPendingCertificateRequests,
        CheckerCheck, Crash, IssuerReady, Tick

\* No creation job takes up a rejected request that none has.
LEMMA CreatorsStayAway ==
    ASSUME TypeAndControl, NEW r \in Requests, Settled(r), [Next]_vars
    PROVE  CreatorsAway(r)'
<1>1. creator \in [Instances -> CreatorState] /\ CreatorsAway(r)
    BY DEF Settled, CreatorsAway, TypeAndControl, TypeOK
<1>2. ASSUME NEW i \in Instances, NEW c, creator' = [creator EXCEPT ![i] = c],
             r \notin c.batch, c.cur # r
      PROVE  CreatorsAway(r)'
    BY <1>1, <1>2 DEF CreatorsAway
<1>3. None # r
    BY LifecycleAssumption
<1>4. ASSUME NEW i \in Instances, NEW pc, NEW ident, CreatorGoes(i, pc, ident)
      PROVE  CreatorsAway(r)'
    <2> DEFINE c == [creator[i] EXCEPT !.pc = pc, !.ident = ident]
    <2>1. c.batch = creator[i].batch /\ c.cur = creator[i].cur
        BY <1>1 DEF CreatorState
    <2>2. creator' = [creator EXCEPT ![i] = c]
        BY <1>4 DEF CreatorGoes
    <2> HIDE DEF c
    <2>3. QED
        BY <1>1, <1>2, <2>1, <2>2 DEF CreatorsAway
<1>5. ASSUME NEW i \in Instances, CreatorContinues(i)
      PROVE  CreatorsAway(r)'
    <2> DEFINE c == [creator[i] EXCEPT !.pc = "batch", !.cur = None, !.ident = None]
    <2>1. c.batch = creator[i].batch /\ c.cur = None
        BY <1>1 DEF CreatorState
    <2>2. creator' = [creator EXCEPT ![i] = c]
        BY <1>5 DEF CreatorContinues
    <2> HIDE DEF c
    <2>3. QED
        BY <1>1, <1>2, <1>3, <2>1, <2>2 DEF CreatorsAway
<1>6. ASSUME NEW i \in Instances, GetApprovedCertificateRequests(i)
      PROVE  CreatorsAway(r)'
    <2> DEFINE c == [creator[i] EXCEPT !.batch = {s \in Requests : status[s] = "approved"}]
    <2>1. c.cur = creator[i].cur /\ r \notin c.batch
        BY <1>1 DEF CreatorState, Settled
    <2>2. creator' = [creator EXCEPT ![i] = c]
        BY <1>6 DEF GetApprovedCertificateRequests
    <2> HIDE DEF c
    <2>3. QED
        BY <1>1, <1>2, <2>1, <2>2 DEF CreatorsAway
<1>7. ASSUME NEW i \in Instances, NEW s \in Requests, CreatorReserve(i, s)
      PROVE  CreatorsAway(r)'
    <2> DEFINE left == [IdleCreator EXCEPT !.batch = creator[i].batch \ {s}]
               busy == [left EXCEPT !.pc = "lookup", !.cur = s]
    <2>1. /\ left.batch = creator[i].batch \ {s} /\ left.cur = None
          /\ busy.batch = left.batch /\ busy.cur = s
        BY DEF IdleCreator
    <2>2. \/ creator' = [creator EXCEPT ![i] = left]
          \/ creator' = [creator EXCEPT ![i] = busy]
        BY <1>7 DEF CreatorReserve
    <2>3. r # s
        BY <1>1, <1>7 DEF CreatorReserve, Oldest, CreatorsAway
    <2> HIDE DEF left, busy
    <2>4. QED
        BY <1>1, <1>2, <1>3, <2>1, <2>2, <2>3 DEF CreatorsAway
<1>8. ASSUME NEW i \in Instances, Crash(i)
      PROVE  CreatorsAway(r)'
    <2>1. IdleCreator.batch = {} /\ IdleCreator.cur = None
        BY DEF IdleCreator
    <2>2. creator' = [creator EXCEPT ![i] = IdleCreator]
        BY <1>8 DEF Crash
    <2>3. QED
        BY <1>2, <1>3, <2>1, <2>2
<1>9. CASE UNCHANGED creator
    BY <1>1, <1>9 DEF CreatorsAway
<1>10. QED
    BY <1>4, <1>5, <1>6, <1>7, <1>8, <1>9
    DEF Next, vars, Handlers, CreationJob, StatusJob,
        CreateCertificateRequest, AutoApprove, ReviewCheck, ReviewUpdate,
        CreatorLookup, CreatorCreate, CreatorRollback,
        UpdateCertificateMetadata, GetPendingCertificateRequests,
        CheckerCheck, UpdateCertificateRequestIssued, IssuerReady, Tick

\* Nor does a status job.
LEMMA CheckersStayAway ==
    ASSUME TypeAndControl, NEW r \in Requests, Settled(r), [Next]_vars
    PROVE  CheckersAway(r)'
<1>1. checker \in [Instances -> CheckerState] /\ CheckersAway(r)
    BY DEF Settled, CheckersAway, TypeAndControl, TypeOK
<1>2. ASSUME NEW i \in Instances, NEW c, checker' = [checker EXCEPT ![i] = c],
             c.cur # r, \A e \in c.batch : e[1] # r
      PROVE  CheckersAway(r)'
    BY <1>1, <1>2 DEF CheckersAway
<1>3. None # r
    BY LifecycleAssumption
<1>4. ASSUME NEW i \in Instances, GetPendingCertificateRequests(i)
      PROVE  CheckersAway(r)'
    <2> DEFINE c == [checker[i] EXCEPT !.batch =
                       {<<s, certificateIdentifier[s]>> :
                          s \in {q \in Requests :
                                   /\ status[q] = "pending"
                                   /\ certificateIdentifier[q] # None}}]
    <2>1. c.cur = checker[i].cur /\ \A e \in c.batch : e[1] # r
        BY <1>1 DEF CheckerState, Settled
    <2>2. checker' = [checker EXCEPT ![i] = c]
        BY <1>4 DEF GetPendingCertificateRequests
    <2> HIDE DEF c
    <2>3. QED
        BY <1>1, <1>2, <2>1, <2>2 DEF CheckersAway
<1>5. ASSUME NEW i \in Instances, NEW s \in Requests, NEW n \in Names,
             CheckerCheck(i, s, n)
      PROVE  CheckersAway(r)'
    <2> DEFINE left == [IdleChecker EXCEPT !.batch = checker[i].batch \ {<<s, n>>}]
               busy == [left EXCEPT !.cur = s, !.ident = n]
    <2>1. /\ left.batch = checker[i].batch \ {<<s, n>>} /\ left.cur = None
          /\ busy.batch = left.batch /\ busy.cur = s
        BY DEF IdleChecker
    <2>2. \/ checker' = [checker EXCEPT ![i] = left]
          \/ checker' = [checker EXCEPT ![i] = busy]
        BY <1>5 DEF CheckerCheck
    <2>3. r # s
        BY <1>1, <1>5 DEF CheckerCheck, CheckersAway
    <2> HIDE DEF left, busy
    <2>4. QED
        BY <1>1, <1>2, <1>3, <2>1, <2>2, <2>3 DEF CheckersAway
<1>6. ASSUME NEW i \in Instances, UpdateCertificateRequestIssued(i)
      PROVE  CheckersAway(r)'
    <2> DEFINE c == [IdleChecker EXCEPT !.batch = checker[i].batch]
    <2>1. c.batch = checker[i].batch /\ c.cur = None
        BY DEF IdleChecker
    <2>2. checker' = [checker EXCEPT ![i] = c]
        BY <1>6 DEF UpdateCertificateRequestIssued
    <2> HIDE DEF c
    <2>3. QED
        BY <1>1, <1>2, <1>3, <2>1, <2>2 DEF CheckersAway
<1>7. ASSUME NEW i \in Instances, Crash(i)
      PROVE  CheckersAway(r)'
    <2>1. IdleChecker.batch = {} /\ IdleChecker.cur = None
        BY DEF IdleChecker
    <2>2. checker' = [checker EXCEPT ![i] = IdleChecker]
        BY <1>7 DEF Crash
    <2>3. QED
        BY <1>2, <1>3, <2>1, <2>2
<1>8. CASE UNCHANGED checker
    BY <1>1, <1>8 DEF CheckersAway
<1>9. QED
    BY <1>4, <1>5, <1>6, <1>7, <1>8
    DEF Next, vars, Handlers, CreationJob, StatusJob,
        CreateCertificateRequest, AutoApprove, ReviewCheck, ReviewUpdate,
        GetApprovedCertificateRequests, CreatorReserve, CreatorLookup,
        CreatorCreate, CreatorRollback, UpdateCertificateMetadata,
        IssuerReady, Tick

\* A rejection that nobody in flight can overwrite stays one.
LEMMA SettledStep ==
    ASSUME TypeAndControl, NEW r \in Requests, Settled(r), [Next]_vars
    PROVE  Settled(r)'
<1>1. status'[r] = "rejected"
    BY RejectedKept
<1>2. r \notin posting'
    <2>1. ASSUME NEW s \in Requests,
                 CreateCertificateRequest(s) \/ AutoApprove(s)
          PROVE  r \notin posting'
        BY <2>1 DEF CreateCertificateRequest, AutoApprove, Settled
    <2>2. CASE UNCHANGED posting
        BY <2>2 DEF Settled
    <2>3. ASSUME NEW i \in Instances, CreationJob(i)
          PROVE  UNCHANGED posting
        BY <2>3
        DEF CreationJob, GetApprovedCertificateRequests, CreatorReserve,
            CreatorLookup, CreatorCreate, CreatorRollback,
            UpdateCertificateMetadata
    <2>4. ASSUME NEW i \in Instances, StatusJob(i) \/ Crash(i)
          PROVE  UNCHANGED posting
        BY <2>4
        DEF StatusJob, GetPendingCertificateRequests, CheckerCheck,
            UpdateCertificateRequestIssued, Crash
    <2>5. QED
        BY <2>1, <2>2, <2>3, <2>4
        DEF Next, vars, Handlers, ReviewCheck, ReviewUpdate, IssuerReady, Tick
<1>3. \A u \in Users : review'[u].req # r
    <2>1. ASSUME NEW u \in Users, NEW s \in Requests, NEW d, ReviewCheck(u, s, d)
          PROVE  \A v \in Users : review'[v].req # r
        BY <2>1 DEF ReviewCheck, Settled, TypeAndControl, TypeOK
    <2>2. ASSUME NEW u \in Users, ReviewUpdate(u)
          PROVE  \A v \in Users : review'[v].req # r
        BY <2>2, LifecycleAssumption
        DEF ReviewUpdate, IdleReview, Settled, TypeAndControl, TypeOK
    <2>3. CASE UNCHANGED review
        BY <2>3 DEF Settled
    <2>4. QED
        BY <2>1, <2>2, <2>3
        DEF Next, vars, Handlers, CreationJob, StatusJob,
            CreateCertificateRequest, AutoApprove,
            GetApprovedCertificateRequests, CreatorReserve, CreatorLookup,
            CreatorCreate, CreatorRollback, UpdateCertificateMetadata,
            GetPendingCertificateRequests, CheckerCheck,
            UpdateCertificateRequestIssued, Crash, IssuerReady, Tick
<1>4. QED
    BY <1>1, <1>2, <1>3, CreatorsStayAway, CheckersStayAway
    DEF Settled, CreatorsAway, CheckersAway

\* A rejection stands once everybody who had read the row before is done.
THEOREM RejectionsStand == Spec => RejectionStands
<1>1. TypeAndControl /\ [Next]_vars
      => [\A r \in Requests : Settled(r) => Settled(r)']_vars
    BY SettledStep
<1>2. QED
    BY <1>1, TypeInit, TypeStep, PTL DEF Spec, RejectionStands

-----------------------------------------------------------------------------

\* Under cert-manager a certificate has the name that is derived from its
\* request, and that name changes no more once the row exists.
NamedInv ==
    /\ \A r \in Requests : events[r] # {} => status[r] # "none"
    /\ \A n \in Names : certs[n] # None => n = ExpectedIdentifier(certs[n])

\* Only rows that exist have events.
LEMMA EventsStep ==
    ASSUME TypeAndControl, [Next]_vars, NEW r \in Requests,
           events[r] # {} => status[r] # "none"
    PROVE  events'[r] # {} => status'[r] # "none"
<1>1. ASSUME NEW s, NEW new, new # "none", NEW by, NEW note,
             UpdateCertificateRequestStatus(s, new, by, note)
      PROVE  events'[r] # {} => status'[r] # "none"
    BY <1>1 DEF UpdateCertificateRequestStatus, TypeAndControl, TypeOK
<1>2. CASE UNCHANGED <<status, events>>
    BY <1>2
<1>3. ASSUME NEW s \in Requests, CreateCertificateRequest(s)
      PROVE  events'[r] # {} => status'[r] # "none"
    BY <1>3 DEF CreateCertificateRequest, TypeAndControl, TypeOK
<1>4. ASSUME NEW u \in Users, ReviewUpdate(u)
      PROVE  events'[r] # {} => status'[r] # "none"
    BY <1>1, <1>2, <1>4
    DEF ReviewUpdate, TypeAndControl, ControlInv, ReviewControl
<1>5. QED
    BY <1>1, <1>2, <1>3, <1>4
    DEF Next, vars, table, Handlers, CreationJob, StatusJob, AutoApprove,
        ReviewCheck, GetApprovedCertificateRequests, CreatorReserve,
        CreatorLookup, CreatorCreate, CreatorRollback,
        UpdateCertificateMetadata, GetPendingCertificateRequests,
        CheckerCheck, UpdateCertificateRequestIssued, Crash, IssuerReady, Tick

\* requested_at of a row that exists never changes.
LEMMA NameKept ==
    ASSUME TypeAndControl, [Next]_vars, NEW r \in Requests, status[r] # "none"
    PROVE  ExpectedIdentifier(r)' = ExpectedIdentifier(r)
<1>1. requestedAt'[r] = requestedAt[r]
    <2>1. ASSUME NEW s \in Requests, CreateCertificateRequest(s)
          PROVE  requestedAt'[r] = requestedAt[r]
        BY <2>1 DEF CreateCertificateRequest, TypeAndControl, TypeOK
    <2>2. CASE UNCHANGED requestedAt
        BY <2>2
    <2>3. QED
        BY <2>1, <2>2
        DEF Next, vars, table, Handlers, CreationJob, StatusJob, AutoApprove,
            ReviewCheck, ReviewUpdate, GetApprovedCertificateRequests,
            CreatorReserve, CreatorLookup, CreatorCreate, CreatorRollback,
            UpdateCertificateMetadata, GetPendingCertificateRequests,
            CheckerCheck, UpdateCertificateRequestIssued, Crash, IssuerReady,
            Tick
<1>2. QED
    BY <1>1 DEF ExpectedIdentifier, GenerateCertificateName

\* A certificate keeps its name, and a new one is given that of its request.
LEMMA NamedStep ==
    ASSUME Provider = "kubernetes", TypeAndControl, ApprovalInv, NamedInv,
           [Next]_vars
    PROVE  NamedInv'
<1>1. \A r \in Requests : events'[r] # {} => status'[r] # "none"
    BY EventsStep DEF NamedInv
<1>2. ASSUME NEW r \in Requests, Granted(r)
      PROVE  ExpectedIdentifier(r)' = ExpectedIdentifier(r)
    BY <1>2, NameKept DEF Granted, NamedInv
<1>3. certs \in [Names -> Requests \cup {None}]
    BY DEF TypeAndControl, TypeOK
<1>4. ASSUME NEW n \in Names, certs'[n] = certs[n], certs'[n] # None
      PROVE  n = ExpectedIdentifier(certs[n])'
    <2>1. certs[n] \in Requests /\ Granted(certs[n])
        BY <1>3, <1>4 DEF ApprovalInv, CertificateNeedsApproval
    <2>2. n = ExpectedIdentifier(certs[n])
        BY <1>4 DEF NamedInv
    <2>3. PICK r \in Requests : certs[n] = r /\ certs'[n] = r
        BY <1>4, <2>1
    <2>4. QED
        BY <1>2, <2>1, <2>2, <2>3 DEF ExpectedIdentifier
<1>5. ASSUME NEW i \in Instances, CreatorCreate(i), NEW n \in Names,
             certs'[n] # None, certs'[n] # certs[n]
      PROVE  n = ExpectedIdentifier(certs[n])'
    <2>1. PICK r \in Requests : r = creator[i].cur /\ Granted(r)
        BY <1>5 DEF CreatorCreate, ApprovalInv, TypeAndControl, ControlInv,
                    CreatorControl
    <2>2. NewName(r) = ExpectedIdentifier(r)
        BY DEF NewName
    <2>3. AddCertificate(NewName(r), r)
        BY <1>5, <2>1 DEF CreatorCreate, provider
    <2>4. n = NewName(r) /\ certs'[n] = r
        BY <1>3, <1>5, <2>3 DEF AddCertificate
    <2>5. ExpectedIdentifier(r)' = ExpectedIdentifier(r)
        BY <1>2, <2>1
    <2>6. QED
        BY <2>2, <2>4, <2>5 DEF ExpectedIdentifier
<1>6. \A n \in Names : certs'[n] # None => n = ExpectedIdentifier(certs[n])'
    <2>1. CASE UNCHANGED certs
        BY <1>4, <2>1
    <2>2. QED
        BY <1>4, <1>5, <2>1
        DEF Next, vars, provider, Handlers, CreationJob, StatusJob,
            CreateCertificateRequest, AutoApprove, ReviewCheck, ReviewUpdate,
            GetApprovedCertificateRequests, CreatorReserve, CreatorLookup,
            CreatorRollback, UpdateCertificateMetadata,
            GetPendingCertificateRequests, CheckerCheck,
            UpdateCertificateRequestIssued, Crash, IssuerReady, Tick
<1>7. QED
    BY <1>1, <1>6 DEF NamedInv

\* A set of certificates that all have one name has one element at most.
LEMMA OneName ==
    ASSUME NamedInv
    PROVE  OneCertificatePerRequest
<1> SUFFICES ASSUME NEW r \in Requests
             PROVE  Cardinality(CertificatesOf(r)) <= 1
    BY DEF OneCertificatePerRequest
<1>1. CertificatesOf(r) \subseteq {ExpectedIdentifier(r)}
    BY LifecycleAssumption DEF CertificatesOf, NamedInv
<1>2. /\ IsFiniteSet({ExpectedIdentifier(r)})
      /\ Cardinality({ExpectedIdentifier(r)}) = 1
    BY FS_Singleton
<1>3. QED
    BY <1>1, <1>2, FS_Subset

\* Under cert-manager no request ever gets a second certificate, however many
\* incarnations of the job overlap, crash, lose answers and retry.
THEOREM OneCertificate ==
    Provider = "kubernetes" => (Spec => []OneCertificatePerRequest)
<1> SUFFICES ASSUME Provider = "kubernetes"
             PROVE  Spec => []OneCertificatePerRequest
    OBVIOUS
<1> DEFINE I == TypeAndControl /\ ApprovalInv /\ NamedInv
<1>1. Init => I
    BY TypeInit, ApprovalInit DEF Init, NamedInv
<1>2. I /\ [Next]_vars => I'
    BY TypeStep, ApprovalStep, NamedStep
<1>3. I => OneCertificatePerRequest
    BY OneName
<1>4. QED
    BY <1>1, <1>2, <1>3, PTL DEF Spec

-----------------------------------------------------------------------------
(* One identifier.                                                         *)

\* Under cert-manager everything that is recorded for a request, or in the
\* hand of a job that works on it, is the one name derived from it.
RowsNamed ==
    \A r \in Requests :
        /\ certificateIdentifier[r] # None =>
              /\ certificateIdentifier[r] = ExpectedIdentifier(r)
              /\ status[r] # "none"
        /\ certificatePem[r] # None =>
              /\ certificatePem[r] = ExpectedIdentifier(r)
              /\ certificateIdentifier[r] # None

CreatorNamed ==
    \A i \in Instances : creator[i].pc = "metadata" =>
        creator[i].ident = ExpectedIdentifier(creator[i].cur)

CheckerNamed ==
    \A i \in Instances :
        /\ \A e \in checker[i].batch : e[2] = ExpectedIdentifier(e[1])
        /\ checker[i].cur # None =>
              checker[i].ident = ExpectedIdentifier(checker[i].cur)

\* What the steps of the jobs do to the rows and to the hands.
IdentStep(i) ==
    /\ creator[i].pc = "metadata"
    /\ certificateIdentifier' = [certificateIdentifier EXCEPT
                                   ![creator[i].cur] = creator[i].ident]
    /\ UNCHANGED <<status, certificatePem>>

PemStep(i) ==
    /\ checker[i].cur # None
    /\ certificatePem' = [certificatePem EXCEPT
                            ![checker[i].cur] = checker[i].ident]
    /\ UNCHANGED certificateIdentifier

\* No other step writes an identifier or a PEM.
LEMMA RowSteps ==
    ASSUME [Next]_vars
    PROVE  \/ UNCHANGED <<certificateIdentifier, certificatePem>>
           \/ \E i \in Instances : IdentStep(i) \/ PemStep(i)
<1>1. ASSUME NEW i \in Instances, CreationJob(i)
      PROVE  \/ UNCHANGED <<certificateIdentifier, certificatePem>>
             \/ IdentStep(i)
    BY <1>1
    DEF CreationJob, GetApprovedCertificateRequests, CreatorReserve,
        CreatorLookup, CreatorCreate, CreatorRollback,
        UpdateCertificateMetadata, table, IdentStep
<1>2. ASSUME NEW i \in Instances, StatusJob(i)
      PROVE  \/ UNCHANGED <<certificateIdentifier, certificatePem>>
             \/ PemStep(i)
    BY <1>2
    DEF StatusJob, GetPendingCertificateRequests, CheckerCheck,
        UpdateCertificateRequestIssued, table, PemStep
<1>3. QED
    BY <1>1, <1>2
    DEF Next, vars, table, Handlers, CreateCertificateRequest, AutoApprove,
        ReviewCheck, ReviewUpdate, Crash, IssuerReady, Tick

\* No row disappears.
LEMMA RowsStay ==
    ASSUME TypeAndControl, [Next]_vars, NEW r \in Requests, status[r] # "none"
    PROVE  status'[r] # "none"
<1>1. ASSUME NEW s, NEW new, new # "none", NEW by, NEW note,
             UpdateCertificateRequestStatus(s, new, by, note)
      PROVE  status'[r] # "none"
    BY <1>1 DEF UpdateCertificateRequestStatus, TypeAndControl, TypeOK
<1>2. CASE UNCHANGED status
    BY <1>2
<1>3. ASSUME NEW s \in Requests, CreateCertificateRequest(s)
      PROVE  status'[r] # "none"
    BY <1>3 DEF CreateCertificateRequest, TypeAndControl, TypeOK
<1>4. ASSUME NEW u \in Users, ReviewUpdate(u)
      PROVE  status'[r] # "none"
    BY <1>1, <1>2, <1>4
    DEF ReviewUpdate, TypeAndControl, ControlInv, ReviewControl
<1>5. QED
    BY <1>1, <1>2, <1>3, <1>4
    DEF Next, vars, table, Handlers, CreationJob, StatusJob, AutoApprove,
        ReviewCheck, GetApprovedCertificateRequests, CreatorReserve,
        CreatorLookup, CreatorCreate, CreatorRollback,
        UpdateCertificateMetadata, GetPendingCertificateRequests,
        CheckerCheck, UpdateCertificateRequestIssued, Crash, IssuerReady, Tick

\* The name of a row that exists does not change, nor does the row disappear.
LEMMA FixedName ==
    ASSUME TypeAndControl, [Next]_vars, NEW r \in Requests, status[r] # "none"
    PROVE  /\ ExpectedIdentifier(r)' = ExpectedIdentifier(r)
           /\ status'[r] # "none"
BY NameKept, RowsStay

\* Rows are given the name that the job holds.
LEMMA RowsNamedStep ==
    ASSUME TypeAndControl, ApprovalInv, RecordsInv, NamedInv,
           RowsNamed, CreatorNamed, CheckerNamed, [Next]_vars
    PROVE  RowsNamed'
<1> SUFFICES ASSUME NEW r \in Requests
             PROVE  /\ certificateIdentifier'[r] # None =>
                          /\ certificateIdentifier'[r] = ExpectedIdentifier(r)'
                          /\ status'[r] # "none"
                    /\ certificatePem'[r] # None =>
                          /\ certificatePem'[r] = ExpectedIdentifier(r)'
                          /\ certificateIdentifier'[r] # None
    BY DEF RowsNamed, ExpectedIdentifier
<1>0. /\ certificateIdentifier \in [Requests -> Names \cup {None}]
      /\ certificatePem \in [Requests -> Names \cup {None}]
    BY DEF TypeAndControl, TypeOK
<1>1. /\ certificateIdentifier[r] # None =>
            /\ certificateIdentifier[r] = ExpectedIdentifier(r)'
            /\ status'[r] # "none"
      /\ certificatePem[r] # None =>
            /\ certificatePem[r] = ExpectedIdentifier(r)'
            /\ certificateIdentifier[r] # None
    BY FixedName DEF RowsNamed
<1>2. CASE UNCHANGED <<certificateIdentifier, certificatePem>>
    BY <1>1, <1>2
<1>3. ASSUME NEW i \in Instances, IdentStep(i)
      PROVE  /\ certificateIdentifier'[r] # None =>
                   /\ certificateIdentifier'[r] = ExpectedIdentifier(r)'
                   /\ status'[r] # "none"
             /\ certificatePem'[r] # None =>
                   /\ certificatePem'[r] = ExpectedIdentifier(r)'
                   /\ certificateIdentifier'[r] # None
    <2>1. creator[i].ident \in Names /\ creator[i].ident # None
        BY <1>3, LifecycleAssumption
        DEF IdentStep, TypeAndControl, ControlInv, CreatorControl
    <2>2. CASE creator[i].cur = r
        <3>1. status[r] # "none"
            BY <1>3, <2>2 DEF IdentStep, ApprovalInv, Granted, NamedInv
        <3>2. /\ creator[i].ident = ExpectedIdentifier(r)'
              /\ status'[r] # "none"
            BY <1>3, <2>2, <3>1, FixedName DEF IdentStep, CreatorNamed
        <3>3. /\ certificateIdentifier'[r] = creator[i].ident
              /\ certificatePem' = certificatePem
            BY <1>0, <1>3, <2>2 DEF IdentStep
        <3>4. QED
            BY <1>1, <2>1, <3>2, <3>3
    <2>3. CASE creator[i].cur # r
        BY <1>0, <1>1, <1>3, <2>3 DEF IdentStep
    <2>4. QED
        BY <2>2, <2>3
<1>4. ASSUME NEW i \in Instances, PemStep(i)
      PROVE  /\ certificateIdentifier'[r] # None =>
                   /\ certificateIdentifier'[r] = ExpectedIdentifier(r)'
                   /\ status'[r] # "none"
             /\ certificatePem'[r] # None =>
                   /\ certificatePem'[r] = ExpectedIdentifier(r)'
                   /\ certificateIdentifier'[r] # None
    <2>1. CASE checker[i].cur = r
        <3>1. certificateIdentifier[r] # None
            BY <1>4, <2>1 DEF PemStep, RecordsInv
        <3>2. checker[i].ident = ExpectedIdentifier(r)'
            BY <1>4, <2>1, <3>1, FixedName
            DEF PemStep, CheckerNamed, RowsNamed
        <3>3. QED
            BY <1>0, <1>1, <1>4, <2>1, <3>1, <3>2 DEF PemStep
    <2>2. CASE checker[i].cur # r
        BY <1>0, <1>1, <1>4, <2>2 DEF PemStep
    <2>3. QED
        BY <2>1, <2>2
<1>5. QED
    BY <1>2, <1>3, <1>4, RowSteps

\* What a creation job found, or created, has the name of its request.
LEMMA CreatorNamedStep ==
    ASSUME Provider = "kubernetes", TypeAndControl, ApprovalInv, NamedInv,
           CreatorNamed, [Next]_vars
    PROVE  CreatorNamed'
<1> SUFFICES ASSUME NEW i \in Instances, creator'[i].pc = "metadata"
             PROVE  creator'[i].ident = ExpectedIdentifier(creator[i].cur)'
    BY DEF CreatorNamed, ExpectedIdentifier
<1>0. /\ creator \in [Instances -> CreatorState]
      /\ creator[i] \in CreatorState
    BY DEF TypeAndControl, TypeOK
<1>1. /\ creator'[i].ident = ExpectedIdentifier(creator[i].cur)
      /\ creator'[i].cur = creator[i].cur
      /\ creator[i].pc # "batch"
    <2>1. CASE creator'[i] = creator[i]
        BY <2>1 DEF CreatorNamed
    <2>2. CASE CreatorLookup(i) \/ CreatorCreate(i)
        <3> DEFINE expected == ExpectedIdentifier(creator[i].cur)
        <3>1. creator[i].pc # "batch"
            BY <2>2 DEF CreatorLookup, CreatorCreate
        <3>2. ASSUME NEW pc, NEW ident, CreatorGoes(i, pc, ident)
              PROVE  /\ creator'[i].pc = pc
                     /\ creator'[i].ident = ident
                     /\ creator'[i].cur = creator[i].cur
            BY <1>0, <3>2 DEF CreatorGoes, CreatorState
        <3>3. ASSUME CreatorContinues(i)
              PROVE  FALSE
            BY <1>0, <3>3 DEF CreatorContinues, CreatorState
        <3>4. CreatorGoes(i, "metadata", expected)
            <4>1. CASE CreatorLookup(i)
                <5>1. \/ CreatorGoes(i, "create", None)
                      \/ CreatorGoes(i, "metadata", expected)
                      \/ CreatorContinues(i)
                    BY <4>1 DEF CreatorLookup
                <5>2. QED
                    BY <5>1, <3>2, <3>3
            <4>2. CASE CreatorCreate(i)
                <5>1. NewName(creator[i].cur) = expected
                    BY DEF NewName
                <5>2. \/ CreatorGoes(i, "metadata", expected)
                      \/ CreatorGoes(i, "rollback", None)
                    BY <4>2, <5>1 DEF CreatorCreate
                <5>3. QED
                    BY <5>2, <3>2
            <4>3. QED
                BY <2>2, <4>1, <4>2
        <3>5. QED
            BY <3>1, <3>2, <3>4
    <2>3. CASE \/ CreatorRollback(i) \/ UpdateCertificateMetadata(i)
               \/ GetApprovedCertificateRequests(i) \/ Crash(i)
        <3>1. creator'[i].pc = "batch"
            <4>1. CASE CreatorRollback(i) \/ UpdateCertificateMetadata(i)
                BY <1>0, <4>1
                DEF CreatorRollback, UpdateCertificateMetadata,
                    CreatorContinues, CreatorState
            <4>2. CASE GetApprovedCertificateRequests(i)
                BY <1>0, <4>2
                DEF GetApprovedCertificateRequests, IdleCreator, CreatorState
            <4>3. CASE Crash(i)
                BY <1>0, <4>3 DEF Crash, IdleCreator
            <4>4. QED
                BY <2>3, <4>1, <4>2, <4>3
        <3>2. QED
            BY <3>1
    <2>4. ASSUME NEW r \in Requests, CreatorReserve(i, r)
          PROVE  FALSE
        BY <1>0, <2>4 DEF CreatorReserve, IdleCreator, CreatorState
    <2>5. ASSUME NEW k \in Instances, k # i, CreationJob(k) \/ Crash(k)
          PROVE  creator'[i] = creator[i]
        BY <1>0, <2>5
        DEF CreationJob, GetApprovedCertificateRequests, CreatorReserve,
            CreatorLookup, CreatorCreate, CreatorRollback,
            UpdateCertificateMetadata, CreatorGoes, CreatorContinues, Crash
    <2>6. CASE UNCHANGED creator
        BY <2>1, <2>6
    <2>7. QED
        BY <2>1, <2>2, <2>3, <2>4, <2>5, <2>6
        DEF Next, vars, Handlers, CreationJob, StatusJob,
            CreateCertificateRequest, AutoApprove, ReviewCheck, ReviewUpdate,
            GetPendingCertificateRequests, CheckerCheck,
            UpdateCertificateRequestIssued, IssuerReady, Tick
<1>2. PICK r \in Requests : creator[i].cur = r /\ status[r] # "none"
    BY <1>1 DEF ApprovalInv, Granted, NamedInv, TypeAndControl, ControlInv,
                CreatorControl
<1>3. ExpectedIdentifier(r)' = ExpectedIdentifier(r)
    BY <1>2, FixedName
<1>4. QED
    BY <1>1, <1>2, <1>3 DEF ExpectedIdentifier

\* What the status job holds was recorded for the request.
LEMMA CheckerNamedStep ==
    ASSUME TypeAndControl, RecordsInv, RowsNamed, CheckerNamed, [Next]_vars
    PROVE  CheckerNamed'
<1> SUFFICES ASSUME NEW i \in Instances
             PROVE  /\ \A e \in checker'[i].batch :
                          e[2] = ExpectedIdentifier(e[1])'
                    /\ checker'[i].cur # None =>
                          checker'[i].ident = ExpectedIdentifier(checker[i].cur)'
    BY DEF CheckerNamed, ExpectedIdentifier
<1> DEFINE Known(e) ==
        /\ e[1] \in Requests
        /\ certificateIdentifier[e[1]] # None
        /\ e[2] = ExpectedIdentifier(e[1])
<1>0. /\ checker \in [Instances -> CheckerState]
      /\ checker[i] \in CheckerState
    BY DEF TypeAndControl, TypeOK
<1>1. /\ \A e \in checker[i].batch : Known(e)
      /\ checker[i].cur # None => Known(<<checker[i].cur, checker[i].ident>>)
    BY <1>0 DEF RecordsInv, CheckerNamed, CheckerState
<1>2. ASSUME NEW r \in Requests, certificateIdentifier[r] # None
      PROVE  ExpectedIdentifier(r)' = ExpectedIdentifier(r)
    <2>1. status[r] # "none"
        BY <1>2, Zenon DEF RowsNamed
    <2>2. QED
        BY <2>1, FixedName
<1>3. /\ \A e \in checker'[i].batch : Known(e)
      /\ checker'[i].cur # None => Known(<<checker'[i].cur, checker'[i].ident>>)
    <2>1. CASE checker'[i] = checker[i]
        BY <1>1, <2>1
    <2>2. CASE GetPendingCertificateRequests(i)
        BY <1>0, <2>2
        DEF GetPendingCertificateRequests, IdleChecker, CheckerState, RowsNamed
    <2>3. ASSUME NEW r \in Requests, NEW n \in Names, CheckerCheck(i, r, n)
          PROVE  /\ \A e \in checker'[i].batch : Known(e)
                 /\ checker'[i].cur # None =>
                       Known(<<checker'[i].cur, checker'[i].ident>>)
        <3> DEFINE left == [IdleChecker EXCEPT
                              !.batch = checker[i].batch \ {<<r, n>>}]
        <3>1. \/ checker'[i] = [left EXCEPT !.cur = r, !.ident = n]
              \/ checker'[i] = left
            BY <1>0, <2>3 DEF CheckerCheck
        <3>2. Known(<<r, n>>)
            BY <1>1, <2>3 DEF CheckerCheck
        <3>3. /\ checker'[i].batch \subseteq checker[i].batch
              /\ \/ checker'[i].cur = None
                 \/ checker'[i].cur = r /\ checker'[i].ident = n
            BY <3>1 DEF IdleChecker
        <3> HIDE DEF Known, left
        <3>4. QED
            BY <1>1, <3>2, <3>3
    <2>4. CASE UpdateCertificateRequestIssued(i) \/ Crash(i)
        <3>1. /\ checker'[i].batch \subseteq checker[i].batch
              /\ checker'[i].cur = None
            BY <1>0, <2>4
            DEF UpdateCertificateRequestIssued, Crash, IdleChecker
        <3>2. QED
            BY <1>1, <3>1
    <2>5. ASSUME NEW k \in Instances, k # i,
                 StatusJob(k) \/ Crash(k)
          PROVE  checker'[i] = checker[i]
        BY <1>0, <2>5
        DEF StatusJob, GetPendingCertificateRequests, CheckerCheck,
            UpdateCertificateRequestIssued, Crash
    <2>6. CASE UNCHANGED checker
        BY <2>1, <2>6
    <2> HIDE DEF Known
    <2>7. QED
        BY <2>1, <2>2, <2>3, <2>4, <2>5, <2>6
        DEF Next, vars, Handlers, CreationJob, StatusJob,
            CreateCertificateRequest, AutoApprove, ReviewCheck, ReviewUpdate,
            GetApprovedCertificateRequests, CreatorReserve, CreatorLookup,
            CreatorCreate, CreatorRollback, UpdateCertificateMetadata,
            IssuerReady, Tick
<1>4. ASSUME NEW e, Known(e)
      PROVE  e[2] = ExpectedIdentifier(e[1])'
    <2>1. PICK r \in Requests : r = e[1] /\ certificateIdentifier[r] # None
        BY <1>4
    <2>2. ExpectedIdentifier(r)' = ExpectedIdentifier(r)
        BY <1>2, <2>1
    <2>3. QED
        BY <1>4, <2>1, <2>2 DEF ExpectedIdentifier
<1>5. ASSUME checker'[i].cur # None
      PROVE  checker'[i].ident = ExpectedIdentifier(checker[i].cur)'
    <2>1. PICK r \in Requests : /\ r = checker'[i].cur
                                /\ certificateIdentifier[r] # None
                                /\ checker'[i].ident = ExpectedIdentifier(r)
        BY <1>3, <1>5
    <2>2. ExpectedIdentifier(r)' = ExpectedIdentifier(r)
        BY <1>2, <2>1
    <2>3. QED
        BY <2>1, <2>2 DEF ExpectedIdentifier
<1>6. QED
    BY <1>3, <1>4, <1>5

\* Under cert-manager the PEM that a row shows is always that of the
\* certificate its identifier names, although the status job copies it for an
\* identifier that it read earlier.
THEOREM PemMatches ==
    Provider = "kubernetes" => (Spec => []PemMatchesIdentifier)
<1> SUFFICES ASSUME Provider = "kubernetes"
             PROVE  Spec => []PemMatchesIdentifier
    OBVIOUS
<1> DEFINE I == /\ TypeAndControl /\ ApprovalInv /\ RecordsInv /\ NamedInv
                /\ RowsNamed /\ CreatorNamed /\ CheckerNamed
<1>1. Init => I
    <2>1. Init => NamedInv /\ RowsNamed /\ CreatorNamed /\ CheckerNamed
        BY DEF Init, NamedInv, RowsNamed, CreatorNamed, CheckerNamed,
               IdleCreator, IdleChecker
    <2>2. QED
        BY <2>1, TypeInit, ApprovalInit, RecordsInit
<1>2. I /\ [Next]_vars => I'
    BY TypeStep, ApprovalStep, RecordsStep, NamedStep, RowsNamedStep,
       CreatorNamedStep, CheckerNamedStep
<1>3. I => PemMatchesIdentifier
    BY DEF RowsNamed, PemMatchesIdentifier
<1>4. QED
    BY <1>1, <1>2, <1>3, PTL DEF Spec
-----------------------------------------------------------------------------
(* Reservations.                                                           *)

\* A job that is between two requests has none in hand.
HandsInv ==
    \A i \in Instances : creator[i].pc = "batch" => creator[i].cur = None

\* The database provider's certificates can be read at once.
AtOnceInv ==
    Provider = "database" => \A n \in Names : certs[n] # None => n \in ready

\* A certificate that is not ready yet, and that no row records, was just
\* created by the job that is about to record it, unless a failure or a shared
\* name explains it.
UnreadyInv ==
    \A r \in Requests :
        /\ status[r] # "none"
        /\ certs[ExpectedIdentifier(r)] # None
        /\ ExpectedIdentifier(r) \notin ready
        /\ certificateIdentifier[r] = None
        => \/ Excused(r)
           \/ \E i \in Instances :
                 creator[i].pc = "metadata" /\ creator[i].cur = r

\* Rows stay.
LEMMA RowStays ==
    ASSUME TypeAndControl, [Next]_vars, NEW r \in Requests, status[r] # "none"
    PROVE  status'[r] # "none"
<1>1. ASSUME NEW s, NEW new, new # "none", NEW by, NEW note,
             UpdateCertificateRequestStatus(s, new, by, note)
      PROVE  status'[r] # "none"
    BY <1>1 DEF UpdateCertificateRequestStatus, TypeAndControl, TypeOK
<1>2. CASE UNCHANGED status
    BY <1>2
<1>3. ASSUME NEW s \in Requests, CreateCertificateRequest(s)
      PROVE  status'[r] # "none"
    BY <1>3 DEF CreateCertificateRequest, TypeAndControl, TypeOK
<1>4. ASSUME NEW u \in Users, ReviewUpdate(u)
      PROVE  status'[r] # "none"
    BY <1>1, <1>2, <1>4
    DEF ReviewUpdate, TypeAndControl, ControlInv, ReviewControl
<1>5. QED
    BY <1>1, <1>2, <1>3, <1>4
    DEF Next, vars, table, Handlers, CreationJob, StatusJob, AutoApprove,
        ReviewCheck, GetApprovedCertificateRequests, CreatorReserve,
        CreatorLookup, CreatorCreate, CreatorRollback,
        UpdateCertificateMetadata, GetPendingCertificateRequests,
        CheckerCheck, UpdateCertificateRequestIssued, Crash, IssuerReady, Tick

\* What a failure left behind is on record for good.
LEMMA AbandonedGrows ==
    ASSUME [Next]_vars
    PROVE  abandoned \subseteq abandoned'
<1>1. ASSUME NEW i \in Instances, CreationJob(i)
      PROVE  abandoned \subseteq abandoned'
    BY <1>1
    DEF CreationJob, GetApprovedCertificateRequests, CreatorReserve,
        CreatorLookup, CreatorCreate, CreatorRollback,
        UpdateCertificateMetadata, failures, Fault, FaultLeaves
<1>2. ASSUME NEW i \in Instances, StatusJob(i) \/ Crash(i)
      PROVE  abandoned \subseteq abandoned'
    BY <1>2
    DEF StatusJob, GetPendingCertificateRequests, CheckerCheck,
        UpdateCertificateRequestIssued, Crash, failures, Fault, FaultLeaves
<1>3. QED
    BY <1>1, <1>2
    DEF Next, vars, Handlers, CreateCertificateRequest, AutoApprove,
        ReviewCheck, ReviewUpdate, IssuerReady, Tick, failures, Fault

\* An excuse lasts: rows and their names do.
LEMMA ExcuseStays ==
    ASSUME TypeAndControl, [Next]_vars, NEW r \in Requests,
           status[r] # "none", Excused(r)
    PROVE  Excused(r)'
<1>1. CASE r \in abandoned
    BY <1>1, AbandonedGrows DEF Excused
<1>2. CASE SharesName(r)
    <2>1. PICK s \in Requests \ {r} :
             /\ status[s] # "none"
             /\ ExpectedIdentifier(s) = ExpectedIdentifier(r)
        BY <1>2 DEF SharesName
    <2>2. /\ status'[s] # "none"
          /\ ExpectedIdentifier(s)' = ExpectedIdentifier(r)'
        BY <2>1, RowStays, NameKept
    <2>3. QED
        BY <2>1, <2>2 DEF Excused, SharesName, ExpectedIdentifier
<1>3. QED
    BY <1>1, <1>2 DEF Excused

\* A job that puts down its request: because somebody else's certificate for
\* it is not ready, after a rollback, after it recorded the certificate, or
\* because a failure makes it, which goes on record.
PutDown(i) == creator'[i].pc = "batch" /\ creator'[i].cur = None

Skipped(i) ==
    LET expected == ExpectedIdentifier(creator[i].cur) IN
    /\ creator[i].pc = "lookup"
    /\ certs[expected] # None /\ expected \notin ready
    /\ PutDown(i)
    /\ \A k \in Instances : k # i => creator'[k] = creator[k]

RolledBack(i) ==
    /\ creator[i].pc = "rollback"
    /\ status'[creator[i].cur] = "approved"
    /\ PutDown(i)

Recorded(i) ==
    /\ creator[i].pc = "metadata"
    /\ certificateIdentifier'[creator[i].cur] # None
    /\ PutDown(i)

LeftBehind(i) == creator[i].cur \in abandoned' /\ PutDown(i)

\* A job that goes on with the request it has, or takes its first one.
KeptOn(i) ==
    /\ creator[i].pc \in {"lookup", "create"}
    /\ creator'[i].pc # "batch"
    /\ creator'[i].cur = creator[i].cur

Began(i) ==
    /\ creator[i].pc = "batch"
    /\ creator'[i].pc = "batch" => creator'[i].cur = None

\* What a step does to the request that a creation job has in hand.
LEMMA CreatorMoves ==
    ASSUME TypeAndControl, [Next]_vars, NEW i \in Instances
    PROVE  \/ creator'[i] = creator[i]
           \/ Began(i) \/ KeptOn(i)
           \/ Skipped(i) \/ RolledBack(i) \/ Recorded(i) \/ LeftBehind(i)
<1>0. /\ creator \in [Instances -> CreatorState]
      /\ creator[i] \in CreatorState
      /\ creator[i].pc # "batch" => creator[i].cur \in Requests
      /\ creator[i].pc = "metadata" => creator[i].ident \in Names
      /\ status \in [Requests -> Statuses]
      /\ certificateIdentifier \in [Requests -> Names \cup {None}]
    BY DEF TypeAndControl, TypeOK, ControlInv, CreatorControl
<1>1. ASSUME CreatorContinues(i)
      PROVE  /\ PutDown(i)
             /\ \A k \in Instances : k # i => creator'[k] = creator[k]
    BY <1>0, <1>1 DEF CreatorContinues, CreatorState, PutDown
<1>2. ASSUME NEW pc, NEW ident, CreatorGoes(i, pc, ident)
      PROVE  /\ creator'[i].pc = pc
             /\ creator'[i].cur = creator[i].cur
    BY <1>0, <1>2 DEF CreatorGoes, CreatorState
<1>3. ASSUME NEW kind, FaultLeaves(kind, {creator[i].cur}), CreatorContinues(i)
      PROVE  LeftBehind(i)
    BY <1>1, <1>3 DEF FaultLeaves, LeftBehind
<1>4. CASE GetApprovedCertificateRequests(i)
    BY <1>0, <1>4
    DEF GetApprovedCertificateRequests, IdleCreator, CreatorState, Began
<1>5. ASSUME NEW r \in Requests, CreatorReserve(i, r)
      PROVE  Began(i)
    BY <1>0, <1>5 DEF CreatorReserve, IdleCreator, CreatorState, Began
<1>6. CASE CreatorLookup(i)
    <2>1. creator[i].pc = "lookup"
        BY <1>6 DEF CreatorLookup
    <2>2. \/ CreatorGoes(i, "create", None)
          \/ CreatorGoes(i, "metadata", ExpectedIdentifier(creator[i].cur))
          \/ /\ certs[ExpectedIdentifier(creator[i].cur)] # None
             /\ ExpectedIdentifier(creator[i].cur) \notin ready
             /\ CreatorContinues(i)
          \/ FaultLeaves("lookup", {creator[i].cur}) /\ CreatorContinues(i)
        BY <1>6 DEF CreatorLookup
    <2>3. QED
        BY <1>1, <1>2, <1>3, <2>1, <2>2 DEF KeptOn, Skipped
<1>7. CASE CreatorCreate(i)
    <2>1. \/ CreatorGoes(i, "metadata", NewName(creator[i].cur))
          \/ CreatorGoes(i, "rollback", None)
        BY <1>7 DEF CreatorCreate
    <2>2. QED
        BY <1>2, <1>7, <2>1 DEF CreatorCreate, KeptOn
<1>8. CASE CreatorRollback(i)
    <2>1. CASE FaultLeaves("rollback", {creator[i].cur})
        BY <1>3, <1>8, <2>1 DEF CreatorRollback
    <2>2. CASE UpdateCertificateRequestStatus(creator[i].cur, "approved",
                                              System, "job")
        BY <1>0, <1>1, <1>8, <2>2
        DEF CreatorRollback, UpdateCertificateRequestStatus, RolledBack
    <2>3. QED
        BY <1>8, <2>1, <2>2 DEF CreatorRollback
<1>9. CASE UpdateCertificateMetadata(i)
    <2>1. CASE FaultLeaves("metadata", {creator[i].cur})
        BY <1>3, <1>9, <2>1 DEF UpdateCertificateMetadata
    <2>2. CASE certificateIdentifier' = [certificateIdentifier EXCEPT
                                           ![creator[i].cur] = creator[i].ident]
        BY <1>0, <1>1, <1>9, <2>2, LifecycleAssumption
        DEF UpdateCertificateMetadata, Recorded
    <2>3. QED
        BY <1>9, <2>1, <2>2 DEF UpdateCertificateMetadata
<1>10. CASE Crash(i)
    <2>1. PutDown(i)
        BY <1>0, <1>10 DEF Crash, PutDown, IdleCreator
    <2>2. CASE creator[i].pc = "batch"
        BY <2>1, <2>2 DEF Began, PutDown
    <2>3. CASE creator[i].pc # "batch"
        BY <1>0, <1>10, <2>1, <2>3, LifecycleAssumption
        DEF Crash, FaultLeaves, LeftBehind
    <2>4. QED
        BY <2>2, <2>3
<1>11. ASSUME NEW k \in Instances, k # i, CreationJob(k) \/ Crash(k)
       PROVE  creator'[i] = creator[i]
    BY <1>0, <1>11
    DEF CreationJob, GetApprovedCertificateRequests, CreatorReserve,
        CreatorLookup, CreatorCreate, CreatorRollback,
        UpdateCertificateMetadata, CreatorGoes, CreatorContinues, Crash
<1>12. CASE CreationJob(i)
    BY <1>4, <1>5, <1>6, <1>7, <1>8, <1>9, <1>12 DEF CreationJob
<1>13. CASE UNCHANGED creator
    BY <1>13
<1>14. QED
    BY <1>10, <1>11, <1>12, <1>13
    DEF Next, vars, Handlers, StatusJob, CreateCertificateRequest,
        AutoApprove, ReviewCheck, ReviewUpdate,
        GetPendingCertificateRequests, CheckerCheck,
        UpdateCertificateRequestIssued, IssuerReady, Tick

\* A job between two requests has none in hand.
LEMMA HandsStep ==
    ASSUME TypeAndControl, HandsInv, [Next]_vars
    PROVE  HandsInv'
<1> SUFFICES ASSUME NEW i \in Instances, creator'[i].pc = "batch"
             PROVE  creator'[i].cur = None
    BY DEF HandsInv
<1>1. QED
    BY CreatorMoves
    DEF HandsInv, Began, KeptOn, Skipped, RolledBack, Recorded, LeftBehind,
        PutDown

\* A reservation is made by a job that has the request in hand.
LEMMA PendingStep ==
    ASSUME TypeAndControl, [Next]_vars, NEW r \in Requests,
           status'[r] = "pending", status[r] # "pending"
    PROVE  \E i \in Instances : creator'[i].cur = r
<1>0. /\ status \in [Requests -> Statuses]
      /\ creator \in [Instances -> CreatorState]
      /\ ReviewControl
    BY DEF TypeAndControl, TypeOK, ControlInv
<1>1. ASSUME NEW s, NEW new, new # "pending", NEW by, NEW note,
             UpdateCertificateRequestStatus(s, new, by, note)
      PROVE  FALSE
    BY <1>0, <1>1 DEF UpdateCertificateRequestStatus
<1>2. CASE UNCHANGED status
    BY <1>2
<1>3. ASSUME NEW s \in Requests, CreateCertificateRequest(s)
      PROVE  FALSE
    BY <1>0, <1>3 DEF CreateCertificateRequest
<1>4. ASSUME NEW u \in Users, ReviewUpdate(u)
      PROVE  FALSE
    BY <1>0, <1>1, <1>2, <1>4 DEF ReviewUpdate, ReviewControl
<1>5. ASSUME NEW i \in Instances, NEW s \in Requests, CreatorReserve(i, s)
      PROVE  \E k \in Instances : creator'[k].cur = r
    <2>1. UpdateCertificateRequestStatus(s, "pending", System, "job")
        BY <1>2, <1>5 DEF CreatorReserve
    <2>2. s = r
        BY <1>0, <2>1 DEF UpdateCertificateRequestStatus
    <2>3. CASE UNCHANGED status
        BY <2>3
    <2>4. CASE creator' = [creator EXCEPT ![i] =
                  [[IdleCreator EXCEPT !.batch = creator[i].batch \ {s}]
                      EXCEPT !.pc = "lookup", !.cur = s]]
        BY <1>0, <2>2, <2>4 DEF IdleCreator
    <2>5. QED
        BY <1>5, <2>3, <2>4 DEF CreatorReserve
<1>6. QED
    BY <1>1, <1>2, <1>3, <1>4, <1>5
    DEF Next, vars, table, Handlers, CreationJob, StatusJob, AutoApprove,
        ReviewCheck, GetApprovedCertificateRequests, CreatorLookup,
        CreatorCreate, CreatorRollback, UpdateCertificateMetadata,
        GetPendingCertificateRequests, CheckerCheck,
        UpdateCertificateRequestIssued, Crash, IssuerReady, Tick

\* A recorded identifier is never taken back.
LEMMA IdentStays ==
    ASSUME TypeAndControl, [Next]_vars, NEW r \in Requests,
           certificateIdentifier[r] # None
    PROVE  certificateIdentifier'[r] # None
<1>1. ASSUME NEW i \in Instances, IdentStep(i)
      PROVE  certificateIdentifier'[r] # None
    BY <1>1, LifecycleAssumption
    DEF IdentStep, TypeAndControl, TypeOK, ControlInv, CreatorControl
<1>2. QED
    BY <1>1, RowSteps DEF PemStep

\* A reservation is handed on or finished, and never dropped without a record
\* of the failure that dropped it.
LEMMA ReservationStep ==
    ASSUME TypeAndControl, HandsInv, UnreadyInv, NoOrphanReservation,
           [Next]_vars
    PROVE  NoOrphanReservation'
<1> SUFFICES ASSUME NEW r \in Requests, status'[r] = "pending",
                    certificateIdentifier'[r] = None
             PROVE  Excused(r)' \/ \E i \in Instances : creator'[i].cur = r
    BY DEF NoOrphanReservation, Working
<1>1. CASE status[r] # "pending"
    BY <1>1, PendingStep
<1>2. CASE status[r] = "pending"
    <2>1. certificateIdentifier[r] = None
        BY IdentStays
    <2>2. Excused(r) => Excused(r)'
        BY <1>2, ExcuseStays
    <2>3. ASSUME NEW i \in Instances, creator[i].cur = r, ~Excused(r)'
          PROVE  \E k \in Instances : creator'[k].cur = r
        <3>1. creator[i].pc # "batch"
            BY <2>3, LifecycleAssumption DEF HandsInv
        <3>2. ~LeftBehind(i)
            BY <2>3 DEF LeftBehind, Excused
        <3>3. CASE Skipped(i)
            <4>1. PICK k \in Instances : creator[k].pc = "metadata"
                                         /\ creator[k].cur = r
                BY <1>2, <2>1, <2>2, <2>3, <3>3 DEF Skipped, UnreadyInv
            <4>2. creator'[k] = creator[k]
                BY <3>3, <4>1 DEF Skipped
            <4>3. QED
                BY <4>1, <4>2
        <3>4. QED
            BY <1>2, <2>3, <3>1, <3>2, <3>3, CreatorMoves
            DEF Began, KeptOn, RolledBack, Recorded
    <2>4. QED
        BY <1>2, <2>1, <2>2, <2>3 DEF NoOrphanReservation, Working
<1>3. QED
    BY <1>1, <1>2

\* A new certificate is in the hands of the job that made it, or that job did
\* not learn of it.
LEMMA NewCertificate ==
    ASSUME TypeAndControl, [Next]_vars,
           NEW n \in Names, NEW r \in Requests, certs'[n] = r, certs[n] # r
    PROVE  \/ r \in abandoned'
           \/ \E i \in Instances :
                 creator'[i].pc = "metadata" /\ creator'[i].cur = r
<1>0. /\ certs \in [Names -> Requests \cup {None}]
      /\ creator \in [Instances -> CreatorState]
    BY DEF TypeAndControl, TypeOK
<1>1. ASSUME NEW i \in Instances, CreatorCreate(i)
      PROVE  \/ r \in abandoned'
             \/ creator'[i].pc = "metadata" /\ creator'[i].cur = r
    <2> DEFINE m == NewName(creator[i].cur)
    <2>1. /\ AddCertificate(m, creator[i].cur)
          /\ \/ CreatorGoes(i, "metadata", m)
             \/ FaultLeaves("createLost", {creator[i].cur})
        BY <1>1 DEF CreatorCreate, provider
    <2>2. creator[i].cur = r
        BY <1>0, <2>1 DEF AddCertificate
    <2>3. QED
        BY <1>0, <2>1, <2>2 DEF CreatorGoes, CreatorState, FaultLeaves
<1>2. CASE UNCHANGED certs
    BY <1>2
<1>3. QED
    BY <1>1, <1>2
    DEF Next, vars, provider, Handlers, CreationJob, StatusJob,
        CreateCertificateRequest, AutoApprove, ReviewCheck, ReviewUpdate,
        GetApprovedCertificateRequests, CreatorReserve, CreatorLookup,
        CreatorRollback, UpdateCertificateMetadata,
        GetPendingCertificateRequests, CheckerCheck,
        UpdateCertificateRequestIssued, Crash, IssuerReady, Tick

\* A certificate that is ready stays so.
LEMMA ReadyGrows ==
    ASSUME [Next]_vars
    PROVE  ready \subseteq ready'
BY DEF Next, vars, provider, Handlers, CreationJob, StatusJob,
       CreateCertificateRequest, AutoApprove, ReviewCheck, ReviewUpdate,
       GetApprovedCertificateRequests, CreatorReserve, CreatorLookup,
       CreatorCreate, AddCertificate, CreatorRollback,
       UpdateCertificateMetadata, GetPendingCertificateRequests,
       CheckerCheck, UpdateCertificateRequestIssued, Crash, IssuerReady, Tick

\* A new certificate of the database provider is ready.
LEMMA AtOnceStep ==
    ASSUME TypeAndControl, AtOnceInv, [Next]_vars
    PROVE  AtOnceInv'
<1> SUFFICES ASSUME Provider = "database", NEW n \in Names, certs'[n] # None
             PROVE  n \in ready'
    BY DEF AtOnceInv
<1>1. CASE certs[n] # None
    BY <1>1, ReadyGrows DEF AtOnceInv
<1>2. ASSUME NEW m, NEW r, AddCertificate(m, r), certs[n] = None
      PROVE  n \in ready'
    BY <1>2 DEF AddCertificate, TypeAndControl, TypeOK
<1>3. CASE UNCHANGED certs
    BY <1>1, <1>3
<1>4. QED
    BY <1>1, <1>2, <1>3
    DEF Next, vars, provider, Handlers, CreationJob, StatusJob,
        CreateCertificateRequest, AutoApprove, ReviewCheck, ReviewUpdate,
        GetApprovedCertificateRequests, CreatorReserve, CreatorLookup,
        CreatorCreate, CreatorRollback, UpdateCertificateMetadata,
        GetPendingCertificateRequests, CheckerCheck,
        UpdateCertificateRequestIssued, Crash, IssuerReady, Tick

\* A certificate that is not ready and not recorded stays in its job's hands,
\* or a failure or a shared name explains it.
LEMMA UnreadyStep ==
    ASSUME TypeAndControl, ApprovalInv, AtOnceInv,
           Provider = "kubernetes" => NamedInv, UnreadyInv, [Next]_vars
    PROVE  UnreadyInv'
<1> SUFFICES ASSUME NEW r \in Requests,
                    status'[r] # "none",
                    (certs[ExpectedIdentifier(r)])' # None,
                    ExpectedIdentifier(r)' \notin ready',
                    certificateIdentifier'[r] = None,
                    ~Excused(r)'
             PROVE  \E i \in Instances :
                       creator'[i].pc = "metadata" /\ creator'[i].cur = r
    BY DEF UnreadyInv
<1> DEFINE n == ExpectedIdentifier(r)
<1>1. n' \in Names
    BY TypeStep, LifecycleAssumption
    DEF TypeAndControl, TypeOK, ExpectedIdentifier, GenerateCertificateName,
        Names
<1>2. Provider = "kubernetes"
    BY <1>1, AtOnceStep, LifecycleAssumption DEF AtOnceInv
<1>3. TypeAndControl' /\ ApprovalInv' /\ NamedInv'
    BY <1>2, TypeStep, ApprovalStep, NamedStep
<1>4. certs'[n'] = r
    <2>1. PICK s \in Requests : certs'[n'] = s
        BY <1>1, <1>3 DEF TypeAndControl, TypeOK
    <2>2. n' = ExpectedIdentifier(s)'
        BY <1>1, <1>3, <2>1, LifecycleAssumption
        DEF NamedInv, ExpectedIdentifier
    <2>3. status'[s] # "none"
        BY <1>1, <1>3, <2>1, LifecycleAssumption
        DEF ApprovalInv, CertificateNeedsApproval, Granted, NamedInv
    <2>4. s = r
        BY <2>2, <2>3 DEF Excused, SharesName, ExpectedIdentifier
    <2>5. QED
        BY <2>1, <2>4
<1>5. CASE certs[n'] # r
    BY <1>1, <1>4, <1>5, NewCertificate DEF Excused
<1>6. CASE certs[n'] = r
    <2>1. Granted(r)
        BY <1>1, <1>6, LifecycleAssumption
        DEF ApprovalInv, CertificateNeedsApproval
    <2>2. status[r] # "none"
        BY <1>2, <2>1 DEF Granted, NamedInv
    <2>3. n' = n
        BY <2>2, NameKept
    <2>4. /\ certs[n] # None
          /\ n \notin ready
          /\ certificateIdentifier[r] = None
        BY <1>6, <2>3, ReadyGrows, IdentStays, LifecycleAssumption
    <2>5. PICK i \in Instances : creator[i].pc = "metadata" /\ creator[i].cur = r
        BY <2>2, <2>4, ExcuseStays DEF UnreadyInv
    <2>6. creator'[i] = creator[i]
        BY <2>5, CreatorMoves
        DEF Began, KeptOn, Skipped, RolledBack, Recorded, LeftBehind, Excused
    <2>7. QED
        BY <2>5, <2>6
<1>7. QED
    BY <1>5, <1>6

\* No reservation is left behind by any number of overlapping jobs, reviewers
\* and certificates that take their time, whatever fails and whoever crashes,
\* with either provider and with any number of requests of one owner, except
\* by the failures that are on record and by requests that share their name.
THEOREM NoOrphans == Spec => []NoOrphanReservation
<1> DEFINE Named == Provider = "kubernetes" => NamedInv
           I == /\ TypeAndControl /\ ApprovalInv /\ Named
                /\ HandsInv /\ AtOnceInv /\ UnreadyInv /\ NoOrphanReservation
<1>1. Init => I
    <2>1. Init => NamedInv /\ HandsInv /\ NoOrphanReservation
        BY DEF Init, NamedInv, HandsInv, NoOrphanReservation, IdleCreator
    <2>2. Init => AtOnceInv /\ UnreadyInv
        BY DEF Init, AtOnceInv, UnreadyInv
    <2>3. QED
        BY <2>1, <2>2, TypeInit, ApprovalInit
<1>2. I /\ [Next]_vars => I'
    <2> SUFFICES ASSUME I, [Next]_vars
                 PROVE  I'
        OBVIOUS
    <2>1. TypeAndControl' /\ ApprovalInv'
        BY TypeStep, ApprovalStep
    <2>2. Named'
        BY NamedStep
    <2>3. HandsInv' /\ AtOnceInv' /\ UnreadyInv' /\ NoOrphanReservation'
        BY HandsStep, AtOnceStep, UnreadyStep, ReservationStep
    <2>4. QED
        BY <2>1, <2>2, <2>3
<1>3. QED
    BY <1>1, <1>2, PTL DEF Spec
=============================================================================
