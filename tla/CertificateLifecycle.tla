------------------------ MODULE CertificateLifecycle ------------------------
(***************************************************************************)
(* The life of client-certificate requests: the HTTP handlers that create  *)
(* and review them, the two leader jobs that create certificates and poll  *)
(* for their readiness, and the provider (cert-manager or the database)    *)
(* that holds the certificates.  One action per database statement or      *)
(* provider call, because every one of them is a point at which another    *)
(* handler, job or replica can run.                                        *)
(***************************************************************************)
EXTENDS Naturals, FiniteSets

CONSTANTS
    Requests,       \* rows of certificate_requests
    Users,          \* principals that request and review certificates
    Owner,          \* the principal that posts each request
    AutoApprovers,  \* users holding mtls:auto_approve
    Approvers,      \* users holding mtls:approve
    SelfApprovers,  \* users holding mtls:self_approve_certs
    Instances,      \* replicas, or incarnations of the jobs in one replica
    Provider,       \* the configured certificate provider
    MaxTime,        \* bound on the clock, which counts seconds
    Faults,         \* the calls that may fail, named below
    MaxFaults,      \* bound on the number of failures
    System,         \* the system user that the jobs act for
    None            \* SQL NULL, and "no request"

Times == 0 .. MaxTime

(***************************************************************************)
(* A certificate name is a hash of the owner and of a time in seconds.     *)
(***************************************************************************)
GenerateCertificateName(owner, timestamp) == <<owner, timestamp>>

Names == Users \X Times

(***************************************************************************)
(* The calls that may fail.  "createLost" is a creation that took effect   *)
(* although the caller saw an error; "secret" is a ready Certificate whose *)
(* Secret is missing; the others fail without effect.                      *)
(***************************************************************************)
FaultKinds == {"auto", "review", "reserve", "lookup", "secret", "create",
               "createLost", "rollback", "metadata", "check", "issue",
               "crash"}

ASSUME LifecycleAssumption ==
    /\ Owner \in [Requests -> Users]
    /\ AutoApprovers \subseteq Users
    /\ Approvers \subseteq Users
    /\ SelfApprovers \subseteq Users
    /\ Provider \in {"database", "kubernetes"}
    /\ MaxTime \in Nat
    /\ Faults \subseteq FaultKinds
    /\ MaxFaults \in Nat
    /\ System \notin Users
    /\ None \notin Requests
    /\ None \notin Names

Statuses == {"none", "awaiting_review", "approved", "rejected", "pending",
             "issued"}

Notes == {"auto", "review", "job"}

Event == [status : Statuses, by : Users \cup {System}, note : Notes]

VARIABLES
    status,                 \* column status; "none" before the INSERT
    requestedAt,            \* column requested_at
    certificateIdentifier,  \* column certificate_identifier
    certificatePem,         \* column certificate_pem: whose PEM was copied
    events,                 \* table certificate_events, per request
    certs,                  \* the provider's certificates and their requests
    ready,                  \* certificates the provider can deliver
    posting,                \* requests inserted but not yet auto-approved
    review,                 \* each user's review in flight
    creator,                \* the certificate creation job of each instance
    checker,                \* the status job of each instance
    now,                    \* the clock
    faults,                 \* failures so far
    abandoned               \* history: requests that a failure left behind

table == <<status, requestedAt, certificateIdentifier, certificatePem, events>>
provider == <<certs, ready>>
failures == <<faults, abandoned>>
vars == <<table, provider, posting, review, creator, checker, now, failures>>

IdleReview == [req |-> None, decision |-> "none"]

IdleCreator == [pc |-> "batch", batch |-> {}, cur |-> None, ident |-> None]

IdleChecker == [batch |-> {}, cur |-> None, ident |-> None]

Init ==
    /\ status = [r \in Requests |-> "none"]
    /\ requestedAt = [r \in Requests |-> 0]
    /\ certificateIdentifier = [r \in Requests |-> None]
    /\ certificatePem = [r \in Requests |-> None]
    /\ events = [r \in Requests |-> {}]
    /\ certs = [n \in Names |-> None]
    /\ ready = {}
    /\ posting = {}
    /\ review = [u \in Users |-> IdleReview]
    /\ creator = [i \in Instances |-> IdleCreator]
    /\ checker = [i \in Instances |-> IdleChecker]
    /\ now = 0
    /\ faults = 0
    /\ abandoned = {}

-----------------------------------------------------------------------------
(* Failures, and the statement every status change goes through.           *)

Fault(kind) ==
    /\ kind \in Faults
    /\ faults < MaxFaults
    /\ faults' = faults + 1
    /\ UNCHANGED abandoned

\* A failure after which a creation job leaves the requests in `left' as they
\* are.  Only the properties read the record of it.
FaultLeaves(kind, left) ==
    /\ kind \in Faults
    /\ faults < MaxFaults
    /\ faults' = faults + 1
    /\ abandoned' = abandoned \cup left

\* A faulty status change: the event replaces the history of the request.
UpdateReplacesEvents(r, new, by, note) ==
    /\ status' = [status EXCEPT ![r] = new]
    /\ events' = [events EXCEPT ![r] =
                    {[status |-> new, by |-> by, note |-> note]}]

\* One transaction: the row's new status and its event.  The status read at
\* its start is not compared with anything.
UpdateCertificateRequestStatus(r, new, by, note) ==
    /\ status' = [status EXCEPT ![r] = new]
    /\ events' = [events EXCEPT ![r] =
                    @ \cup {[status |-> new, by |-> by, note |-> note]}]

-----------------------------------------------------------------------------
(* POST /api/v1/certificates/request                                       *)

CreateCertificateRequest(r) ==
    /\ status[r] = "none"
    /\ status' = [status EXCEPT ![r] = "awaiting_review"]
    /\ requestedAt' = [requestedAt EXCEPT ![r] = now]
    /\ posting' = IF Owner[r] \in AutoApprovers THEN posting \cup {r}
                                                ELSE posting
    /\ UNCHANGED <<certificateIdentifier, certificatePem, events, provider,
                   review, creator, checker, now, failures>>

AutoApprove(r) ==
    /\ r \in posting
    /\ posting' = posting \ {r}
    /\ \/ /\ UpdateCertificateRequestStatus(r, "approved", System, "auto")
          /\ UNCHANGED failures
       \/ /\ Fault("auto")
          /\ UNCHANGED <<status, events>>
    /\ UNCHANGED <<requestedAt, certificateIdentifier, certificatePem,
                   provider, review, creator, checker, now>>

-----------------------------------------------------------------------------
(* POST /api/v1/certificates/{id}/review: every check is made on the row   *)
(* read first, the update comes later.                                     *)

\* A faulty review: nobody is kept from reviewing a request of their own.
ReviewCheckAllowsSelf(u, r, decision) ==
    /\ u \in Approvers
    /\ review[u] = IdleReview
    /\ status[r] = "awaiting_review"
    /\ review' = [review EXCEPT ![u] = [req |-> r, decision |-> decision]]
    /\ UNCHANGED <<table, provider, posting, creator, checker, now, failures>>

\* A faulty review: a request can be reviewed in any status.
ReviewOfAnyStatus(u, r, decision) ==
    /\ u \in Approvers
    /\ review[u] = IdleReview
    /\ status[r] # "none"
    /\ u = Owner[r] => u \in SelfApprovers
    /\ review' = [review EXCEPT ![u] = [req |-> r, decision |-> decision]]
    /\ UNCHANGED <<table, provider, posting, creator, checker, now, failures>>

ReviewCheck(u, r, decision) ==
    /\ u \in Approvers
    /\ review[u] = IdleReview
    /\ status[r] = "awaiting_review"
    /\ u = Owner[r] => u \in SelfApprovers
    /\ review' = [review EXCEPT ![u] = [req |-> r, decision |-> decision]]
    /\ UNCHANGED <<table, provider, posting, creator, checker, now, failures>>

ReviewUpdate(u) ==
    /\ review[u] # IdleReview
    /\ review' = [review EXCEPT ![u] = IdleReview]
    /\ \/ /\ UpdateCertificateRequestStatus(review[u].req, review[u].decision,
                                            u, "review")
          /\ UNCHANGED failures
       \/ /\ Fault("review")
          /\ UNCHANGED <<status, events>>
    /\ UNCHANGED <<requestedAt, certificateIdentifier, certificatePem,
                   provider, posting, creator, checker, now>>

-----------------------------------------------------------------------------
(* The certificate creation job.  A tick reads the approved requests, then *)
(* reserves, looks up, creates and records one after another, oldest       *)
(* first.                                                                  *)

Oldest(r, S) == r \in S /\ \A s \in S : requestedAt[r] <= requestedAt[s]

CreatorGoes(i, pc, ident) ==
    creator' = [creator EXCEPT ![i] = [@ EXCEPT !.pc = pc, !.ident = ident]]

\* `continue': the next request of the batch.
CreatorContinues(i) ==
    creator' = [creator EXCEPT ![i] =
                  [@ EXCEPT !.pc = "batch", !.cur = None, !.ident = None]]

GetApprovedCertificateRequests(i) ==
    LET approved == {r \in Requests : status[r] = "approved"} IN
    /\ creator[i] = IdleCreator
    /\ approved # {}
    /\ creator' = [creator EXCEPT ![i].batch = approved]
    /\ UNCHANGED <<table, provider, posting, review, checker, now, failures>>

CreatorReserve(i, r) ==
    LET left == [IdleCreator EXCEPT !.batch = creator[i].batch \ {r}] IN
    /\ creator[i].pc = "batch"
    /\ Oldest(r, creator[i].batch)
    /\ \/ /\ UpdateCertificateRequestStatus(r, "pending", System, "job")
          /\ creator' = [creator EXCEPT ![i] =
                           [left EXCEPT !.pc = "lookup", !.cur = r]]
          /\ UNCHANGED failures
       \/ /\ Fault("reserve")
          /\ creator' = [creator EXCEPT ![i] = left]
          /\ UNCHANGED <<status, events>>
    /\ UNCHANGED <<requestedAt, certificateIdentifier, certificatePem,
                   provider, posting, review, checker, now>>

ExpectedIdentifier(r) == GenerateCertificateName(Owner[r], requestedAt[r])

\* GetCertificateData on the name derived from requested_at.  Only an error
\* that says "not found" leads to the creation of a certificate.
CreatorLookup(i) ==
    LET expected == ExpectedIdentifier(creator[i].cur) IN
    /\ creator[i].pc = "lookup"
    /\ \/ /\ certs[expected] = None
          /\ CreatorGoes(i, "create", None)
          /\ UNCHANGED failures
       \/ /\ expected \in ready
          /\ CreatorGoes(i, "metadata", expected)
          /\ UNCHANGED failures
       \/ /\ certs[expected] # None
          /\ expected \notin ready
          /\ CreatorContinues(i)
          /\ UNCHANGED failures
       \/ /\ FaultLeaves("lookup", {creator[i].cur})
          /\ CreatorContinues(i)
       \/ /\ Provider = "kubernetes"
          /\ expected \in ready
          /\ Fault("secret")
          /\ CreatorGoes(i, "create", None)
    /\ UNCHANGED <<table, provider, posting, review, checker, now>>

\* A faulty provider: every creation gets a new name.
NewNameFromClock(r) == GenerateCertificateName(Owner[r], now)

\* cert-manager is given the name of the lookup, the database provider names
\* the certificate after the current time.
NewName(r) == IF Provider = "kubernetes"
              THEN ExpectedIdentifier(r)
              ELSE GenerateCertificateName(Owner[r], now)

\* A database certificate can be read at once; cert-manager signs later.
AddCertificate(n, r) ==
    /\ certs' = [certs EXCEPT ![n] = r]
    /\ ready' = IF Provider = "database" THEN ready \cup {n} ELSE ready

CreatorCreate(i) ==
    LET r == creator[i].cur
        n == NewName(r)
    IN
    /\ creator[i].pc = "create"
    /\ \/ /\ certs[n] = None
          /\ AddCertificate(n, r)
          /\ CreatorGoes(i, "metadata", n)
          /\ UNCHANGED failures
       \/ /\ certs[n] # None
          /\ CreatorGoes(i, "rollback", None)
          /\ UNCHANGED <<provider, failures>>
       \/ /\ Fault("create")
          /\ CreatorGoes(i, "rollback", None)
          /\ UNCHANGED provider
       \/ /\ certs[n] = None
          /\ FaultLeaves("createLost", {r})
          /\ AddCertificate(n, r)
          /\ CreatorGoes(i, "rollback", None)
    /\ UNCHANGED <<table, posting, review, checker, now>>

\* A faulty creation job: it gives up without a rollback.
CreatorForgetsRollback(i) ==
    /\ creator[i].pc = "rollback"
    /\ CreatorContinues(i)
    /\ UNCHANGED <<table, provider, posting, review, checker, now, failures>>

CreatorRollback(i) ==
    /\ creator[i].pc = "rollback"
    /\ \/ /\ UpdateCertificateRequestStatus(creator[i].cur, "approved",
                                            System, "job")
          /\ UNCHANGED failures
       \/ /\ FaultLeaves("rollback", {creator[i].cur})
          /\ UNCHANGED <<status, events>>
    /\ CreatorContinues(i)
    /\ UNCHANGED <<requestedAt, certificateIdentifier, certificatePem,
                   provider, posting, review, checker, now>>

UpdateCertificateMetadata(i) ==
    /\ creator[i].pc = "metadata"
    /\ \/ /\ certificateIdentifier' =
               [certificateIdentifier EXCEPT ![creator[i].cur] =
                  creator[i].ident]
          /\ UNCHANGED failures
       \/ /\ FaultLeaves("metadata", {creator[i].cur})
          /\ UNCHANGED certificateIdentifier
    /\ CreatorContinues(i)
    /\ UNCHANGED <<status, requestedAt, certificatePem, events, provider,
                   posting, review, checker, now>>

-----------------------------------------------------------------------------
(* The status job: pending requests that have an identifier.  The          *)
(* identifier checked is the one read with the batch.                      *)

\* A faulty query of the status job: the wrong status.
GetApprovedAsPending(i) ==
    LET pending == {r \in Requests : /\ status[r] = "approved"
                                     /\ certificateIdentifier[r] # None} IN
    /\ checker[i] = IdleChecker
    /\ pending # {}
    /\ checker' = [checker EXCEPT ![i].batch =
                     {<<r, certificateIdentifier[r]>> : r \in pending}]
    /\ UNCHANGED <<table, provider, posting, review, creator, now, failures>>

GetPendingCertificateRequests(i) ==
    LET pending == {r \in Requests : /\ status[r] = "pending"
                                     /\ certificateIdentifier[r] # None} IN
    /\ checker[i] = IdleChecker
    /\ pending # {}
    /\ checker' = [checker EXCEPT ![i].batch =
                     {<<r, certificateIdentifier[r]>> : r \in pending}]
    /\ UNCHANGED <<table, provider, posting, review, creator, now, failures>>

\* A faulty status job: it takes an existing certificate for a ready one.
CheckIgnoresReady(i, r, n) ==
    LET left == [IdleChecker EXCEPT !.batch = checker[i].batch \ {<<r, n>>}] IN
    /\ checker[i].cur = None
    /\ <<r, n>> \in checker[i].batch
    /\ checker' = [checker EXCEPT ![i] = IF certs[n] # None
                      THEN [left EXCEPT !.cur = r, !.ident = n] ELSE left]
    /\ UNCHANGED <<table, provider, posting, review, creator, now, failures>>

CheckerCheck(i, r, n) ==
    LET left == [IdleChecker EXCEPT !.batch = checker[i].batch \ {<<r, n>>}] IN
    /\ checker[i].cur = None
    /\ <<r, n>> \in checker[i].batch
    /\ Oldest(r, {e[1] : e \in checker[i].batch})
    /\ \/ /\ n \in ready
          /\ checker' = [checker EXCEPT ![i] =
                           [left EXCEPT !.cur = r, !.ident = n]]
          /\ UNCHANGED failures
       \/ /\ n \notin ready
          /\ checker' = [checker EXCEPT ![i] = left]
          /\ UNCHANGED failures
       \/ /\ Fault("check")
          /\ checker' = [checker EXCEPT ![i] = left]
    /\ UNCHANGED <<table, provider, posting, review, creator, now>>

\* A faulty UPDATE: it copies the PEM to every pending row of the owner.
IssueAllOfOwner(i) ==
    LET r == checker[i].cur
        rows == {q \in Requests : Owner[q] = Owner[r] /\ status[q] = "pending"}
    IN
    /\ r # None
    /\ UpdateCertificateRequestStatus(r, "issued", System, "job")
    /\ certificatePem' = [q \in Requests |->
                            IF q \in rows THEN checker[i].ident
                                          ELSE certificatePem[q]]
    /\ checker' = [checker EXCEPT ![i] =
                     [IdleChecker EXCEPT !.batch = checker[i].batch]]
    /\ UNCHANGED <<requestedAt, certificateIdentifier, provider, posting,
                   review, creator, now, failures>>

UpdateCertificateRequestIssued(i) ==
    LET r == checker[i].cur IN
    /\ r # None
    /\ \/ /\ UpdateCertificateRequestStatus(r, "issued", System, "job")
          /\ certificatePem' = [certificatePem EXCEPT ![r] = checker[i].ident]
          /\ UNCHANGED failures
       \/ /\ Fault("issue")
          /\ UNCHANGED <<status, events, certificatePem>>
    /\ checker' = [checker EXCEPT ![i] =
                     [IdleChecker EXCEPT !.batch = checker[i].batch]]
    /\ UNCHANGED <<requestedAt, certificateIdentifier, provider, posting,
                   review, creator, now>>

-----------------------------------------------------------------------------
(* The environment.                                                        *)

\* An instance dies in the middle of its jobs and comes back idle.
Crash(i) ==
    /\ creator[i] # IdleCreator \/ checker[i] # IdleChecker
    /\ FaultLeaves("crash", {creator[i].cur} \ {None})
    /\ creator' = [creator EXCEPT ![i] = IdleCreator]
    /\ checker' = [checker EXCEPT ![i] = IdleChecker]
    /\ UNCHANGED <<table, provider, posting, review, now>>

\* cert-manager signs a certificate and sets its Ready condition.
IssuerReady(n) ==
    /\ certs[n] # None
    /\ n \notin ready
    /\ ready' = ready \cup {n}
    /\ UNCHANGED <<table, certs, posting, review, creator, checker, now,
                   failures>>

Tick ==
    /\ now < MaxTime
    /\ now' = now + 1
    /\ UNCHANGED <<table, provider, posting, review, creator, checker,
                   failures>>

Handlers ==
    \/ \E r \in Requests : CreateCertificateRequest(r) \/ AutoApprove(r)
    \/ \E u \in Users : ReviewUpdate(u)
    \/ \E u \in Users, r \in Requests, d \in {"approved", "rejected"} :
          ReviewCheck(u, r, d)

CreationJob(i) ==
    \/ GetApprovedCertificateRequests(i)
    \/ \E r \in Requests : CreatorReserve(i, r)
    \/ CreatorLookup(i)
    \/ CreatorCreate(i)
    \/ CreatorRollback(i)
    \/ UpdateCertificateMetadata(i)

StatusJob(i) ==
    \/ GetPendingCertificateRequests(i)
    \/ \E r \in Requests, n \in Names : CheckerCheck(i, r, n)
    \/ UpdateCertificateRequestIssued(i)

Next ==
    \/ Handlers
    \/ \E i \in Instances : CreationJob(i) \/ StatusJob(i) \/ Crash(i)
    \/ \E n \in Names : IssuerReady(n)
    \/ Tick

Spec == Init /\ [][Next]_vars

(***************************************************************************)
(* Both jobs run off a ticker as long as their instance leads, a handler   *)
(* that has started runs to its end, and cert-manager signs what it was    *)
(* asked to sign.  Nobody is obliged to post or to review.                 *)
(***************************************************************************)
Fairness ==
    /\ \A r \in Requests : WF_vars(AutoApprove(r))
    /\ \A u \in Users : WF_vars(ReviewUpdate(u))
    /\ \A i \in Instances : WF_vars(CreationJob(i)) /\ WF_vars(StatusJob(i))
    /\ \A n \in Names : WF_vars(IssuerReady(n))

FairSpec == Spec /\ Fairness

-----------------------------------------------------------------------------
(* Properties, and the inductive invariants they follow from.              *)

CreatorPcs == {"batch", "lookup", "create", "rollback", "metadata"}

CreatorState == [pc : CreatorPcs, batch : SUBSET Requests,
                 cur : Requests \cup {None}, ident : Names \cup {None}]

CheckerState == [batch : SUBSET (Requests \X Names),
                 cur : Requests \cup {None}, ident : Names \cup {None}]

\* Every variable has the type its column or Go variable has.
TypeOK ==
    /\ status \in [Requests -> Statuses]
    /\ requestedAt \in [Requests -> Times]
    /\ certificateIdentifier \in [Requests -> Names \cup {None}]
    /\ certificatePem \in [Requests -> Names \cup {None}]
    /\ events \in [Requests -> SUBSET Event]
    /\ certs \in [Names -> Requests \cup {None}]
    /\ ready \subseteq Names
    /\ posting \subseteq Requests
    /\ review \in [Users -> [req : Requests \cup {None},
                             decision : {"none", "approved", "rejected"}]]
    /\ creator \in [Instances -> CreatorState]
    /\ checker \in [Instances -> CheckerState]
    /\ now \in Times
    /\ faults \in 0 .. MaxFaults
    /\ abandoned \subseteq Requests

\* An event that entitles the owner of r to a certificate: the automatic
\* approval of a user who has that scope, or the approval of a reviewer who
\* may approve and does not approve a request of their own without the scope
\* for that.  The job's own "approved" events entitle nobody.
Entitles(e, r) ==
    /\ e.status = "approved"
    /\ \/ e.note = "auto" /\ Owner[r] \in AutoApprovers
       \/ /\ e.note = "review"
          /\ e.by \in Approvers
          /\ e.by = Owner[r] => e.by \in SelfApprovers

Granted(r) == \E e \in events[r] : Entitles(e, r)

\* No certificate is ever created for a request that was not approved by
\* somebody entitled to approve it, whatever the interleaving of reviewers,
\* overlapping creation jobs, rollbacks, retries and crashes: a rollback
\* writes "approved" too and must not launder an approval.
CertificateNeedsApproval ==
    \A n \in Names : certs[n] # None => Granted(certs[n])

\* The control state of the handlers and jobs: whoever is past its first step
\* holds the request, and where it needs one the name, it works on.
ReviewControl ==
    \A u \in Users : review[u] # IdleReview =>
        /\ review[u].req \in Requests
        /\ review[u].decision \in {"approved", "rejected"}

CreatorControl ==
    \A i \in Instances :
        /\ creator[i].pc # "batch" => creator[i].cur \in Requests
        /\ creator[i].pc = "metadata" => creator[i].ident \in Names

CheckerControl ==
    \A i \in Instances :
        checker[i].cur # None => checker[i].ident \in Names

ControlInv == ReviewControl /\ CreatorControl /\ CheckerControl

\* Why it holds: approval is an event that is never removed, and everything
\* between the approval and the certificate (the row's status, the batch of a
\* job however stale, the request it works on, the handlers in flight) only
\* ever carries granted requests, or the right to grant one.
ApprovalInv ==
    /\ CertificateNeedsApproval
    /\ \A r \in Requests : status[r] = "approved" => Granted(r)
    /\ \A r \in posting : Owner[r] \in AutoApprovers
    /\ \A u \in Users : review[u] # IdleReview =>
          /\ u \in Approvers
          /\ u = Owner[review[u].req] => u \in SelfApprovers
    /\ \A i \in Instances :
          /\ \A r \in creator[i].batch : Granted(r)
          /\ creator[i].pc # "batch" => Granted(creator[i].cur)

\* Certificate n exists and belongs to the owner of request r.
Belongs(n, r) == certs[n] # None /\ Owner[certs[n]] = Owner[r]

\* What a row records exists: its identifier and its PEM name certificates
\* that the provider holds, that belong to the owner of the row (an adopted
\* certificate is never somebody else's), and a PEM is copied only from a
\* certificate that is ready.  An issued row has both.
RecordsRealCertificate ==
    \A r \in Requests :
        /\ certificateIdentifier[r] # None => Belongs(certificateIdentifier[r], r)
        /\ certificatePem[r] # None => /\ Belongs(certificatePem[r], r)
                                      /\ certificatePem[r] \in ready
        /\ status[r] = "issued" => /\ certificatePem[r] # None
                                   /\ certificateIdentifier[r] # None

\* Why it holds: a name carries its owner, certificates are never removed,
\* and a job only hands on names that it has seen to exist.
RecordsInv ==
    /\ RecordsRealCertificate
    /\ \A n \in ready : certs[n] # None
    /\ \A n \in Names : certs[n] # None => Owner[certs[n]] = n[1]
    /\ \A i \in Instances :
          /\ creator[i].pc = "metadata" =>
                Belongs(creator[i].ident, creator[i].cur)
          /\ \A e \in checker[i].batch :
                /\ Belongs(e[2], e[1])
                /\ certificateIdentifier[e[1]] # None
          /\ checker[i].cur # None =>
                /\ Belongs(checker[i].ident, checker[i].cur)
                /\ checker[i].ident \in ready
                /\ certificateIdentifier[checker[i].cur] # None

\* The promise of the certificate feature, with the events table as the record
\* of what was granted and certificate_pem as what was published.
Issuance == INSTANCE CertificateIssuance WITH
    granted <- {r \in Requests : Granted(r)},
    made <- certs,
    published <- certificatePem

\* Handlers, jobs, failures and overlapping instances implement it.
ImplementsIssuance == Issuance!Spec

CertificatesOf(r) == {n \in Names : certs[n] = r}

\* A request gets at most one certificate.  It holds for cert-manager, whose
\* names are derived from the request, even when two jobs overlap, crash and
\* retry; it does not hold for the database provider, which names a
\* certificate after the moment of its creation.
OneCertificatePerRequest ==
    \A r \in Requests : Cardinality(CertificatesOf(r)) <= 1

\* The PEM, serial number and expiry shown for an issued request are those of
\* the certificate that a download by its identifier delivers.  It holds for
\* cert-manager; with the database provider a second incarnation of the job
\* may record another identifier while the status job holds the first.
PemMatchesIdentifier ==
    \A r \in Requests : certificatePem[r] # None =>
        certificatePem[r] = certificateIdentifier[r]

Working(i, r) == creator[i].cur = r

\* Requests of one owner that arrived in the same second have one certificate
\* name: the job that works on one adopts, or waits for, what it made for the
\* other.
SharesName(r) ==
    \E s \in Requests \ {r} :
        /\ status[s] # "none"
        /\ ExpectedIdentifier(s) = ExpectedIdentifier(r)

\* What the code has no answer to: a lookup, a rollback or a recording that
\* failed, a creation whose answer was lost, a crash between the reservation
\* and its end, and a name that is not the request's alone.
Excused(r) == r \in abandoned \/ SharesName(r)

\* A reservation has somebody who will finish it: a pending request without
\* an identifier, which no query of either job ever returns, is in the hands
\* of a creation job.  Whatever overlaps, whatever else fails and however long
\* a certificate takes, nothing but the failures above leaves one behind.
NoOrphanReservation ==
    \A r \in Requests :
        status[r] = "pending" /\ certificateIdentifier[r] = None =>
            Excused(r) \/ \E i \in Instances : Working(i, r)

\* An approved request is eventually issued, or rejected by a reviewer who
\* had read it before, unless one of those failures met it.
ApprovedIsIssued ==
    \A r \in Requests :
        status[r] = "approved" ~>
            status[r] \in {"issued", "rejected"} \/ Excused(r)

\* A rejection that no handler and no job in flight can overwrite.
Settled(r) ==
    /\ status[r] = "rejected"
    /\ r \notin posting
    /\ \A u \in Users : review[u].req # r
    /\ \A i \in Instances :
          /\ r \notin creator[i].batch
          /\ creator[i].cur # r
          /\ checker[i].cur # r
          /\ \A e \in checker[i].batch : e[1] # r

\* "Rejected, Failed, and Completed are final states": a rejection stands once
\* everybody who had read the row before it is done.  A reviewer, a rollback
\* or a status job that had may still overwrite it.
RejectionStands ==
    [][\A r \in Requests : Settled(r) => Settled(r)']_vars
=============================================================================
