--------------------------- MODULE ProposalReview ---------------------------
(***************************************************************************)
(* The proposal inbox (gate G4): memory proposals that wait for a person,  *)
(* and the requests that submit, approve and reject them (ProposalService, *)
(* router /proposals).                                                     *)
(*                                                                         *)
(* A request is handled at a desk, an AsyncSession of its own.  Approving  *)
(* is five transactions: the status, then the claim, its first version and *)
(* its audit entry (ClaimService._persist_claim), then the audit entry of  *)
(* the approval.  The status is read once, before the first of them, and   *)
(* no row is locked.                                                       *)
(***************************************************************************)
EXTENDS Integers, Sequences, FiniteSets

CONSTANTS
    Desks,         \* request handlers
    ClaimData,     \* what may be proposed
    MaxProposals,  \* bound: rows of memory_proposals
    MaxRequests,   \* bound: approve and reject requests
    MayFail        \* desks that may die between two transactions

ASSUME BoundsAssumption ==
    /\ MaxProposals \in Nat
    /\ MaxRequests \in Nat

ASSUME ClaimDataAssumption ==
    \A d \in ClaimData :
      d.verification_state \in {"tentative", "confirmed", "superseded", "retracted"}

VARIABLES
    proposals,  \* memory_proposals in the order of their insertion
    claims,     \* the claims, in the order of their insertion
    versioned,  \* the claims that have a version
    audit,      \* audit entries: event and target
    desk,       \* desk[s]: the request that is handled there
    requests    \* number of review requests so far

reviewVars == <<proposals, claims, versioned, audit, desk, requests>>

-----------------------------------------------------------------------------
(* Tables                                                                  *)

Statuses == {"pending", "confirmed", "rejected"}

\* reason tells whether rejection_reason is set; approved is history: the
\* desks whose approval was committed.
Proposal(data) == [data |-> data, status |-> "pending", reason |-> FALSE,
                   approved |-> {}]

\* A claim remembers here where it came from: a proposal, or 0 for none.
ClaimRow(data, p) == [data |-> data, proposal |-> p]

ClaimsFrom(p) == {c \in DOMAIN claims : claims[c].proposal = p}

Phases == {"idle", "submitted", "approve", "create", "version", "claim_audit",
           "approved", "reject", "rejected"}

Idle == [phase |-> "idle", proposal |-> 0, claim |-> 0]

At(s, phase) == desk[s].phase = phase

Go(s, phase) == desk' = [desk EXCEPT ![s] = [@ EXCEPT !.phase = phase]]

Log(event, target) == audit' = audit \union {<<event, target>>}

ReviewInit ==
    /\ proposals = << >>
    /\ claims = << >>
    /\ versioned = {}
    /\ audit = {}
    /\ desk = [s \in Desks |-> Idle]
    /\ requests = 0

-----------------------------------------------------------------------------
(* Submitting                                                              *)

InsertProposal(data) == proposals' = Append(proposals, Proposal(data))

create_proposal(s) ==
    /\ At(s, "idle")
    /\ Len(proposals) < MaxProposals
    /\ \E data \in ClaimData : InsertProposal(data)
    /\ desk' = [desk EXCEPT ![s] = [phase |-> "submitted",
                                    proposal |-> Len(proposals) + 1, claim |-> 0]]
    /\ UNCHANGED <<claims, versioned, audit, requests>>

AuditSubmission(s) ==
    /\ At(s, "submitted")
    /\ Log("proposal_created", desk[s].proposal)
    /\ desk' = [desk EXCEPT ![s] = Idle]
    /\ UNCHANGED <<proposals, claims, versioned, requests>>

-----------------------------------------------------------------------------
(* Approving                                                               *)

\* Mutant: whether it is still pending is left to the client.
OpenAnything(s, p, phase) ==
    /\ At(s, "idle")
    /\ requests < MaxRequests
    /\ requests' = requests + 1
    /\ desk' = [desk EXCEPT ![s] = [phase |-> phase, proposal |-> p, claim |-> 0]]
    /\ UNCHANGED <<proposals, claims, versioned, audit>>

\* SELECT the proposal; anything but a pending one is a ConflictError.
Open(s, p, phase) ==
    /\ At(s, "idle")
    /\ requests < MaxRequests
    /\ proposals[p].status = "pending"
    /\ requests' = requests + 1
    /\ desk' = [desk EXCEPT ![s] = [phase |-> phase, proposal |-> p, claim |-> 0]]
    /\ UNCHANGED <<proposals, claims, versioned, audit>>

approve_proposal(s, p) == Open(s, p, "approve")

\* UPDATE ... SET status WHERE proposal_id: the WHERE clause names no status.
Confirm(s) ==
    /\ At(s, "approve")
    /\ proposals' = [proposals EXCEPT
                       ![desk[s].proposal] = [@ EXCEPT
                         !.status = "confirmed",
                         !.approved = proposals[desk[s].proposal].approved \union {s}]]
    /\ Go(s, "create")
    /\ UNCHANGED <<claims, versioned, audit, requests>>

InsertClaim(data, p) == claims' = Append(claims, ClaimRow(data, p))

\* Mutant: the claim is committed before the status.
CreateBeforeConfirm(s) ==
    /\ At(s, "approve") \/ At(s, "create")
    /\ InsertClaim(proposals[desk[s].proposal].data, desk[s].proposal)
    /\ desk' = [desk EXCEPT ![s] = [phase |-> "version",
                                    proposal |-> @.proposal, claim |-> Len(claims) + 1]]
    /\ UNCHANGED <<proposals, versioned, audit, requests>>

\* Mutant: the id is taken before the INSERT has assigned it.
CreateWithEarlyId(s) ==
    /\ At(s, "create")
    /\ InsertClaim(proposals[desk[s].proposal].data, desk[s].proposal)
    /\ desk' = [desk EXCEPT ![s] = [phase |-> "version",
                                    proposal |-> @.proposal, claim |-> Len(claims)]]
    /\ UNCHANGED <<proposals, versioned, audit, requests>>

\* The claim takes over the proposed data as they are.
CreateClaim(s) ==
    /\ At(s, "create")
    /\ InsertClaim(proposals[desk[s].proposal].data, desk[s].proposal)
    /\ desk' = [desk EXCEPT ![s] = [phase |-> "version",
                                    proposal |-> @.proposal, claim |-> Len(claims) + 1]]
    /\ UNCHANGED <<proposals, versioned, audit, requests>>

\* Mutant: the version is left to a later job.
VersionSkipped(s) ==
    /\ At(s, "version")
    /\ Go(s, "claim_audit")
    /\ UNCHANGED <<proposals, claims, versioned, audit, requests>>

RecordVersion(s) ==
    /\ At(s, "version")
    /\ versioned' = versioned \union {desk[s].claim}
    /\ Go(s, "claim_audit")
    /\ UNCHANGED <<proposals, claims, audit, requests>>

AuditClaim(s) ==
    /\ At(s, "claim_audit")
    /\ Log("claim_created", desk[s].claim)
    /\ Go(s, "approved")
    /\ UNCHANGED <<proposals, claims, versioned, requests>>

AuditApproval(s) ==
    /\ At(s, "approved")
    /\ Log("memory_confirmed", desk[s].proposal)
    /\ desk' = [desk EXCEPT ![s] = Idle]
    /\ UNCHANGED <<proposals, claims, versioned, requests>>

-----------------------------------------------------------------------------
(* Rejecting                                                               *)

reject_proposal(s, p) == Open(s, p, "reject")

Reject(s) ==
    /\ At(s, "reject")
    /\ proposals' = [proposals EXCEPT
                       ![desk[s].proposal] = [@ EXCEPT !.status = "rejected",
                                                       !.reason = TRUE]]
    /\ Go(s, "rejected")
    /\ UNCHANGED <<claims, versioned, audit, requests>>

\* Mutant: only approvals are audited.
RejectionNotAudited(s) ==
    /\ At(s, "rejected")
    /\ desk' = [desk EXCEPT ![s] = Idle]
    /\ UNCHANGED <<proposals, claims, versioned, audit, requests>>

AuditRejection(s) ==
    /\ At(s, "rejected")
    /\ Log("memory_rejected", desk[s].proposal)
    /\ desk' = [desk EXCEPT ![s] = Idle]
    /\ UNCHANGED <<proposals, claims, versioned, requests>>

-----------------------------------------------------------------------------

\* The request ends between two transactions: process killed, connection lost.
Crash(s) ==
    /\ s \in MayFail
    /\ ~At(s, "idle")
    /\ desk' = [desk EXCEPT ![s] = Idle]
    /\ UNCHANGED <<proposals, claims, versioned, audit, requests>>

Review(s) ==
    \/ AuditSubmission(s)
    \/ Confirm(s)
    \/ CreateClaim(s)
    \/ RecordVersion(s)
    \/ AuditClaim(s)
    \/ AuditApproval(s)
    \/ Reject(s)
    \/ AuditRejection(s)

ReviewNext ==
    \E s \in Desks :
      \/ create_proposal(s)
      \/ \E p \in DOMAIN proposals : approve_proposal(s, p) \/ reject_proposal(s, p)
      \/ Review(s)
      \/ Crash(s)

ReviewSpec == ReviewInit /\ [][ReviewNext]_reviewVars

\* The event loop resumes a coroutine whose query has come back.
FairReviewSpec == ReviewSpec /\ \A s \in Desks : WF_reviewVars(Review(s))

-----------------------------------------------------------------------------
(* Properties                                                              *)

\* The type of every variable.
ReviewTypeOK ==
    /\ proposals \in Seq([data : ClaimData, status : Statuses, reason : BOOLEAN,
                          approved : SUBSET Desks])
    /\ Len(proposals) <= MaxProposals
    /\ claims \in Seq([data : ClaimData, proposal : DOMAIN proposals])
    /\ versioned \subseteq DOMAIN claims
    /\ \A e \in audit :
         \/ e[1] = "claim_created" /\ e[2] \in DOMAIN claims
         \/ /\ e[1] \in {"proposal_created", "memory_confirmed", "memory_rejected"}
            /\ e[2] \in DOMAIN proposals
    /\ \A s \in Desks :
         /\ desk[s].phase \in Phases
         /\ ~At(s, "idle") => desk[s].proposal \in DOMAIN proposals
         /\ desk[s].phase \in {"version", "claim_audit", "approved"}
              => desk[s].claim \in DOMAIN claims
    /\ requests \in 0 .. MaxRequests

\* What is still in the inbox has not been remembered: whatever two desks do
\* and wherever one of them stops, a pending proposal has no claim, so the
\* user can still refuse it.
PendingHasNoClaim ==
    \A p \in DOMAIN proposals : proposals[p].status = "pending" => ClaimsFrom(p) = {}

\* The audit trail says "approved" only of a proposal whose claim exists and
\* has a version.
AuditedApprovalHasClaim ==
    \A p \in DOMAIN proposals :
      <<"memory_confirmed", p>> \in audit => ClaimsFrom(p) \cap versioned # {}

\* A decision that was committed is carried out in full as long as its own
\* desk does not fail, whatever the other desks do to the same proposal and
\* wherever they stop: an approval ends in a versioned claim and its audit
\* entry, a rejection in its audit entry.
DecisionsComplete ==
    \A s \in Desks \ MayFail, p \in 1 .. MaxProposals :
      /\ (At(s, "create") /\ desk[s].proposal = p)
           ~> (/\ ClaimsFrom(p) \cap versioned # {}
               /\ <<"memory_confirmed", p>> \in audit)
      /\ (At(s, "rejected") /\ desk[s].proposal = p)
           ~> (<<"memory_rejected", p>> \in audit)

\* The desks that have read the proposal as pending and not decided yet.
Looking(p) == {s \in Desks : /\ desk[s].phase \in {"approve", "reject"}
                             /\ desk[s].proposal = p}

\* A proposal as its deciders understand it.
Entry(p) == [status |-> proposals[p].status, open |-> Looking(p),
             approved |-> proposals[p].approved,
             copies |-> Cardinality(ClaimsFrom(p))]

Inbox == INSTANCE MemoryInbox WITH
           Deciders <- Desks,
           inbox <- [p \in DOMAIN proposals |-> Entry(p)]

\* Whatever overlaps and dies: only a desk that read the proposal as pending
\* decides it, none approves it twice, and it never becomes more claims than
\* there were approvals, so one at most unless approvals overlap.
ImplementsMemoryInbox == Inbox!Spec
=============================================================================
