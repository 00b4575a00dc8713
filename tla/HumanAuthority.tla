--------------------------- MODULE HumanAuthority ---------------------------
(***************************************************************************)
(* The documents of the authority of one governed patch, each containing   *)
(* the one it rests on: a challenge signed with a key of the local human   *)
(* authority, the verified identity assertion, the R3 approval, and the    *)
(* capability grant, which may be derived from a G4 authorization.         *)
(*                                                                         *)
(* A fingerprint is the document itself: two documents agree on a          *)
(* fingerprint when they are equal.  Workspace, tenant, project, audience  *)
(* and subject are one each; signatures cannot be made without the key.    *)
(***************************************************************************)
EXTENDS AuthoritativeClock

CONSTANTS
  MaximumValidity,   \* of a G4 authorization: ten minutes
  LocalValidity      \* of a patch request: five minutes

ASSUME ValidityAssumption ==
  /\ MaximumValidity \in Nat \ {0}
  /\ LocalValidity \in Nat \ {0}

\* No G4 parent, or no document yet.
None == [none |-> TRUE]

Interval(document) == [issuedAt |-> document.issuedAt, expiresAt |-> document.expiresAt]

\* What authorizes when it is presented at a time: a reading is required.
Current(reading, document) == reading # NoReading /\ Valid(reading, Interval(document))

----------------------------------------------------------------------------
\* validateChallenge and signChallenge; the key signs what it is shown.
SignChallenge(operation, issuedAt, expiresAt, key) ==
  [operation |-> operation, issuedAt |-> issuedAt, expiresAt |-> expiresAt, key |-> key]

\* verify() of the local authority: the assertion repeats the challenge, and its time of
\* verification is the time of issue.
Assertion(challenge) ==
  [operation |-> challenge.operation, issuedAt |-> challenge.issuedAt,
   expiresAt |-> challenge.expiresAt, verifiedAt |-> challenge.issuedAt]

Signed(challenge, operation, key) ==
  /\ challenge.key = key
  /\ challenge.operation = operation
  /\ challenge.issuedAt < challenge.expiresAt

\* evaluateVerifiedHumanIdentityAssertion
IdentityHolds(assertion, operation) ==
  /\ assertion.operation = operation
  /\ assertion.issuedAt < assertion.expiresAt
  /\ assertion.issuedAt <= assertion.verifiedAt
  /\ assertion.verifiedAt < assertion.expiresAt

\* verifyHumanIdentityAssertion of the verification adapter: the key of the runtime, the
\* expected operation, and the validity at a reading.
IdentityVerified(challenge, operation, key, reading) ==
  /\ Signed(challenge, operation, key)
  /\ IdentityHolds(Assertion(challenge), operation)
  /\ Current(reading, Assertion(challenge))

----------------------------------------------------------------------------
\* An R3 approval: who approved which operation, when and until when.
Approval(operation, identity, timestamp, expiresAt) ==
  [operation |-> operation, identity |-> identity, issuedAt |-> timestamp,
   expiresAt |-> expiresAt]

\* evaluateR3ApprovalAuthority: bound to the operation and contained in the validity of
\* the identity; at a reading, if there is one, both are current.
ApprovalHolds(approval, operation) ==
  /\ approval.operation = operation
  /\ approval.issuedAt < approval.expiresAt
  /\ IdentityHolds(approval.identity, operation)
  /\ approval.identity.issuedAt <= approval.issuedAt
  /\ approval.expiresAt <= approval.identity.expiresAt

ApprovalCurrent(approval, operation, reading) ==
  /\ ApprovalHolds(approval, operation)
  /\ Current(reading, approval.identity)
  /\ Current(reading, approval)

----------------------------------------------------------------------------
\* materializeNaturalDevelopmentPatchAuthorization: valid from the verification of the
\* identity, for at most MaximumValidity and never longer than the identity.
ParentAuthorization(identity, expiresAt) ==
  [identity |-> identity, issuedAt |-> identity.verifiedAt, expiresAt |-> expiresAt]

ParentAllowed(parent) ==
  /\ parent.issuedAt < parent.expiresAt
  /\ parent.expiresAt - parent.issuedAt <= MaximumValidity
  /\ parent.expiresAt <= parent.identity.expiresAt

\* The expiry a request is given: the local default, cut off at its parent's.
RequestExpiry(issuedAt, parent) ==
  IF parent # None /\ parent.expiresAt < issuedAt + LocalValidity
  THEN parent.expiresAt
  ELSE issuedAt + LocalValidity

\* validateDerivedAuthorityBinding: request, grant and record name the same parent, the grant
\* does not outlive it, and at the reading of the dispatch it has not expired.
DerivationHolds(grant, record, reading) ==
  /\ grant.parent = record.parent
  /\ grant.parent # None =>
       /\ grant.expiresAt <= grant.parent.expiresAt
       /\ reading # NoReading => reading.wall < grant.parent.expiresAt

----------------------------------------------------------------------------
\* The grant of FILESYSTEM_PATCH that evaluateCapabilityGrant issues at a reading.
Grant(approval, issuedAt, expiresAt, parent) ==
  [approval |-> approval, issuedAt |-> issuedAt, expiresAt |-> expiresAt, parent |-> parent]

\* Mutant: the approval is evaluated, but not at the reading the grant is issued at.
GrantAllowedUntimed(approval, operation, reading, expiresAt, parent) ==
  /\ ApprovalHolds(approval, operation)
  /\ reading # NoReading /\ reading.wall < expiresAt
  /\ parent # None => expiresAt <= parent.expiresAt

GrantAllowed(approval, operation, reading, expiresAt, parent) ==
  /\ ApprovalCurrent(approval, operation, reading)
  /\ reading.wall < expiresAt
  /\ parent # None => expiresAt <= parent.expiresAt

\* temporalAuthority of a grant: the three intervals a mutation must lie in.
AuthorityBounds(grant) ==
  {Interval(grant.approval.identity), Interval(grant.approval), Interval(grant)}
=============================================================================
