----------------------------- MODULE MCSessions -----------------------------
(***************************************************************************)
(* The accounts and their sessions, and beside them the refresh tokens of  *)
(* one session.  Each specification lets one of the two take its steps     *)
(* while the other rests.                                                  *)
(***************************************************************************)
EXTENDS Sessions, Sequences

CONSTANTS
  u1, u2, s1, s2,
  Caller, MaxHops, MaxTokens, RotationFaults

VARIABLES
  family, revoked, active, push, step, req, held, unpunished, rfaults

\* The refresh tokens of one session; its requests are those to /auth/refresh.
Rotation == INSTANCE RefreshRotation
  WITH Request <- Caller, MaxFaults <- RotationFaults, tokens <- family, pc <- step,
       faults <- rfaults

ASSUME FamilyAssumption == Rotation!RotationAssumption

rotation == <<family, revoked, active, push, step, req, held, unpunished, rfaults>>

\* One account has a session; the other may be opened by either.
MCOpened == [s \in Session |-> IF s = s1 THEN u1 ELSE None]

Start == Init /\ Rotation!Init

AccessSpec ==
  /\ Start
  /\ [][Next /\ UNCHANGED rotation]_<<vars, rotation>>
  /\ Fairness

RotationSpec ==
  /\ Start
  /\ [][Rotation!Next /\ UNCHANGED vars]_<<vars, rotation>>

\* refresh: only what began while the session was live gets a new token.
GrantedWhileLive == Rotation!GrantedWhileLive

\* mark_rotated: replaced_by leads to a usable token while the session is live.
ChainReachesLiveToken == Rotation!ChainReachesLiveToken

\* _resolve_presented_refresh: a replay within the grace period is forgiven.
NoFalseReuse == Rotation!NoFalseReuse

\* SessionRepository.revoke: one caller owes the push of a revocation.
RevokedIsPushed == Rotation!RevokedIsPushed
=============================================================================
