------------------------------- MODULE Guardian -------------------------------
(***************************************************************************)
(* The emergency stop (contracts/accord/src/lib.rs): a guardian may freeze *)
(* the contract at once; only owners whose weights reach the threshold may *)
(* lift the freeze, or appoint the guardian directly.  These entrypoints   *)
(* take co-signatures in one call, not a proposal, and no role is involved.*)
(* Recovery mode, which the same guardian may enter, is part of Treasury:  *)
(* only outflows read it.                                                  *)
(***************************************************************************)
EXTENDS Proposals

CONSTANTS
  NoGuardian,         \* read_guardian returned None
  GuardianCandidates  \* bound: the addresses set_guardian is called with

ASSUME GuardianAssumption ==
  /\ NoGuardian \notin Address
  /\ GuardianCandidates \subseteq Address

VARIABLE guardian  \* GUARDIAN

IsGuardian(a) == guardian = a

Freeze(a) ==
  /\ IsGuardian(a)
  /\ frozen' = TRUE
  /\ UNCHANGED <<now, electorateVars, proposalVars, guardian>>

Unfreeze(approvers) ==
  /\ Cosigned(approvers)
  /\ frozen' = FALSE
  /\ UNCHANGED <<now, electorateVars, proposalVars, guardian>>

SetGuardian(approvers, a) ==
  /\ Cosigned(approvers)
  /\ guardian' = a
  /\ UNCHANGED <<now, electorateVars, proposalVars, frozen>>

=============================================================================
