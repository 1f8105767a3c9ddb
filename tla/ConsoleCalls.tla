------------------------------- MODULE ConsoleCalls -------------------------------
(* The web console's calls of the contract, frontend/src/lib/contract.ts (reads)  *)
(* and submit.ts (writes): the arguments each sends, how a read understands the   *)
(* answer, and what it reports instead when the read fails. The console validates *)
(* in its forms, not here.                                                       *)
EXTENDS ContractInterface

(* The forms a read maps to its result; of other forms it makes zeros or nothing.  *)
(* An owner's delegations are taken to hold one outgoing delegation at most, where *)
(* the contract answers with a list.                                              *)
Mappers == [number |-> {"number", "number?"}, flag |-> {"flag"}, list |-> {"addresses"},
            roles |-> {"roles"}, weights |-> {"weights"}, text |-> {"address?"},
            ownDelegations |-> {"OneOutgoing"}, delegations |-> {"delegations"},
            proposal |-> {"Proposal"}, proposals |-> {"proposals"},
            schedule |-> {"RecurringPayment"}, schedules |-> {"schedules"}, triple |-> {"triple"}]

(* The fields each takes from a record, and the names each knows of an enum's      *)
(* variants; of others it makes a default, or drops them.                          *)
mapProposal == {"id", "kind", "description", "approvals", "quorum_weight", "approval_weight",
                "status", "deadline", "proposer"}
mapRecurringPayment ==
  {"id", "proposer", "recipient", "token", "amount", "interval_secs", "start_time", "end_time",
   "cliff_time", "total_cap", "total_disbursed", "last_disbursed_at", "status", "kind",
   "category", "description"}
mapDelegation == {"delegator", "delegate", "weight", "expiry"}
mapCategory      == {"Transfer", "Payroll", "Grant", "Ops", "Other"}
mapRole          == {"Owner", "Viewer", "Guardian", "SpendingLimit", "Proposer", "Approver", "Executor"}
mapRecurringKind == {"LinearVesting", "ContinuousStream", "FixedAmountPerPeriod"}

(* The kinds of proposals a card knows; any other is shown as a transfer of 0 to     *)
(* nobody. The copy in submit.ts knows no roles.                                   *)
mapKindDetails == {"Transfer", "AddOwner", "RemoveOwner", "ChangeThreshold", "SetSpendingLimit",
                   "ChangeOwnerWeight", "GrantRole", "RevokeRole"}
SubmitKindDetails == mapKindDetails \ {"GrantRole", "RevokeRole"}

FieldsRead(reader) ==
  CASE reader \in {"proposal", "proposals"} -> mapProposal
    [] reader \in {"schedule", "schedules"} -> mapRecurringPayment
    [] reader = "delegations" -> mapDelegation
    [] reader = "weights" -> {"owner", "weight"}
    [] OTHER -> {}
NamesKnown(reader) ==
  CASE reader \in {"proposal", "proposals"} -> Known(ProposalKinds, mapKindDetails)
    [] reader \in {"schedule", "schedules"} ->
         Known(ProposalCategories, mapCategory) /\ Known(RecurringKinds, mapRecurringKind)
    [] reader = "roles" -> Known(Roles, mapRole)
    [] OTHER -> TRUE

MapsAnswer(reader, answer) ==
  /\ answer \in Mappers[reader]
  /\ FieldsRead(reader) \subseteq FieldsOf[RecordIn(answer)]
  /\ NamesKnown(reader)

(* Does a card say what kind of proposal is voted on?                              *)
ShowsKind(details, kind) == FirstKey(kind) \in details

View(f, args, reader, fallback) ==
  [kind |-> "read", fn |-> f, sends |-> args, checks |-> {}, decoder |-> reader, fallback |-> fallback]

(* contract.ts: delegations and roles.                                            *)
RoleSymbol == "symbol"
RoleViews ==
  [getDelegations       |-> View("get_delegations", <<"address">>, "ownDelegations", "none"),
   getActiveDelegations |-> View("get_active_delegations", <<>>, "delegations", "none"),
   getRoleVersion       |-> View("get_role_version", <<>>, "number", "0"),
   getAllRoles          |-> View("get_roles", <<>>, "roles", "none"),
   getRoles             |-> View("get_roles", <<"address">>, "roles", "Owner of owners"),
   hasRole              |-> View("has_role", <<"address", RoleSymbol>>, "flag", "FALSE"),
   getRoleMembers       |-> View("get_role_members", <<RoleSymbol>>, "list", "none")]

WeightViews ==
  [getOwnerWeight          |-> View("get_owner_weight", <<"address">>, "number", "0"),
   getOwners               |-> View("get_owners", <<>>, "list", "throws"),
   getOwnerWeights         |-> View("get_owner_weights", <<>>, "weights", "none"),
   getTotalWeight          |-> View("get_total_weight", <<>>, "number", "0"),
   getRequiredQuorumWeight |-> View("get_required_quorum_weight", <<>>, "number", "getThreshold"),
   getWeightCapPct         |-> View("get_weight_cap_pct", <<>>, "number", "50")]

LimitAndPageViews ==
  [getThreshold      |-> View("get_threshold", <<>>, "number", "throws"),
   getSpendingLimit  |-> View("get_spending_limit", <<"address", "address">>, "number", "-1"),
   getTotalProposals |-> View("get_total_proposals", <<>>, "number", "throws"),
   getProposalsPaged |-> View("get_proposals_paged", <<"u64", "u32">>, "proposals", "throws")]

ScheduleViews ==
  [getRecurringPayment       |-> View("get_recurring_payment", <<"u64">>, "schedule", "throws"),
   getRecurringPaymentsPaged |-> View("get_recurring_payments_paged", <<"u64", "u32">>, "schedules", "throws"),
   getClaimableAmount        |-> View("get_claimable_amount", <<"u64">>, "number", "throws"),
   getNextDisbursementTime   |-> View("get_next_disbursement_time", <<"u64">>, "number", "throws")]

ProposalViews ==
  [getProposal                 |-> View("get_proposal", <<"u64">>, "proposal", "throws"),
   getProposalApprovalProgress |-> View("get_proposal_approval_progress", <<"u64">>, "triple", "throws"),
   hasApproved                 |-> View("has_approved", <<"address", "u64">>, "flag", "throws")]

(* getApprovers asks hasApproved of every owner; getDueRecurring filters           *)
(* getRecurringPayments.                                                          *)
StatusViews ==
  [getGuardian               |-> View("get_guardian", <<>>, "text", "Unknown"),
   isFrozen                  |-> View("is_frozen", <<>>, "flag", "FALSE"),
   getApprovers              |-> View("has_approved", <<"address", "u64">>, "flag", "none")]
ScheduleListViews ==
  [getRecurringPayments      |-> View("get_recurring_payments", <<>>, "schedules", "none"),
   getTotalRecurringPayments |-> View("get_total_recurring_payments", <<>>, "number", "0")]

-----------------------------------------------------------------------------
(* submit.ts.                                                                    *)

Send(f, args) == [kind |-> "write", fn |-> f, sends |-> args, checks |-> {},
                  decoder |-> "none", fallback |-> "throws"]

\* Mutant of ProposalCategoryScVal: the bare symbol.
CategoryAsSymbol == "symbol"

ProposalCategoryScVal == "variant"
KindScVal             == "variant"

ProposalSends ==
  [approveProposal     |-> Send("approve", <<"address", "u64">>),
   executeProposal     |-> Send("execute", <<"address", "u64">>),
   revokeProposal      |-> Send("revoke", <<"address", "u64">>),
   disburseRecurring   |-> Send("disburse_recurring", <<"address", "u64">>),
   createBatchProposal |-> Send("create_proposal",
                                <<"address", "transfers">> \o ProposalEnd \o <<ProposalCategoryScVal>>),
   createDelegation    |-> Send("create_delegation", <<"address", "address", "u32", "u64">>),
   createSpendingLimitProposal |->
     Send("create_set_spending_limit_proposal", <<"address", "address", "address", "i128">> \o ProposalEnd)]

GuardianSends ==
  [freeze                    |-> Send("freeze", <<"address">>),
   createSetGuardianProposal |-> Send("create_set_guardian_proposal", <<"address", "address">> \o ProposalEnd),
   createUnfreezeProposal    |-> Send("create_unfreeze_proposal", <<"address">> \o ProposalEnd)]

RecurringPaymentArgs ==
  <<"address", "address", "i128", "address", "u64", "u64", "u64?", "u64?", "i128?",
    ProposalCategoryScVal, KindScVal>>

RoleSends ==
  [createGrantRoleProposal  |-> Send("create_grant_role_proposal",
                                     <<"address", "address", "symbol">> \o ProposalEnd),
   createRevokeRoleProposal |-> Send("create_revoke_role_proposal",
                                     <<"address", "address", "symbol">> \o ProposalEnd),
   createRecurringPaymentProposal |-> Send("create_recurring_payment", RecurringPaymentArgs)]

ScheduleSends ==
  [disburseRecurringPayment |-> Send("disburse_recurring", <<"u64">>),
   claimStream              |-> Send("claim_stream", <<"address", "u64">>),
   createCancelRecurringProposal |->
     Send("create_cancel_recurring_proposal", <<"address", "u64">> \o ProposalEnd),
   createPauseRecurringProposal  |->
     Send("create_pause_recurring_proposal", <<"address", "u64">> \o ProposalEnd),
   createResumeRecurringProposal |->
     Send("create_resume_recurring_proposal", <<"address", "u64">> \o ProposalEnd),
   createModifyRecurringProposal |->
     Send("create_modify_recurring_proposal", <<"address", "u64", "i128?", "u64?">> \o ProposalEnd)]

GovernanceSends ==
  [createAddOwnerProposal        |-> Send("create_add_owner_proposal", <<"address", "address">> \o ProposalEnd),
   createRemoveOwnerProposal     |-> Send("create_remove_owner_proposal", <<"address", "address">> \o ProposalEnd),
   createChangeThresholdProposal |-> Send("create_change_threshold_proposal", <<"address", "u32">> \o ProposalEnd),
   createChangeOwnerWeightProposal |->
     Send("create_change_weight_proposal", <<"address", "address", "u32">> \o ProposalEnd)]

(* The fee estimates simulate the same calls without sending them.                *)
Estimates ==
  [estimateCreateProposalFee |-> [ProposalSends.createBatchProposal EXCEPT !.kind = "estimate"],
   estimateCreateRecurringPaymentFee |->
     [RoleSends.createRecurringPaymentProposal EXCEPT !.kind = "estimate"]]

ConsoleTables ==
  {RoleViews, WeightViews, LimitAndPageViews, ScheduleViews, ProposalViews, StatusViews,
   ScheduleListViews, ProposalSends, GuardianSends, RoleSends, ScheduleSends, GovernanceSends, Estimates}
=============================================================================
