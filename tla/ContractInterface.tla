---------------------------- MODULE ContractInterface ----------------------------
(* The functions the contract exports, contracts/accord/src/lib.rs, as a caller   *)
(* sees them: the form on the wire of each argument, in order, and of the answer. *)
(* The host refuses a call of a function that is not exported, with another       *)
(* number of arguments, or with an argument of another form. A unit variant of    *)
(* an enum ("variant") is a vector that holds its symbol, which a bare "symbol"   *)
(* is not; "?" marks an optional value.                                           *)
EXTENDS Sequences

NotExported == <<"not exported">>

ProposalEnd == <<"string", "u64">>            \* description, deadline

(* What the entrypoints that change state take.                                   *)
TakesWrite(f) ==
  CASE f = "initialize"                       -> <<"addresses", "u32s", "u32", "u64">>
    [] f \in {"migrate_to_weighted_governance", "migrate_to_rbac", "unfreeze", "exit_recovery"}
                                              -> <<"addresses">>
    [] f \in {"freeze", "enter_recovery"}     -> <<"address">>
    [] f = "set_guardian"                     -> <<"addresses", "address">>
    [] f = "set_classic_asset"                -> <<"addresses", "symbol", "address">>
    [] f = "set_max_single_owner_weight_pct"  -> <<"addresses", "u32">>
    [] f = "upgrade"                          -> <<"addresses", "bytes32">>
    [] f = "release_escrow"                   -> <<"addresses", "u64">>
    [] f \in {"approve", "approve_sponsored", "revoke", "cancel_proposal", "execute",
              "disburse_recurring", "claim_stream", "release_escrow_by_deadline",
              "refund_escrow", "cancel_recurring_schedule"}
                                              -> <<"address", "u64">>
    [] f \in {"cancel_expired", "sweep_expired"} -> <<"address", "u64s">>
    [] f = "create_proposal"                  -> <<"address", "transfers">> \o ProposalEnd \o <<"variant">>
    [] f = "create_asset_proposal"            -> <<"address", "assetTransfers">> \o ProposalEnd \o <<"variant">>
    [] f = "create_proposal_with_attachment"
         -> <<"address", "transfers">> \o ProposalEnd \o <<"variant", "bytes32?">>
    [] f \in {"create_add_owner_proposal", "create_change_weight_proposal"}
                                              -> <<"address", "address", "u32">> \o ProposalEnd
    [] f \in {"create_remove_owner_proposal", "create_approve_token_proposal",
              "create_unapprove_token_proposal", "create_change_guardian_proposal"}
                                              -> <<"address", "address">> \o ProposalEnd
    [] f = "create_change_threshold_proposal" -> <<"address", "u32">> \o ProposalEnd
    [] f = "create_asset_registry_proposal"   -> <<"address", "bool">> \o ProposalEnd
    [] f = "create_spending_limit_proposal"   -> <<"address", "address", "address", "i128">> \o ProposalEnd
    [] f = "create_spending_window_proposal"
         -> <<"address", "address", "address", "i128", "u64">> \o ProposalEnd
    [] f = "create_escrow_proposal"           -> <<"address", "EscrowParams">> \o ProposalEnd
    [] f = "create_recurring_proposal"
         -> <<"address", "address", "address", "i128", "u64", "u64", "u64", "u64", "i128",
              "variant">> \o ProposalEnd \o <<"variant">>
    [] f \in {"create_cancel_recurring_proposal", "create_pause_recurring_proposal",
              "create_resume_recurring_proposal"} -> <<"address", "u64">> \o ProposalEnd
    [] f = "create_modify_recurring_proposal"
         -> <<"address", "u64", "i128?", "u64?", "u64?">> \o ProposalEnd
    [] f \in {"create_grant_role_proposal", "create_revoke_role_proposal"}
                                              -> <<"address", "address", "symbol">> \o ProposalEnd
    [] OTHER                                  -> NotExported

(* What the views take, and the form of what they answer.                         *)
NumberViews  == {"get_active_recurring_count", "get_version", "get_storage_version",
                 "get_total_weight", "get_role_version", "get_max_single_owner_weight_pct",
                 "get_threshold", "get_required_quorum_weight", "get_time_lock_delay",
                 "get_total_proposals"}
FlagViews    == {"is_governance_migrated", "is_frozen", "is_in_recovery",
                 "get_asset_registry_enabled"}
PlainViews   == NumberViews \cup FlagViews
                \cup {"get_owners", "get_owner_weights", "get_active_delegations", "get_guardian"}
OwnerViews   == {"get_roles", "get_owner_weight", "get_delegations", "get_effective_weight",
                 "get_owner_spending_limits", "is_owner", "is_token_approved"}
IdViews      == {"get_recurring_payment", "get_next_disbursement_time", "get_approvers",
                 "get_proposal", "get_proposal_approval_progress", "get_escrow"}
LimitViews   == {"get_spent_tracker", "get_spending_limit", "get_remaining_spending_limit",
                 "get_spending_window"}
PagedViews   == {"get_recurring_payments_paged", "get_proposals_paged"}

TakesRead(f) ==
  CASE f \in PlainViews         -> <<>>
    [] f \in OwnerViews         -> <<"address">>
    [] f \in IdViews            -> <<"u64">>
    [] f \in LimitViews         -> <<"address", "address">>
    [] f \in PagedViews         -> <<"u64", "u32">>
    [] f = "has_role"           -> <<"address", "variant">>
    [] f = "get_role_members"   -> <<"variant">>
    [] f = "has_approved"       -> <<"u64", "address">>
    [] f = "get_classic_asset"  -> <<"symbol">>
    [] OTHER                    -> NotExported

Answers(f) ==
  CASE f \in NumberViews \cup {"get_owner_weight", "get_effective_weight", "get_spending_window",
                               "get_next_disbursement_time"} -> "number"
    [] f \in FlagViews \cup {"is_owner", "is_token_approved", "has_role", "has_approved"} -> "flag"
    [] f \in {"get_owners", "get_approvers", "get_role_members"} -> "addresses"
    [] f \in {"get_spending_limit", "get_remaining_spending_limit"} -> "number?"
    [] f \in {"get_guardian", "get_classic_asset"} -> "address?"
    [] f = "get_roles" -> "roles"
    [] f = "get_owner_weights" -> "weights"
    [] f = "get_owner_spending_limits" -> "limits"
    [] f = "get_active_delegations" -> "delegations"
    [] f = "get_delegations" -> "DelegationInfo"
    [] f = "get_proposals_paged" -> "proposals"
    [] f = "get_recurring_payments_paged" -> "schedules"
    [] f = "get_proposal" -> "Proposal"
    [] f = "get_recurring_payment" -> "RecurringPayment"
    [] f = "get_proposal_approval_progress" -> "Progress"
    [] f = "get_spent_tracker" -> "SpentTracker"
    [] OTHER -> "EscrowRecord"

(* The fields of the records in an answer, and the variants of its enums.          *)
FieldsOf ==
  [Proposal    |-> {"id", "proposer", "description", "deadline", "approvals", "approval_weight",
                    "status", "kind", "ready_at", "quorum_weight", "category", "attachment_hash"},
   RecurringPayment |->
     {"id", "proposer", "recipient", "token", "amount", "interval_secs", "start_time", "end_time",
      "cliff_time", "total_cap", "total_disbursed", "last_disbursed_at", "periods_disbursed",
      "status", "kind", "category", "description"},
   Delegation  |-> {"delegator", "delegate", "weight", "expiry"},
   OwnerWeight |-> {"owner", "weight"},
   None        |-> {}]
RecordIn(answer) ==
  CASE answer \in {"Proposal", "proposals"}          -> "Proposal"
    [] answer \in {"RecurringPayment", "schedules"}  -> "RecurringPayment"
    [] answer = "delegations"                        -> "Delegation"
    [] answer = "weights"                            -> "OwnerWeight"
    [] OTHER                                         -> "None"

Roles              == {"Proposer", "Approver", "Executor", "Viewer"}
ProposalCategories == {"Transfer", "Payroll", "Grant", "Ops", "Other"}
RecurringKinds     == {"FixedAmountPerPeriod", "LinearVesting", "ContinuousStream"}

ProposalStatuses   == {"Pending", "Ready", "Executed", "Expired", "Revoked", "Cancelled"}
ProposalKinds      ==
  {"Transfer", "AddOwner", "RemoveOwner", "ChangeThreshold", "ChangeOwnerWeight",
   "SetSpendingLimit", "SetSpendingLimitWindow", "CreateRecurringPayment",
   "CancelRecurringPayment", "PauseRecurringPayment", "ResumeRecurringPayment",
   "ModifyRecurringPayment", "GrantRole", "RevokeRole", "SetAssetRegistryEnabled",
   "AddApprovedToken", "RemoveApprovedToken", "TransferGuardian", "CreateEscrow"}

(* The name clients take for a variant: what they have decoded when it is a string, *)
(* else its first key. A variant is a vector that begins with its symbol, so it is  *)
(* decoded as an array, whose first key is its first index.                         *)
FirstKey(variant) == "0"
Known(variants, names) == {FirstKey(v): v \in variants} \subseteq names

(* The host decodes the arguments before the contract runs.                       *)
HostAccepts(f, kind, args) ==
  args = (IF kind = "read" THEN TakesRead(f) ELSE TakesWrite(f))
=============================================================================
