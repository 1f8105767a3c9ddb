-------------------------------- MODULE SdkClient --------------------------------
(* The SDK, packages/sdk/src: what each method of AccordClient validates, sends   *)
(* and makes of the answer. The steps of a call are in module Submission.         *)
EXTENDS ContractInterface, FiniteSets

-----------------------------------------------------------------------------
(* conversion.ts.                                                                *)

(* The wire form each encoder produces. Category, role and kind are unit variants *)
(* in the contract; the encoders send their bare symbol.                          *)
Encoders == [category |-> "symbol", role |-> "symbol",
             transfers |-> "transfers", assetTransfers |-> "assetTransfers",
             recurringParams |-> "CreateRecurringParams", modifyParams |-> "ModifyRecurringParams",
             ownerWeights |-> "OwnerWeights", hash |-> "bytes32", optionalHash |-> "bytes32?"]

CategoryToScVal == Encoders.category
RoleToScVal     == Encoders.role

(* The forms each decoder understands; it makes zeros, empty lists or nothing of  *)
(* any other. A record of either sort shows the category among its enums.          *)
Decoders == [number |-> {"number"}, optionalNumber |-> {"number?"}, flag |-> {"flag"},
             list |-> {"addresses", "roles"}, optionalAddress |-> {"address?"},
             delegationInfo |-> {"DelegationInfo"}, weights |-> {"weights"}, limits |-> {"limits"},
             tracker |-> {"SpentTracker"}, progress |-> {"Progress"}]
RecordDecoders == [proposal |-> {"Proposal"}, proposals |-> {"proposals"},
                   schedule |-> {"RecurringPayment"}, schedules |-> {"schedules"}]

Understands(d, answer) ==
  IF d \in DOMAIN Decoders THEN answer \in Decoders[d]
  ELSE answer \in RecordDecoders[d] /\ Known(ProposalCategories, ProposalCategories)

-----------------------------------------------------------------------------
(* client.ts: the views.                                                         *)

(* Views validate every address they are given, and nothing else.                 *)
Read(f, args, decoder) ==
  [kind |-> "read", fn |-> f, sends |-> args, decoder |-> decoder, fallback |-> "throws",
   checks |-> IF \E i \in DOMAIN args: args[i] = "address" THEN {"address"} ELSE {}]

ProposalReads ==
  [getProposal              |-> Read("get_proposal", <<"u64">>, "proposal"),
   getProposalsPaged        |-> Read("get_proposals_paged", <<"u64", "u32">>, "proposals"),
   getOwners                |-> Read("get_owners", <<>>, "list"),
   getThreshold             |-> Read("get_threshold", <<>>, "number"),
   getRequiredQuorumWeight  |-> Read("get_required_quorum_weight", <<>>, "number"),
   getTotalWeight           |-> Read("get_total_weight", <<>>, "number"),
   getOwnerWeight           |-> Read("get_owner_weight", <<"address">>, "number"),
   getOwnerWeights          |-> Read("get_owner_weights", <<>>, "weights"),
   getMaxSingleOwnerWeightPct |-> Read("get_max_single_owner_weight_pct", <<>>, "number"),
   getEffectiveWeight       |-> Read("get_effective_weight", <<"address">>, "number"),
   getDelegations           |-> Read("get_delegations", <<"address">>, "delegationInfo"),
   getActiveDelegations     |-> Read("get_active_delegations", <<>>, "delegationInfo"),
   isOwner                  |-> Read("is_owner", <<"address">>, "flag"),
   hasApproved              |-> Read("has_approved", <<"u64", "address">>, "flag"),
   getProposalApprovalProgress |-> Read("get_proposal_approval_progress", <<"u64">>, "progress"),
   getApprovers             |-> Read("get_approvers", <<"u64">>, "list")]

ContractReads ==
  [getTimeLockDelay         |-> Read("get_time_lock_delay", <<>>, "number"),
   getTotalProposals        |-> Read("get_total_proposals", <<>>, "number"),
   getVersion               |-> Read("get_version", <<>>, "number"),
   getStorageVersion        |-> Read("get_storage_version", <<>>, "number"),
   getRoleVersion           |-> Read("get_role_version", <<>>, "number"),
   isGovernanceMigrated     |-> Read("is_governance_migrated", <<>>, "flag"),
   getRoles                 |-> Read("get_roles", <<"address">>, "list"),
   hasRole                  |-> Read("has_role", <<"address", RoleToScVal>>, "flag"),
   getRoleMembers           |-> Read("get_role_members", <<RoleToScVal>>, "list"),
   getSpendingLimit         |-> Read("get_spending_limit", <<"address", "address">>, "optionalNumber"),
   getOwnerSpendingLimits   |-> Read("get_owner_spending_limits", <<"address">>, "limits"),
   getRemainingSpendingLimit |-> Read("get_remaining_spending_limit", <<"address", "address">>, "optionalNumber"),
   getSpendingWindow        |-> Read("get_spending_window", <<"address", "address">>, "number"),
   getSpentTracker          |-> Read("get_spent_tracker", <<"address", "address">>, "tracker"),
   getClassicAsset          |-> Read("get_classic_asset", <<"symbol">>, "optionalAddress"),
   getGuardian              |-> Read("get_guardian", <<>>, "optionalAddress"),
   isFrozen                 |-> Read("is_frozen", <<>>, "flag"),
   isInRecovery             |-> Read("is_in_recovery", <<>>, "flag"),
   getRecurringPayment      |-> Read("get_recurring_payment", <<"u64">>, "schedule"),
   getNextDisbursementTime  |-> Read("get_next_disbursement_time", <<"u64">>, "number"),
   getRecurringPaymentsPaged |-> Read("get_recurring_payments_paged", <<"u64", "u32">>, "schedules"),
   getActiveRecurringCount  |-> Read("get_active_recurring_count", <<>>, "number")]

-----------------------------------------------------------------------------
(* client.ts: the calls that change state.                                       *)

(* What a method validates, besides the address of the caller, before it sends    *)
(* its arguments.                                                                *)
Write(f, args, checks) ==
  [kind |-> "write", fn |-> f, sends |-> args, checks |-> checks \cup {"address"},
   decoder |-> "none", fallback |-> "throws"]

Texts       == {"description", "deadline"}
End         == ProposalEnd \o <<CategoryToScVal>>       \* every create method adds the category
Propose(f, args, checks) == Write(f, <<"address">> \o args \o End, checks \cup Texts)

Initialize == [initialize |-> Write("initialize", <<"addresses", "u32", "u64">>, {"number"})]

TransferWrites ==
  [createProposal      |-> Propose("create_proposal", <<Encoders.transfers>>, {"transfers"}),
   createProposalWithAttachment |->
     Write("create_proposal_with_attachment",
           <<"address", Encoders.transfers>> \o End \o <<Encoders.optionalHash>>, Texts),
   createAssetProposal |-> Propose("create_asset_proposal", <<Encoders.assetTransfers>>, {})]

OwnerWrites ==
  [createAddOwnerProposal        |-> Propose("create_add_owner_proposal", <<"address", "u32">>, {"number"}),
   createRemoveOwnerProposal     |-> Propose("create_remove_owner_proposal", <<"address">>, {}),
   createChangeThresholdProposal |-> Propose("create_change_threshold_proposal", <<"u32">>, {"number"}),
   createChangeWeightProposal    |-> Propose("create_change_weight_proposal", <<"address", "u32">>, {"number"}),
   createSpendingLimitProposal   |->
     Propose("create_spending_limit_proposal", <<"address", "address", "i128">>, {}),
   createSpendingWindowProposal  |->
     Propose("create_spending_window_proposal", <<"address", "address", "i128", "u64">>, {})]

ScheduleWrites ==
  [createRecurringProposal       |->
     Propose("create_recurring_proposal", <<Encoders.recurringParams>>, {"amount"}),
   createCancelRecurringProposal |-> Propose("create_cancel_recurring_proposal", <<"u64">>, {}),
   createPauseRecurringProposal  |-> Propose("create_pause_recurring_proposal", <<"u64">>, {}),
   createResumeRecurringProposal |-> Propose("create_resume_recurring_proposal", <<"u64">>, {}),
   createModifyRecurringProposal |->
     Propose("create_modify_recurring_proposal", <<Encoders.modifyParams>>, {})]

RoleWrites ==
  [createGrantRoleProposal  |-> Propose("create_grant_role_proposal", <<"address", RoleToScVal>>, {}),
   createRevokeRoleProposal |-> Propose("create_revoke_role_proposal", <<"address", RoleToScVal>>, {})]

ActionWrites ==
  [approve           |-> Write("approve", <<"address", "u64">>, {}),
   revoke            |-> Write("revoke", <<"address", "u64">>, {}),
   execute           |-> Write("execute", <<"address", "u64">>, {}),
   cancelExpired     |-> Write("cancel_expired", <<"address", "u64s">>, {}),
   disburseRecurring |-> Write("disburse_recurring", <<"address", "u64">>, {})]

(* A list of approvers is checked for duplicates; the first one is the caller.    *)
EmergencyWrites ==
  [setGuardian     |-> Write("set_guardian", <<"addresses", "address">>, {"approvers"}),
   freeze          |-> Write("freeze", <<"address">>, {}),
   unfreeze        |-> Write("unfreeze", <<"addresses">>, {"approvers"}),
   enterRecovery   |-> Write("enter_recovery", <<"address">>, {}),
   exitRecovery    |-> Write("exit_recovery", <<"addresses">>, {"approvers"}),
   setClassicAsset |-> Write("set_classic_asset", <<"addresses", "symbol", "address">>, {"approvers"})]
AdminWrites ==
  [setMaxSingleOwnerWeightPct |->
     Write("set_max_single_owner_weight_pct", <<"addresses", "u32">>, {"approvers", "number"}),
   upgrade         |-> Write("upgrade", <<"addresses", Encoders.hash>>, {"approvers"}),
   migrateToWeightedGovernance |->
     Write("migrate_to_weighted_governance", <<"addresses", Encoders.ownerWeights>>, {"approvers"}),
   migrateToRbac   |-> Write("migrate_to_rbac", <<"addresses">>, {"approvers"})]

SdkTables ==
  {ProposalReads, ContractReads, Initialize, TransferWrites, OwnerWrites, ScheduleWrites,
   RoleWrites, ActionWrites, EmergencyWrites, AdminWrites}

-----------------------------------------------------------------------------
(* validation.ts: an input is the set of its flaws, each in an argument of one of  *)
(* these forms; a method refuses, before any request, those it looks for. The      *)
(* deadline is only compared with zero, a threshold only with one.                 *)
Carries == [address |-> {"address"}, approvers |-> {"addresses"},
            transfers |-> {"transfers", "assetTransfers"},
            amount |-> {"i128", "CreateRecurringParams"}, number |-> {"u32"},
            description |-> {"string"}, deadline |-> {"string"}]
FlawsOf(method) == {f \in DOMAIN Carries: \E i \in DOMAIN method.sends: method.sends[i] \in Carries[f]}
Refuses(method, flaws) == method.checks \cap flaws # {}
=============================================================================
