------------------------------- MODULE MCTreasury -------------------------------
(* Small instances of Treasury for TLC. *)
EXTENDS SpendingHistory

CONSTANTS alice, xlm

\* A single owner carries every vote: the electorate is Governance's concern.
Sole == [x \in {alice} |-> 1]

Pay(n)      == [op |-> "Transfer", legs |-> <<[token |-> xlm, amount |-> n]>>]
PayTwice(n) == [op |-> "Transfer", legs |-> <<[token |-> xlm, amount |-> n],
                                              [token |-> xlm, amount |-> n]>>]
Hold(n, m, at) ==
  [op |-> "CreateEscrow", token |-> xlm, amount |-> n, mode |-> m, releaseAt |-> at]
Limit(n)     == [op |-> "SetSpendingLimit", owner |-> alice, token |-> xlm, limit |-> n]
Window(n, w) == [op |-> "SetSpendingLimitWindow", owner |-> alice, token |-> xlm,
                 limit |-> n, window |-> w]
Registry(b)  == [op |-> "SetAssetRegistryEnabled", enabled |-> b]
Admit        == [op |-> "AddApprovedToken", token |-> xlm]
Expel        == [op |-> "RemoveApprovedToken", token |-> xlm]

(* One deployment of the treasury: what is proposed, how often and for how    *)
(* long, and whether there is a guardian and money still comes in.           *)
Scene(kinds, n, time, guardians, income) ==
  [kinds |-> kinds, proposals |-> n, time |-> time,
   guardians |-> guardians, income |-> income]

EscrowScene ==
  Scene({Pay(1), PayTwice(1), Hold(2, "OwnerQuorumUntil", 2), Hold(1, "Deadline", 2)},
        2, 3, TRUE, TRUE)
PolicyScene ==
  Scene({Pay(1), Limit(2), Window(1, 1), Registry(TRUE), Admit, Expel}, 3, 2, FALSE, FALSE)
WindowScene == Scene({Pay(1), Window(1, 1)}, 4, 4, FALSE, FALSE)

BothScenes  == {EscrowScene, PolicyScene}
OnlyWindows == {WindowScene}

Kinds  == UNION {s.kinds : s \in BothScenes \cup OnlyWindows}

Funds(n) == {[t \in {xlm} |-> n]}
FundsOfThree == Funds(3)

CONSTANT Scenes
VARIABLE scene

SceneInit == HistoryInit /\ scene \in Scenes

SceneNext ==
  /\ HistoryNext
  /\ UNCHANGED scene
  /\ now' <= scene.time
  /\ Len(proposals') <= scene.proposals
  /\ \A i \in DOMAIN proposals' : proposals'[i].kind \in scene.kinds
  /\ scene.guardians \/ UNCHANGED guardian
  /\ scene.income \/ \A t \in Token : balance'[t] <= balance[t]

SceneSpec == SceneInit /\ [][SceneNext]_<<historyVars, scene>>

=============================================================================
