-------------------------------- MODULE MCClients --------------------------------
(* Small instances of Submission for TLC.                                        *)
EXTENDS Submission

OneClick == {CHOOSE c \in Clicks: TRUE}

(* One call of any method of either client, with any flaw of its input.           *)
Probe   == [clicks |-> OneClick, calls |-> Calls,
            flawed |-> TRUE, fail |-> FALSE, loseAnswers |-> FALSE]

(* Two clicks on the buttons of one account, and failures.                        *)
Session == [clicks |-> Clicks,
            calls  |-> {<<"console", "approveProposal">>, <<"console", "createBatchProposal">>},
            flawed |-> FALSE, fail |-> TRUE, loseAnswers |-> FALSE]
Cosign  == [Session EXCEPT !.clicks = OneClick, !.calls = {<<"cosign", "execute">>}]
Mixed   == [Session EXCEPT !.calls = {<<"sdk", "approve">>, <<"sdk", "isFrozen">>, <<"console", "isFrozen">>}]
LostAnswers == [Session EXCEPT !.calls = {<<"console", "createBatchProposal">>}, !.loseAnswers = TRUE]

AllDeployments == [probe |-> Probe, session |-> Session, cosign |-> Cosign, mixed |-> Mixed,
                   lostAnswers |-> LostAnswers]
=============================================================================
