------------------------------ MODULE Dialogs ------------------------------
(***************************************************************************)
(* The console's dialogs that make proposals: what each one accepts, the   *)
(* steps from the fields over the preview to the submission, and the       *)
(* answers that come back after the user went on.  What can be typed is a  *)
(* table of drafts; a dialog holds the key of one.                         *)
(***************************************************************************)
EXTENDS ConsoleAccounts, Integers, FiniteSets

CONSTANTS
  Address,      \* the texts that are well-formed addresses
  Owners,       \* the owners, which some dialogs are given and some read
  Threshold,    \* their threshold
  Drafts,       \* function: key -> the fields of a dialog
  Menus,        \* sets of keys, one of which the user draws from
  MaxSent,      \* bound on the submissions
  DayLength,    \* clock ticks of a day
  Zones,        \* local time minus UTC, in ticks
  MaxTime,      \* bound on the clock
  MaxDays,      \* the farthest deadline, 90 days
  MaxOwners,    \* 20
  MaxWeight,    \* 100,000
  MinInterval,  \* the interval a modification needs, 60 seconds
  MaxInterval   \* a year

ASSUME DialogsAssumption ==
  /\ DayLength \in Nat \ {0}
  /\ Zones \subseteq -DayLength..DayLength
  /\ MaxTime \in Nat
  /\ Wallets \union Owners \subseteq Address

VARIABLES
  menu,        \* the drafts of this user
  wallet,      \* the connected account
  now,         \* the clock
  zone,        \* the user's time zone
  step,        \* "closed", "type", "form", "preview", "confirm"
  draft,       \* key of what the fields hold
  reviewed,    \* key of what the preview step was entered with
  ownersRead,       \* the owners that the open dialog has read
  previews,    \* keys of the simulations under way
  simulated,   \* key that the shown fee and balances are for
  previewing,  \* previewLoading
  refused,     \* previewFeeError
  submitting,  \* the button waits for its submission
  calls,       \* submissions in flight
  sent,        \* the latest submission
  count        \* submissions so far

userVars == <<menu, wallet, now, zone>>
fieldVars == <<step, draft, reviewed, ownersRead>>
previewVars == <<previews, simulated, previewing, refused>>
sentVars == <<submitting, calls, sent, count>>
dialogVars == <<userVars, fieldVars, previewVars, sentVars>>

(***************************************************************************)
(* What the dialogs accept.  A draft d is judged when its button is        *)
(* pressed, by the wallet w.                                               *)
(***************************************************************************)

\* The last midnight on the user's clock.
Midnight == ((now + zone) \div DayLength) * DayLength - zone

\* A date stands for midnight UTC of its day.
At(day) == day * DayLength

ValidDeadline(d) ==
  /\ At(d.deadline) > Midnight
  /\ At(d.deadline) <= now + MaxDays * DayLength

TransferOk(d) ==
  d.target \in Address /\ d.amount > 0 /\ d.said /\ ValidDeadline(d)

AddOwnerOk(d) == d.target \in Address /\ d.said /\ ValidDeadline(d)

RemoveOwnerOk(d) == d.target \in ownersRead /\ d.said /\ ValidDeadline(d)

\* Until the owners are read the dialog takes it that there is one.
ThresholdOk(d) ==
  /\ d.amount \in 1..(IF ownersRead = {} THEN 1 ELSE Cardinality(ownersRead))
  /\ d.said /\ ValidDeadline(d)

OwnerWeightOk(d) ==
  d.target \in ownersRead /\ d.amount \in 1..MaxWeight /\ d.said /\ ValidDeadline(d)

\* The same dialog's other component, which can submit only what it has read.
WeightOk(d) == OwnerWeightOk(d)

\* Optional dates and the cap may be None; vesting needs its end.
RecurringOk(d) ==
  /\ d.target \in Address
  /\ d.amount > 0
  /\ d.interval \in 1..MaxInterval
  /\ d.end # None => d.end > d.start
  /\ d.cliff # None /\ d.end # None => d.cliff <= d.end
  /\ d.cap # None => d.cap >= d.amount
  /\ d.vesting => d.end # None

ModifyOk(d) == d.amount > 0 /\ d.interval \in MinInterval..MaxInterval

RoleOk(d, w) ==
  /\ w \in Owners
  /\ d.target \in Address /\ d.said /\ ValidDeadline(d)
  /\ IF d.grant
       THEN d.target \notin Owners /\ Cardinality(Owners) < MaxOwners
       ELSE d.target \in Owners /\ Cardinality(Owners) > Threshold

\* Without an expiry the delegation lasts a year.
DelegateOk(d) ==
  d.target \in Owners /\ (d.deadline # None => At(d.deadline) > now)

\* What the fields must satisfy for dialog d.form to go on.
Accepted(d, w) ==
  /\ w # None
  /\ CASE d.form = "transfer" -> TransferOk(d)
       [] d.form = "add_owner" -> AddOwnerOk(d)
       [] d.form = "remove_owner" -> RemoveOwnerOk(d)
       [] d.form = "change_threshold" -> ThresholdOk(d)
       [] d.form = "change_owner_weight" -> OwnerWeightOk(d)
       [] d.form = "recurring" -> RecurringOk(d)
       [] d.form = "modify" -> ModifyOk(d)
       [] d.form = "role" -> RoleOk(d, w)
       [] d.form = "weight" -> WeightOk(d)
       [] d.form = "delegate" -> DelegateOk(d)
       [] OTHER -> TRUE

\* The deadline that pausing, resuming, cancelling and modifying send: the
\* days are cut to 1..90, and 7 are taken for what is not a number.
Days(n) == IF n = None \/ n = 0 THEN 7 ELSE IF n < 1 THEN 1 ELSE IF n > MaxDays THEN MaxDays ELSE n

\* When a submission sent at time t lets the vote end; None without a vote.
EndsAt(d, t) ==
  CASE d.form = "recurring" -> None
    [] d.form \in {"pause", "resume", "cancel", "modify"} -> t + Days(d.deadline) * DayLength
    [] d.form = "delegate" /\ d.deadline = None -> t + 365 * DayLength
    [] OTHER -> At(d.deadline)

(***************************************************************************)
(* The steps of a dialog.                                                  *)
(***************************************************************************)
ProposalForms ==
  {"transfer", "add_owner", "remove_owner", "change_threshold", "change_owner_weight"}

\* Their forms; these hold a date.
Dated == ProposalForms \union {"role", "weight"}
Forms == Dated \union {"recurring", "modify", "pause", "resume", "cancel", "delegate"}

ASSUME DraftsAssumption ==
  /\ MaxDays \in Nat \ {0}
  /\ \A k \in UNION Menus :
       /\ k # None /\ Drafts[k].form \in Forms
       /\ Drafts[k].deadline = None => Drafts[k].form \notin Dated
       /\ Drafts[k].deadline \in Int \union {None}

Form(k) == Drafts[k].form
Shows(forms) == step # "closed" /\ Form(draft) \in forms
Simulates(k) == Form(k) \in {"transfer", "recurring"}

\* Dialogs of one component share its open flag.
Component(k) == IF Form(k) \in ProposalForms THEN "proposal" ELSE Form(k)

DialogsInit ==
  /\ menu \in Menus
  /\ wallet \in Wallets \union {None}
  /\ now = 0
  /\ zone \in Zones
  /\ step = "closed"
  /\ draft = None /\ reviewed = None /\ simulated = None /\ ownersRead = {}
  /\ previews = {} /\ calls = {}
  /\ previewing = FALSE /\ refused = FALSE /\ submitting = FALSE
  /\ sent = None
  /\ count = 0

Open(k) ==
  /\ step = "closed"
  /\ step' = IF Form(k) \in ProposalForms THEN "type" ELSE "form"
  /\ draft' = k
  /\ UNCHANGED <<userVars, reviewed, ownersRead, previewVars, sentVars>>

ChooseForm(k) ==
  /\ step = "type" /\ Form(k) \in ProposalForms
  /\ step' = "form"
  /\ draft' = k
  /\ UNCHANGED <<userVars, reviewed, ownersRead, previewVars, sentVars>>

EditAnywhere(k) ==
  /\ step \in {"form", "preview"} /\ Form(k) = Form(draft)
  /\ draft' = k
  /\ UNCHANGED <<userVars, step, reviewed, ownersRead, previewVars, sentVars>>

Edit(k) ==
  /\ step = "form" /\ Form(k) = Form(draft)
  /\ draft' = k
  /\ UNCHANGED <<userVars, step, reviewed, ownersRead, previewVars, sentVars>>

\* Dialogs that need the owners read them when they open; what a failed read
\* leaves out stays unknown.
ReadOwners ==
  /\ ownersRead' = Owners
  /\ UNCHANGED <<userVars, step, draft, reviewed, previewVars, sentVars>>

LoadData == Shows(ProposalForms) /\ ReadOwners

LoadOwners == Shows({"weight"}) /\ ReadOwners

\* The fields are judged, and the preview shows them.
EnterPreview ==
  /\ step = "form" /\ ~submitting
  /\ Accepted(Drafts[draft], wallet)
  /\ step' = "preview"
  /\ reviewed' = draft

\* The preview of a payment asks for a simulation and forgets the last one.
RunPreview ==
  /\ previews' = previews \union {draft}
  /\ simulated' = None
  /\ previewing' = TRUE
  /\ refused' = FALSE

Review ==
  /\ Shows(ProposalForms) /\ EnterPreview
  /\ IF Simulates(draft) THEN RunPreview ELSE UNCHANGED previewVars
  /\ UNCHANGED <<userVars, draft, ownersRead, sentVars>>

ReviewRecurring ==
  /\ Shows({"recurring"}) /\ EnterPreview /\ RunPreview
  /\ UNCHANGED <<userVars, draft, ownersRead, sentVars>>

\* Whichever simulation answers fills the preview and ends the waiting.
Simulated(k) ==
  /\ k \in previews
  /\ previews' = previews \ {k}
  /\ simulated' = k
  /\ previewing' = FALSE
  /\ refused' \in BOOLEAN
  /\ UNCHANGED <<userVars, fieldVars, sentVars>>

Back ==
  /\ ~submitting
  /\ \/ step \in {"preview", "confirm"} /\ step' = "form"
     \/ step = "form" /\ Form(draft) \in ProposalForms /\ step' = "type"
  /\ UNCHANGED <<userVars, draft, reviewed, ownersRead, previewVars, sentVars>>

Send(k) ==
  /\ count < MaxSent
  /\ count' = count + 1
  /\ submitting' = TRUE
  /\ calls' = calls \union {[draft |-> k, mine |-> TRUE]}
  /\ sent' = [draft |-> k, reviewed |-> reviewed, simulated |-> simulated, at |-> now]

\* A payment's button also waits for its simulation, and to hear that it can be made.
Confirmable ==
  ~submitting /\ wallet # None /\ (Simulates(draft) => ~previewing /\ ~refused)

\* A change of weight is confirmed once more.
AskAgain ==
  /\ step = "preview" /\ Form(draft) = "change_owner_weight" /\ Confirmable
  /\ step' = "confirm"
  /\ UNCHANGED <<userVars, draft, reviewed, ownersRead, previewVars, sentVars>>

\* A proposal is validated again with the fields as they are now.
ConfirmProposal ==
  /\ step \in {"preview", "confirm"}
  /\ Shows(ProposalForms) /\ Confirmable
  /\ step = IF Form(draft) = "change_owner_weight" THEN "confirm" ELSE "preview"
  /\ Accepted(Drafts[draft], wallet)
  /\ Send(draft)
  /\ UNCHANGED <<userVars, fieldVars, previewVars>>

\* A recurring payment is sent as it was when it was reviewed.
ConfirmRecurring ==
  /\ step = "preview" /\ Form(draft) = "recurring" /\ Confirmable
  /\ Send(reviewed)
  /\ UNCHANGED <<userVars, fieldVars, previewVars>>

\* The other dialogs submit from their only step.
SubmitForm ==
  /\ step = "form" /\ ~submitting
  /\ Form(draft) \notin ProposalForms \union {"recurring"}
  /\ Accepted(Drafts[draft], wallet)
  /\ Send(draft)
  /\ UNCHANGED <<userVars, fieldVars, previewVars>>

\* A dialog that is closed forgets its fields; what it waited for goes on.
Leave(others) ==
  /\ step' = "closed"
  /\ draft' = None /\ reviewed' = None /\ simulated' = None /\ ownersRead' = {}
  /\ previews' = {}
  /\ previewing' = FALSE /\ refused' = FALSE /\ submitting' = FALSE
  /\ calls' = {[c EXCEPT !.mine = FALSE] : c \in others}

\* Success closes the component's dialog, be it the one that submitted or
\* one opened since; failure leaves it open for another try.
CallEnds(c, ok) ==
  /\ c \in calls
  /\ IF ok /\ step # "closed" /\ Component(c.draft) = Component(draft)
       THEN Leave(calls \ {c})
       ELSE /\ calls' = calls \ {c}
            /\ submitting' = (submitting /\ ~c.mine)
            /\ UNCHANGED <<fieldVars, previewVars>>
  /\ UNCHANGED <<userVars, sent, count>>

\* Escape and the cross work while a submission is under way.
Close ==
  /\ step # "closed"
  /\ Leave(calls)
  /\ UNCHANGED <<userVars, sent, count>>

ChangeWallet(w) ==
  /\ w # wallet
  /\ wallet' = w
  /\ UNCHANGED <<menu, now, zone, fieldVars, previewVars, sentVars>>

PassTime ==
  /\ now < MaxTime
  /\ now' = now + 1
  /\ UNCHANGED <<menu, wallet, zone, fieldVars, previewVars, sentVars>>

(***************************************************************************)
(* The components: what the user of each can do while it is on the screen. *)
(***************************************************************************)
ProposalSteps ==
  LoadData \/ Review \/ AskAgain \/ ConfirmProposal
    \/ (Shows(ProposalForms) /\ Back)

ProposalForm(k) ==
  Form(k) \in ProposalForms /\ (Open(k) \/ ChooseForm(k) \/ Edit(k))

RecurringForm(k) == Form(k) = "recurring" /\ (Open(k) \/ Edit(k))

RecurringPreview == ConfirmRecurring \/ (Shows({"recurring"}) /\ Back)

\* The dialogs of one step: fields and a button.
Modal(form, k) ==
  Form(k) = form /\ (Open(k) \/ Edit(k) \/ (draft = k /\ SubmitForm))

GrantRevokeRoleModal(k) == Modal("role", k)
CreateWeightChangeProposalModal(k) == Modal("weight", k)
DelegateModal(k) == Modal("delegate", k)
PauseRecurringModal(k) == Modal("pause", k)
ResumeRecurringModal(k) == Modal("resume", k)
CancelRecurringModal(k) == Modal("cancel", k)
ModifyRecurringModal(k) == Modal("modify", k)

DialogsNext ==
  \/ \E k \in menu :
       \/ ProposalForm(k)
       \/ RecurringForm(k)
       \/ GrantRevokeRoleModal(k)
       \/ CreateWeightChangeProposalModal(k)
       \/ DelegateModal(k)
       \/ PauseRecurringModal(k)
       \/ ResumeRecurringModal(k)
       \/ CancelRecurringModal(k)
       \/ ModifyRecurringModal(k)
       \/ Simulated(k)
  \/ ProposalSteps
  \/ ReviewRecurring
  \/ RecurringPreview
  \/ LoadOwners
  \/ \E c \in calls, ok \in BOOLEAN : CallEnds(c, ok)
  \/ Close
  \/ \E w \in Wallets \union {None} : ChangeWallet(w)
  \/ PassTime

DialogsSpec == DialogsInit /\ [][DialogsNext]_dialogVars

(***************************************************************************)
(* Properties.                                                             *)
(***************************************************************************)

(* What a dialog with a preview sends is what the preview was entered with,*)
(* a simulation having answered since, and the deadline it sends is still  *)
(* ahead, however often the user went back, whatever answered meanwhile    *)
(* and however long the preview stayed open (CreateProposalModal.tsx:      *)
(* 105-114, 492-567; CreateRecurringPaymentModal.tsx:353-389).  The        *)
(* deadline holds where the clock is at UTC: elsewhere a date that has     *)
(* begun in UTC can still be accepted.                                     *)
SentAsReviewed ==
  sent # None =>
    /\ Form(sent.draft) \in ProposalForms \union {"recurring"} => sent.draft = sent.reviewed
    /\ Simulates(sent.draft) => sent.simulated # None
    /\ zone = 0 /\ EndsAt(Drafts[sent.draft], sent.at) # None
         => EndsAt(Drafts[sent.draft], sent.at) > sent.at
=============================================================================
