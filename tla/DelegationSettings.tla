------------------------- MODULE DelegationSettings -------------------------
(***************************************************************************)
(* The switch of the settings page that lets the server execute triggers:  *)
(* AutoExecuteTriggersCard of apps/web/app/settings/page.tsx over          *)
(* lib/delegated-execution/settings-state.ts and status.ts.  It attaches   *)
(* the server's signer to the wallet at Privy, after a prompt to the user, *)
(* and removes it; what the card shows is what the status route found out  *)
(* by asking Privy again.                                                  *)
(***************************************************************************)
EXTENDS NoValue, Naturals

CONSTANTS
  Polls,        \* status reads of a revocation before its time is over
  CardFaults    \* what may go wrong: "lookup", a wallet that Privy does not
                \* return; "prompt", an answer after the time for it

ASSUME CardAssumption == Polls \in Nat \ {0} /\ CardFaults \subseteq {"lookup", "prompt"}

VARIABLES
  signer,       \* the server's signer is attached to the wallet
  cardStatus,   \* what the card last read: granted, absent, failed
  cardStep,     \* where its handler is
  statusAnswer, \* the answer of the status route on its way
  pollsDone,    \* time of the revocation loop, in polls
  lastStatus,   \* its lastStatus is one of a signer that is attached
  revokeResult, \* its revokeResult.state
  strays,       \* calls to Privy that nobody waits for any more
  said          \* the last toast

cardVars == <<signer, cardStatus, cardStep, statusAnswer, pollsDone, lastStatus,
              revokeResult, strays, said>>

CardSteps == {"idle", "checking", "preflight", "prompt", "granted", "polling", "poll"}

\* `busy`.
cardBusy == cardStep \in {"preflight", "prompt", "granted", "polling", "poll"}

\* deriveAutoExecuteSettingsState: the switch is on.
grantActive == cardStatus = "granted"

CardInit ==
  /\ signer \in BOOLEAN
  /\ cardStatus = NOTHING /\ cardStep = "checking" /\ statusAnswer = NOTHING
  /\ pollsDone = 0 /\ lastStatus = FALSE /\ revokeResult = "none"
  /\ strays = {} /\ said = "nothing"

-----------------------------------------------------------------------------
(* The status route, and refreshStatus of the card.                        *)

\* resolvePrivyWallet settles both lookups: of a wallet that it could not look
\* up it reports no signers, in a status that is ok.
resolvePrivyWallet == (IF signer THEN {"granted"} ELSE {"absent"})
                        \cup (IF "lookup" \in CardFaults THEN {"absent"} ELSE {})

\* The route answers with an error when it has no user or no credentials, and
\* a call may fail.
ReadStatus ==
  /\ cardStep \in {"checking", "preflight", "granted", "polling"}
  /\ statusAnswer = NOTHING
  /\ statusAnswer' \in resolvePrivyWallet \cup {"failed"}
  /\ UNCHANGED <<signer, cardStatus, cardStep, pollsDone, lastStatus, revokeResult, strays, said>>

\* setStatus, in every step that reads it.
refreshStatus(step) ==
  /\ cardStep = step /\ statusAnswer # NOTHING
  /\ cardStatus' = statusAnswer /\ statusAnswer' = NOTHING

StatusChecked ==
  /\ refreshStatus("checking")
  /\ cardStep' = "idle"
  /\ UNCHANGED <<signer, pollsDone, lastStatus, revokeResult, strays, said>>

\* The button "Check".
CheckStatus ==
  /\ cardStep = "idle" /\ cardStep' = "checking"
  /\ UNCHANGED <<signer, cardStatus, statusAnswer, pollsDone, lastStatus, revokeResult, strays, said>>

-----------------------------------------------------------------------------
(* handleEnable.                                                           *)

HandleEnable ==
  /\ cardStep = "idle" /\ ~ grantActive
  /\ cardStep' = "preflight" /\ said' = "nothing"
  /\ UNCHANGED <<signer, cardStatus, statusAnswer, pollsDone, lastStatus, revokeResult, strays>>

Ends(toast) == cardStep' = "idle" /\ said' = toast

\* A server with a signer that this client was built without ends it; anything
\* else goes on to the prompt, a status that could not be read too.
PreflightRead ==
  /\ refreshStatus("preflight")
  /\ \/ statusAnswer # "failed" /\ Ends("error")
     \/ cardStep' = "prompt" /\ UNCHANGED said
  /\ UNCHANGED <<signer, pollsDone, lastStatus, revokeResult, strays>>

\* delegateWallet: the user approves; or an error: a wallet of another kind, a
\* refusal, a call that failed on either side of what it does.
PromptAnswered ==
  /\ cardStep = "prompt"
  /\ \/ signer' = TRUE /\ cardStep' = "granted" /\ UNCHANGED said
     \/ Ends("error") /\ signer' \in {signer, TRUE}
  /\ UNCHANGED <<cardStatus, statusAnswer, pollsDone, lastStatus, revokeResult, strays>>

\* withDelegatedAccessTimeout: the race is lost, the prompt is still open.
PromptTimesOut ==
  /\ cardStep = "prompt"
  /\ Ends("error")
  /\ strays' = strays \cup {"prompt"}
  /\ UNCHANGED <<signer, cardStatus, statusAnswer, pollsDone, lastStatus, revokeResult>>

Granted ==
  /\ refreshStatus("granted")
  /\ \/ statusAnswer = "granted" /\ Ends("enabled")
     \/ Ends("incomplete")
  /\ UNCHANGED <<signer, pollsDone, lastStatus, revokeResult, strays>>

-----------------------------------------------------------------------------
(* handleDisable: waitForDelegatedAccessRevocation.                        *)

HandleDisable ==
  /\ cardStep = "idle" /\ grantActive
  /\ cardStep' = "poll" /\ said' = "nothing"
  /\ pollsDone' = 0 /\ lastStatus' = FALSE
  /\ revokeResult' = "pending"
  /\ UNCHANGED <<signer, cardStatus, statusAnswer, strays>>

\* removeSigners.
RevokeAnswered ==
  /\ revokeResult = "pending"
  /\ \/ signer' = FALSE /\ revokeResult' = "fulfilled"
     \/ signer' \in {signer, FALSE} /\ revokeResult' = "rejected"
  /\ UNCHANGED <<cardStatus, cardStep, statusAnswer, pollsDone, lastStatus, strays, said>>

RevocationEnds(toast) ==
  /\ Ends(toast)
  /\ revokeResult' = "none"
  /\ strays' = strays \cup (IF revokeResult = "pending" THEN {"revoke"} ELSE {})

\* MutantNextPoll polls until the signer is gone.
MutantNextPoll ==
  /\ cardStep = "poll"
  /\ cardStep' = "polling"
  /\ UNCHANGED <<signer, cardStatus, statusAnswer, pollsDone, lastStatus, revokeResult, strays, said>>

\* The head of the loop: time is over, or the status is read once more.
NextPoll ==
  /\ cardStep = "poll"
  /\ IF pollsDone = Polls THEN RevocationEnds("error") /\ UNCHANGED pollsDone
     ELSE /\ cardStep' = "polling" /\ pollsDone' = pollsDone + 1
          /\ UNCHANGED <<said, revokeResult, strays>>
  /\ UNCHANGED <<signer, cardStatus, statusAnswer, lastStatus>>

\* Its body: the first status without the signer is success, whatever became
\* of the revocation; a failed read is forgiven while a read may still come.
Polled ==
  /\ refreshStatus("polling")
  /\ LET failed == statusAnswer = "failed" IN
     /\ lastStatus' = (lastStatus \/ ~ failed)
     /\ IF statusAnswer = "absent" THEN RevocationEnds("disabled")
        ELSE IF revokeResult = "rejected" \/ (revokeResult = "fulfilled" /\ ~ lastStatus')
             THEN RevocationEnds("error")
        ELSE cardStep' = "poll" /\ UNCHANGED <<said, revokeResult, strays>>
  /\ UNCHANGED <<signer, pollsDone>>

-----------------------------------------------------------------------------
\* An answer that nobody waits for still does at Privy what it says.
StrayAnswered(call) ==
  /\ call \in strays /\ strays' = strays \ {call}
  /\ call = "prompt" => "prompt" \in CardFaults
  /\ signer' \in {signer, call = "prompt"}
  /\ UNCHANGED <<cardStatus, cardStep, statusAnswer, pollsDone, lastStatus, revokeResult, said>>

CardNext ==
  \/ ReadStatus \/ StatusChecked \/ CheckStatus
  \/ HandleEnable \/ PreflightRead \/ PromptAnswered \/ PromptTimesOut \/ Granted
  \/ HandleDisable \/ RevokeAnswered \/ NextPoll \/ Polled
  \/ \E call \in strays : StrayAnswered(call)

\* The page's own steps and its timers, and the answers of the status route;
\* nothing is assumed of the user at the prompt, or of Privy.
CardSpec ==
  /\ CardInit /\ [][CardNext]_cardVars
  /\ WF_cardVars(ReadStatus)
  /\ WF_cardVars(StatusChecked \/ PreflightRead \/ Granted \/ NextPoll \/ Polled)
  /\ WF_cardVars(PromptTimesOut)

-----------------------------------------------------------------------------
CardTypeOK ==
  /\ signer \in BOOLEAN /\ lastStatus \in BOOLEAN
  /\ cardStatus \in {NOTHING, "granted", "absent", "failed"}
  /\ statusAnswer \in {NOTHING, "granted", "absent", "failed"}
  /\ cardStep \in CardSteps
  /\ pollsDone \in 0 .. Polls
  /\ revokeResult \in {"none", "pending", "fulfilled", "rejected"}
  /\ revokeResult # "none" => cardStep \in {"polling", "poll"}
  /\ strays \subseteq {"prompt", "revoke"}
  /\ said \in {"nothing", "enabled", "incomplete", "disabled", "error"}

\* The switch is given back in the end, though the user never answers the
\* prompt, Privy never answers the revocation and its signer stays attached
\* (withDelegatedAccessTimeout, waitForDelegatedAccessRevocation).
SwitchIsFreed == cardBusy ~> ~ cardBusy

=============================================================================
