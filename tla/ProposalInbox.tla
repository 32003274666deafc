---------------------------- MODULE ProposalInbox ----------------------------
(***************************************************************************)
(* The proposals that one tab shows: the store that the socket fills       *)
(* (lib/store/proposals.ts), the feed that joins it with the list of the   *)
(* API (components/desk/proposals-feed.tsx), and the page of one proposal  *)
(* (app/proposals/[id]/page.tsx over components/proposal-modal), while the *)
(* server and other tabs decide the same proposals and time expires them.  *)
(*                                                                         *)
(* The store holds copies as they were when they were pushed: ACTIVE,      *)
(* whatever became of the proposal since.                                  *)
(***************************************************************************)
EXTENDS NoValue, Naturals, Sequences, SequencesExt

CONSTANTS
  InboxIds,   \* the user's proposals
  ExpiresAt,  \* when each of them ends
  StoreCap,   \* how many ids the store keeps in its order
  LastInboxHour  \* bound on the clock

ASSUME InboxAssumption ==
  /\ ExpiresAt \in [InboxIds -> 1 .. LastInboxHour]
  /\ StoreCap \in Nat \ {0}

VARIABLES
  hour,          \* the time
  inboxStatus,   \* Proposal.status
  pushed,        \* the proposal:new events on their way
  byId, order,   \* the store: proposalsById (its keys) and order
  seed,          \* useProposals().data
  listing,       \* the answer to GET /api/proposals on its way
  shown,         \* what the feed last computed
  inboxPage      \* the page of one proposal, NOTHING when it is not open

inboxVars == <<hour, inboxStatus, pushed, byId, order, seed, listing, shown, inboxPage>>
storeVars == <<byId, order>>

isProposalExpired(p) == ExpiresAt[p] <= hour

\* isLiveProposal of a copy, which says ACTIVE.
isLiveCopy(p) == ~ isProposalExpired(p)

InboxInit ==
  /\ hour = 0
  /\ inboxStatus = [p \in InboxIds |-> "none"]
  /\ pushed = {}
  /\ byId = {} /\ order = <<>>
  /\ seed = {} /\ listing = NOTHING
  /\ shown = {}
  /\ inboxPage = NOTHING

-----------------------------------------------------------------------------
(* The server.                                                             *)

TimePasses ==
  /\ hour < LastInboxHour
  /\ hour' = hour + 1
  /\ UNCHANGED <<inboxStatus, pushed, byId, order, seed, listing, shown, inboxPage>>

\* A generator writes the row and then emits proposal:new, to nobody when the
\* tab is not connected.
PersistProposal(p) ==
  /\ inboxStatus[p] = "none" /\ ~ isProposalExpired(p)
  /\ inboxStatus' = [inboxStatus EXCEPT ![p] = "ACTIVE"]
  /\ pushed' \in {pushed, pushed \cup {p}}
  /\ UNCHANGED <<hour, byId, order, seed, listing, shown, inboxPage>>

\* Another tab accepts or skips it.
DecideElsewhere(p) ==
  /\ inboxStatus[p] = "ACTIVE"
  /\ inboxStatus' \in {[inboxStatus EXCEPT ![p] = s] : s \in {"EXECUTED", "SKIPPED"}}
  /\ UNCHANGED <<hour, pushed, byId, order, seed, listing, shown, inboxPage>>

\* expireActiveProposals, which every route calls first.
Lapsed(status) ==
  [p \in InboxIds |-> IF status[p] = "ACTIVE" /\ isProposalExpired(p) THEN "EXPIRED"
                                                                      ELSE status[p]]

-----------------------------------------------------------------------------
(* The store and the feed, which computes anew what it shows when the      *)
(* store or the list changes, and only then.                               *)

feedOf(ids, listed) == {p \in Range(ids) \cup listed : isLiveCopy(p)}

removeProposal(p) ==
  IF p \in byId
  THEN /\ byId' = byId \ {p}
       /\ order' = SelectSeq(order, LAMBDA q : q # p)
       /\ shown' = feedOf(order', seed)
  ELSE UNCHANGED <<byId, order, shown>>

\* An id that the order has lost to younger ones keeps its copy, and does not
\* return to the order when it is pushed again.
upsertProposal(p) ==
  IF p \in byId
  THEN UNCHANGED storeVars /\ shown' = feedOf(order, seed)
  ELSE /\ byId' = byId \cup {p}
       /\ order' = SubSeq(<<p>> \o order, 1, IF Len(order) < StoreCap THEN Len(order) + 1
                                                                      ELSE StoreCap)
       /\ shown' = feedOf(order', seed)

\* handleProposal.
HandlePushed(p) ==
  /\ p \in pushed /\ pushed' = pushed \ {p}
  /\ IF isLiveCopy(p) THEN upsertProposal(p) ELSE removeProposal(p)
  /\ UNCHANGED <<hour, inboxStatus, seed, listing, inboxPage>>

\* MutantClearExpired leaves the store alone when none of its copies expired,
\* so that the feed has no reason to compute anew.
MutantClearExpired ==
  /\ \E i \in DOMAIN order : ~ isLiveCopy(order[i])
  /\ order' = SelectSeq(order, isLiveCopy)
  /\ byId' = Range(order')
  /\ shown' = feedOf(order', seed)
  /\ UNCHANGED <<hour, inboxStatus, pushed, seed, listing, inboxPage>>

\* Every 15 seconds; the new order is another array, so the feed computes.
ClearExpired ==
  /\ order' = SelectSeq(order, isLiveCopy)
  /\ byId' = Range(order')
  /\ shown' = feedOf(order', seed)
  /\ UNCHANGED <<hour, inboxStatus, pushed, seed, listing, inboxPage>>

\* GET /api/proposals, every 30 seconds and after a decision of this tab.
ListProposals ==
  /\ listing = NOTHING
  /\ inboxStatus' = Lapsed(inboxStatus)
  /\ listing' = {p \in InboxIds : inboxStatus'[p] = "ACTIVE"}
  /\ UNCHANGED <<hour, pushed, byId, order, seed, shown, inboxPage>>

\* The answer, or an error that leaves the list as it was; the same list is
\* no change.
ListArrives ==
  /\ listing # NOTHING /\ listing' = NOTHING
  /\ \/ /\ seed' = listing
        /\ shown' = IF seed' = seed THEN shown ELSE feedOf(order, seed')
     \/ UNCHANGED <<seed, shown>>
  /\ UNCHANGED <<hour, inboxStatus, pushed, byId, order, inboxPage>>

-----------------------------------------------------------------------------
(* The page.                                                               *)

\* Its own copy is the store's when it has a live one, else the one it read.
OnPage(status) == inboxPage # NOTHING /\ inboxPage.at = status

\* A link of the feed, a toast, a bookmark.
OpenProposal(p) ==
  /\ inboxPage = NOTHING
  /\ inboxPage' = [id |-> p, at |-> IF p \in byId THEN "store" ELSE "reading",
                   copy |-> "none", busy |-> "no"]
  /\ IF p \in byId /\ isProposalExpired(p) THEN removeProposal(p)
                                            ELSE UNCHANGED <<byId, order, shown>>
  /\ UNCHANGED <<hour, inboxStatus, pushed, seed, listing>>

\* The effect runs again when the copy of the store comes or goes; it forgets
\* what was read, and the answer that is on its way.
FollowStore ==
  /\ inboxPage # NOTHING
  /\ LET p == inboxPage.id IN
     \/ inboxPage.at # "store" /\ p \in byId
        /\ inboxPage' = [inboxPage EXCEPT !.at = "store", !.copy = "none"]
        /\ IF isProposalExpired(p) THEN removeProposal(p) ELSE UNCHANGED <<byId, order, shown>>
     \/ inboxPage.at = "store" /\ p \notin byId
        /\ inboxPage' = [inboxPage EXCEPT !.at = "reading", !.copy = "none"]
        /\ UNCHANGED <<byId, order, shown>>
  /\ UNCHANGED <<hour, inboxStatus, pushed, seed, listing>>

\* GET /api/proposals/[id]: a decided proposal is shown, an expired one is not
\* found; neither is one whose call fails.
ColdRead ==
  /\ OnPage("reading")
  /\ inboxStatus' = Lapsed(inboxStatus)
  /\ LET status == inboxStatus'[inboxPage.id] IN
     \E copy \in {"none"} \cup ({status} \ {"EXPIRED"}) :
       inboxPage' = [inboxPage EXCEPT !.at = "loaded", !.copy = copy]
  /\ UNCHANGED <<hour, pushed, byId, order, seed, listing, shown>>

\* isReadOnly is FALSE: the proposal on the page is ACTIVE and has time left.
Decidable ==
  /\ inboxPage # NOTHING /\ inboxPage.busy = "no"
  /\ OnPage("store") \/ inboxPage.copy = "ACTIVE"
  /\ ~ isProposalExpired(inboxPage.id)

\* handlePlace, or handleConfirmSell of a SELL.
HandlePlace ==
  /\ Decidable
  /\ inboxPage' = [inboxPage EXCEPT !.busy = "placing"]
  /\ UNCHANGED <<hour, inboxStatus, pushed, byId, order, seed, listing, shown>>

HandleSkip ==
  /\ Decidable
  /\ inboxPage' = [inboxPage EXCEPT !.busy = "skipping"]
  /\ UNCHANGED <<hour, inboxStatus, pushed, byId, order, seed, listing, shown>>

\* handleDecision: the page closes, its copy leaves the store if it was there.
HandleDecision ==
  /\ inboxPage' = NOTHING
  /\ IF OnPage("store") THEN removeProposal(inboxPage.id)
                        ELSE UNCHANGED <<byId, order, shown>>

\* The order route accepts an ACTIVE proposal only; an error stays on the
\* page, also when the answer is lost.
OrderPlaced ==
  /\ inboxPage # NOTHING /\ inboxPage.busy = "placing"
  /\ LET p == inboxPage.id
         status == Lapsed(inboxStatus)
         accepted == status[p] = "ACTIVE" IN
     \/ /\ inboxStatus' = IF accepted THEN [status EXCEPT ![p] = "EXECUTED"] ELSE status
        /\ \/ accepted /\ HandleDecision
           \/ inboxPage' = [inboxPage EXCEPT !.busy = "no"] /\ UNCHANGED <<byId, order, shown>>
     \/ /\ inboxPage' = [inboxPage EXCEPT !.busy = "no"]
        /\ UNCHANGED <<inboxStatus, byId, order, shown>>
  /\ UNCHANGED <<hour, pushed, seed, listing>>

\* POST /api/skips says yes to all but a failure, and writes SKIPPED over any
\* status but EXPIRED.  The view of a SELL does not wait for its answer.
ProposalSkipped ==
  /\ inboxPage # NOTHING /\ inboxPage.busy = "skipping"
  /\ LET p == inboxPage.id
         status == Lapsed(inboxStatus) IN
     \/ /\ inboxStatus' = IF status[p] \in {"none", "EXPIRED"} THEN status
                          ELSE [status EXCEPT ![p] = "SKIPPED"]
        /\ HandleDecision
     \/ UNCHANGED inboxStatus
        /\ \/ HandleDecision
           \/ inboxPage' = [inboxPage EXCEPT !.busy = "no"] /\ UNCHANGED <<byId, order, shown>>
  /\ UNCHANGED <<hour, pushed, seed, listing>>

\* Back to the desk; a call of the page that is on its way is taken first.
HandleBack ==
  /\ inboxPage # NOTHING /\ inboxPage.busy = "no"
  /\ inboxPage' = NOTHING
  /\ UNCHANGED <<hour, inboxStatus, pushed, byId, order, seed, listing, shown>>

InboxNext ==
  \/ TimePasses \/ ClearExpired \/ ListProposals \/ ListArrives
  \/ FollowStore \/ ColdRead \/ HandlePlace \/ HandleSkip
  \/ OrderPlaced \/ ProposalSkipped \/ HandleBack
  \/ \E p \in InboxIds : PersistProposal(p) \/ DecideElsewhere(p) \/ HandlePushed(p) \/ OpenProposal(p)

\* The clock and the timer of clearExpired; nothing is assumed of the network.
InboxSpec == InboxInit /\ [][InboxNext]_inboxVars
               /\ WF_inboxVars(TimePasses) /\ WF_inboxVars(ClearExpired)

-----------------------------------------------------------------------------
InboxTypeOK ==
  /\ hour \in 0 .. LastInboxHour
  /\ inboxStatus \in [InboxIds -> {"none", "ACTIVE", "EXECUTED", "SKIPPED", "EXPIRED"}]
  /\ Range(order) \subseteq byId /\ byId \subseteq InboxIds
  /\ Len(order) <= StoreCap /\ IsInjective(order)
  /\ pushed \subseteq InboxIds /\ seed \subseteq InboxIds /\ shown \subseteq InboxIds
  /\ inboxPage # NOTHING => inboxPage.id \in InboxIds

\* A proposal that was decided elsewhere leaves the feed of this tab at the end
\* of its time and for good, whatever the network does: the store's stale copy
\* goes with clearExpired, a list that could not be read again is filtered, and
\* a push that comes late does not bring it back.
StaleProposalLeavesTheFeed ==
  \A p \in InboxIds : inboxStatus[p] # "none" ~> [](p \notin shown)
=============================================================================
