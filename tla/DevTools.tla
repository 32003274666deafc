-------------------------------- MODULE DevTools --------------------------------
(***************************************************************************)
(* The developer tools (lib/dev-tools/server.ts): an operator asks for a   *)
(* test proposal of an asset, which is made from live prices and a model's *)
(* answer like a real one, and may force the trigger of the order that     *)
(* came of it.  A user has one test proposal at a time: the request looks  *)
(* for another before it asks the model, and again in the transaction that *)
(* inserts, under READ COMMITTED and with no lock but that of the rows it  *)
(* expires.                                                                *)
(***************************************************************************)
EXTENDS Naturals, Sequences, FiniteSets

CONSTANTS
  Operators,      \* requests at a time
  MaxMade,        \* bound on the proposals
  DevLife,        \* PROPOSAL_TTL
  LastDevTime     \* bound on the clock

ASSUME DevAssumption == MaxMade \in Nat /\ DevLife \in Nat /\ LastDevTime \in Nat

VARIABLES
  devClock,
  made,           \* the DEV_TOOLS proposals of the user, in the order of their commits
  request,        \* where each request is
  hits            \* the orders whose trigger:hit was forced

devVars == <<devClock, made, request, hits>>

DevIds == DOMAIN made

\* knew: how many proposals were committed when its transaction looked (history).
DevProposals ==
  [status : {"ACTIVE", "EXPIRED", "SKIPPED", "EXECUTED"}, expiresAt : 0 .. LastDevTime + DevLife,
   order : {"none", "OPEN", "TAKEN"}, knew : 0 .. MaxMade]

DevCalls ==
  [at : {"idle", "ask", "begin"}] \cup
  [at : {"expire", "look"}, now : 0 .. LastDevTime] \cup
  [at : {"insert"}, now : 0 .. LastDevTime, knew : 0 .. MaxMade] \cup
  [at : {"quote", "emit"}, for : 1 .. MaxMade]

DevTypeOK ==
  /\ devClock \in 0 .. LastDevTime
  /\ made \in Seq(DevProposals) /\ Len(made) <= MaxMade
  /\ request \in [Operators -> DevCalls]
  /\ hits \subseteq DevIds

DevInit ==
  /\ devClock = 0 /\ made = <<>> /\ hits = {}
  /\ request = [r \in Operators |-> [at |-> "idle"]]

--------------------------------------------------------------------------------
(* expireActiveProposals, with the `now` of its caller.                    *)

LapsedDev(now) == {p \in DevIds : made[p].status = "ACTIVE" /\ made[p].expiresAt <= now}

expireDev(now) ==
  [p \in DevIds |-> IF p \in LapsedDev(now) THEN [made[p] EXCEPT !.status = "EXPIRED"] ELSE made[p]]

\* findFirst: an ACTIVE proposal whose time has not come.
LiveDev(now) == {p \in DevIds : made[p].status = "ACTIVE" /\ made[p].expiresAt > now}

RequestGoes(r, call) == request' = [request EXCEPT ![r] = call]
RequestEnds(r)       == RequestGoes(r, [at |-> "idle"])

--------------------------------------------------------------------------------
(* createDevToolsProposal.                                                 *)

\* The mandate is there, what has lapsed is expired, and no proposal is live; or 409.
CheckActiveProposal(r) ==
  /\ request[r].at = "idle"
  /\ Len(made) < MaxMade
  /\ made' = expireDev(devClock)
  /\ IF LiveDev(devClock) = {} THEN RequestGoes(r, [at |-> "ask"]) ELSE UNCHANGED request
  /\ UNCHANGED <<devClock, hits>>

\* A fresh price, the bars, the balance and the size it gives: any of them may throw.
ReadMarket(r) ==
  /\ request[r].at = "ask"
  /\ RequestGoes(r, [at |-> "begin"]) \/ RequestEnds(r)
  /\ UNCHANGED <<devClock, made, hits>>

\* The model does not throw: without its answer the proposal is a degraded one.  The
\* transaction begins, and takes its `now`.
AskGemini(r) ==
  /\ request[r].at = "begin"
  /\ RequestGoes(r, [at |-> "expire", now |-> devClock])
  /\ UNCHANGED <<devClock, made, hits>>

\* The rows it expires are locked until it ends; it waits for another that holds them.
ExpireInTransaction(r) ==
  /\ request[r].at = "expire"
  /\ \A other \in Operators \ {r} :
       request[other].at \in {"look", "insert"} =>
         LapsedDev(request[r].now) \cap LapsedDev(request[other].now) = {}
  /\ RequestGoes(r, [at |-> "look", now |-> request[r].now])
  /\ UNCHANGED <<devClock, made, hits>>

\* The transaction inserts without looking again.
MutantLookAgain(r) ==
  /\ request[r].at = "look"
  /\ RequestGoes(r, [at |-> "insert", now |-> request[r].now, knew |-> Len(made)])
  /\ UNCHANGED <<devClock, made, hits>>

\* The second findFirst: another request may have committed a proposal meanwhile.
LookAgain(r) ==
  /\ request[r].at = "look"
  /\ IF LiveDev(request[r].now) = {}
     THEN RequestGoes(r, [at |-> "insert", now |-> request[r].now, knew |-> Len(made)])
     ELSE RequestEnds(r)
  /\ UNCHANGED <<devClock, made, hits>>

\* createBuyProposalForUser and the commit; or the terms are not actionable, and all
\* is rolled back.
InsertDevProposal(r) ==
  /\ request[r].at = "insert"
  /\ \/ /\ Len(made) < MaxMade
        /\ made' = Append(expireDev(request[r].now),
                          [status |-> "ACTIVE", expiresAt |-> request[r].now + DevLife,
                           order |-> "none", knew |-> request[r].knew])
     \/ UNCHANGED made
  /\ RequestEnds(r)
  /\ UNCHANGED <<devClock, hits>>

\* listDevToolsState expires, too.
ListDevToolsState ==
  /\ LapsedDev(devClock) # {}
  /\ made' = expireDev(devClock)
  /\ UNCHANGED <<devClock, request, hits>>

--------------------------------------------------------------------------------
(* The forced trigger.                                                     *)

\* buildOwnedDevTriggerPayload: an OPEN order of a position that a test proposal opened.
BuildOwnedDevTriggerPayload(r, p) ==
  /\ request[r].at = "idle"
  /\ p \in DevIds /\ made[p].order = "OPEN"
  /\ RequestGoes(r, [at |-> "quote", for |-> p])
  /\ UNCHANGED <<devClock, made, hits>>

\* Its price, balance and quote: the quote may fail, or wait.
QuoteDevTrigger(r) ==
  /\ request[r].at = "quote"
  /\ RequestGoes(r, [at |-> "emit", for |-> request[r].for]) \/ RequestEnds(r)
  /\ UNCHANGED <<devClock, made, hits>>

\* emitDevTrigger: the order is not read again.
EmitDevTrigger(r) ==
  /\ request[r].at = "emit"
  /\ hits' \in {hits, hits \cup {request[r].for}}
  /\ RequestEnds(r)
  /\ UNCHANGED <<devClock, made>>

--------------------------------------------------------------------------------
(* The user, the clock and the rest of the system.                         *)

\* A live proposal is accepted, which opens its order, or skipped.
DevProposalDecided(p) ==
  /\ p \in LiveDev(devClock)
  /\ made' \in {[made EXCEPT ![p].status = "EXECUTED", ![p].order = "OPEN"],
                [made EXCEPT ![p].status = "SKIPPED"]}
  /\ UNCHANGED <<devClock, request, hits>>

\* The order is claimed, filled or cancelled, by a tab or by the monitor.
DevOrderTaken(p) ==
  /\ made[p].order = "OPEN"
  /\ made' = [made EXCEPT ![p].order = "TAKEN"]
  /\ UNCHANGED <<devClock, request, hits>>

DevTimePasses ==
  /\ devClock < LastDevTime /\ devClock' = devClock + 1
  /\ UNCHANGED <<made, request, hits>>

DevNext ==
  \/ \E r \in Operators :
       \/ CheckActiveProposal(r) \/ ReadMarket(r) \/ AskGemini(r) \/ ExpireInTransaction(r)
       \/ LookAgain(r) \/ InsertDevProposal(r)
       \/ QuoteDevTrigger(r) \/ EmitDevTrigger(r)
       \/ \E p \in DevIds : BuildOwnedDevTriggerPayload(r, p)
  \/ \E p \in DevIds : DevProposalDecided(p) \/ DevOrderTaken(p)
  \/ ListDevToolsState \/ DevTimePasses

DevSpec == DevInit /\ [][DevNext]_devVars

--------------------------------------------------------------------------------
(* Properties.                                                             *)

\* Two test proposals are live together only if the transaction of the later one had
\* looked before the earlier one was committed: not because two requests waited for
\* the model at a time, nor because one lapsed by one clock and not by the other.
SecondProposalOverlapped ==
  \A p, q \in LiveDev(devClock) : p < q => made[q].knew < p

================================================================================
