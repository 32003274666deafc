------------------------------ MODULE GrillDrafts -------------------------------
(***************************************************************************)
(* Grill: a page has an idea analysed by the user's team of analysts       *)
(* (POST /api/grill/analyze), which leaves a draft in the memory of the    *)
(* web process (saveGrillAnalysisDraft), and turns the analysis it shows   *)
(* into a proposal (POST /api/grill/proposals), which consumes the draft   *)
(* (consumeGrillAnalysisDraft) before it looks at the price and the        *)
(* balance.  A draft is found by the request it answers: by the idea, and  *)
(* by the team in its order, which the page sends as selected and rebuilds *)
(* from the opinions of the analysis.                                      *)
(*                                                                         *)
(* Several pages of a user, one web process that may be replaced.          *)
(* ProposalLifecycle has what the proposal displaces.                      *)
(***************************************************************************)
EXTENDS Naturals, Sequences, Functions, FiniteSets, Subsequences, NoValue

CONSTANTS
  Pages,
  Ideas,         \* asset and idea, as the schema trims it
  Analysts,      \* AI_ANALYST_CATALOG
  DefaultTeam,   \* DEFAULT_AI_TRADING_TEAM_IDS
  MaxTeam,       \* MAX_AI_TRADING_TEAM_SIZE
  DraftLife,     \* GRILL_ANALYSIS_DRAFT_TTL_MS
  LastDraftTime, \* bound on the clock
  MaxAnalyses,   \* bound on the analyses of a behaviour
  FAILED, CREATED

VARIABLES
  storedTeam,    \* localStorage of the browser
  selectedIds,   \* of each page, read when it is mounted
  grillBusy,     \* busy of each page
  grillAsked,    \* the request each page waits for
  shown,         \* the analysis each page shows
  answered,      \* the answer on its way to each page
  drafts,
  draftTime,
  buying,        \* the analysis a route is making a proposal of, of each page
  analyses,      \* number of analyses made
  bought,        \* the analyses proposals were made of, in order (history)
  gone           \* the analyses whose draft was consumed, replaced, expired or lost (history)

pageVars  == <<selectedIds, grillBusy, grillAsked, shown, answered>>
grillVars == <<storedTeam, pageVars, drafts, draftTime, buying, analyses, bought, gone>>

Teams    == UNION {[1 .. n -> Analysts] : n \in 1 .. MaxTeam}
Keys     == Ideas \X Teams

ASSUME GrillAssumption ==
  /\ DefaultTeam \in Teams /\ IsInjective(DefaultTeam)
  /\ MaxTeam \in Nat \ {0}
  /\ DraftLife \in Nat /\ LastDraftTime \in Nat /\ MaxAnalyses \in Nat
  /\ NOTHING \notin {"analysis", "proposal"}

Results  == [idea : Ideas, opinions : Teams, number : 1 .. MaxAnalyses]

GrillTypeOK ==
  /\ storedTeam \in Teams \cup {NOTHING}
  /\ selectedIds \in [Pages -> Teams]
  /\ grillBusy \in [Pages -> {NOTHING, "analysis", "proposal"}]
  /\ grillAsked \in [Pages -> Keys \cup {NOTHING}]
  /\ shown \in [Pages -> Results \cup {NOTHING}]
  /\ answered \in [Pages -> Results \cup {NOTHING, FAILED, CREATED}]
  /\ DOMAIN drafts \subseteq Keys
  /\ \A k \in DOMAIN drafts : drafts[k] \in [analysis : Results, expires : Nat]
  /\ draftTime \in 0 .. LastDraftTime
  /\ buying \in [Pages -> Results \cup {NOTHING}]
  /\ analyses \in 0 .. MaxAnalyses
  /\ bought \in Seq(1 .. MaxAnalyses) /\ gone \subseteq 1 .. MaxAnalyses
  /\ \A p \in Pages : grillBusy[p] = NOTHING => grillAsked[p] = NOTHING

GrillInit ==
  /\ storedTeam = NOTHING
  /\ selectedIds = [p \in Pages |-> DefaultTeam]
  /\ grillBusy = [p \in Pages |-> NOTHING] /\ grillAsked = [p \in Pages |-> NOTHING]
  /\ shown = [p \in Pages |-> NOTHING] /\ answered = [p \in Pages |-> NOTHING]
  /\ drafts = <<>> /\ draftTime = 0
  /\ buying = [p \in Pages |-> NOTHING]
  /\ analyses = 0 /\ bought = <<>> /\ gone = {}

--------------------------------------------------------------------------------

\* collectAiAnalysts: what the catalogue knows, once each, until the team is full.
collectAiAnalysts(ids) ==
  LET firsts == {i \in DOMAIN ids : ids[i] \in Analysts /\ \A j \in 1 .. i - 1 : ids[j] # ids[i]}
  IN  Picked(ids, {i \in firsts : Place(i, firsts) <= MaxTeam})

\* sanitizeAiTradingTeamIds, selectAiAnalysts: none is the default team.
selectAiAnalysts(ids) ==
  LET out == collectAiAnalysts(IF ids = <<>> THEN DefaultTeam ELSE ids)
  IN  IF out = <<>> THEN DefaultTeam ELSE out

buildGrillProposalRequest(p) == <<shown[p].idea, shown[p].opinions>>

\* The page is opened, or opened again after a visit of /team: useAiTradingTeam
\* reads the storage, and what the last page waited for is dropped.  An analysis
\* that was waited for is taken to have been made before the page was left.
OpenGrill(p) ==
  /\ selectedIds' = [selectedIds EXCEPT ![p] =
       IF storedTeam = NOTHING THEN DefaultTeam ELSE selectAiAnalysts(storedTeam)]
  /\ storedTeam' = selectedIds'[p]
  /\ grillBusy' = [grillBusy EXCEPT ![p] = NOTHING]
  /\ grillAsked' = [grillAsked EXCEPT ![p] = NOTHING]
  /\ shown' = [shown EXCEPT ![p] = NOTHING]
  /\ answered' = [answered EXCEPT ![p] = NOTHING]
  /\ UNCHANGED <<drafts, draftTime, buying, analyses, bought, gone>>

\* toggleAnalyst and resetTeam of a /team page, which stores what it selects.
EditTeam ==
  /\ storedTeam # NOTHING
  /\ \/ \E id \in Analysts :
          LET kept == Picked(storedTeam, {i \in DOMAIN storedTeam : storedTeam[i] # id})
          IN  IF Len(kept) < Len(storedTeam)
              THEN kept # <<>> /\ storedTeam' = kept
              ELSE Len(kept) < MaxTeam /\ storedTeam' = Append(kept, id)
     \/ storedTeam' = DefaultTeam
  /\ UNCHANGED <<pageVars, drafts, draftTime, buying, analyses, bought, gone>>

\* runAnalysis of the page, up to its answer.
RunAnalysis(p, idea) ==
  /\ grillBusy[p] = NOTHING /\ analyses < MaxAnalyses
  /\ grillBusy' = [grillBusy EXCEPT ![p] = "analysis"]
  /\ grillAsked' = [grillAsked EXCEPT ![p] = <<idea, selectedIds[p]>>]
  /\ shown' = [shown EXCEPT ![p] = NOTHING]
  /\ UNCHANGED <<storedTeam, selectedIds, answered, drafts, draftTime, buying, analyses,
                 bought, gone>>

At(k) == IF k \in DOMAIN drafts THEN {drafts[k].analysis.number} ELSE {}

\* POST /api/grill/analyze: the draft replaces one for the same request.
AnalyzeRoute(p) ==
  /\ grillBusy[p] = "analysis" /\ answered[p] = NOTHING
  /\ \/ /\ analyses < MaxAnalyses
        /\ analyses' = analyses + 1
        /\ LET key == grillAsked[p]
               result == [idea |-> key[1], opinions |-> selectAiAnalysts(key[2]),
                          number |-> analyses + 1]
           IN  /\ drafts' = [k \in DOMAIN drafts \cup {key} |->
                    IF k = key THEN [analysis |-> result, expires |-> draftTime + DraftLife]
                    ELSE drafts[k]]
               /\ gone' = gone \cup At(key)
               /\ answered' = [answered EXCEPT ![p] = result]
     \/ /\ answered' = [answered EXCEPT ![p] = FAILED]
        /\ UNCHANGED <<analyses, drafts, gone>>
  /\ UNCHANGED <<storedTeam, selectedIds, grillBusy, grillAsked, shown, draftTime, buying, bought>>

\* createProposal of the page, up to its answer (canCreateGrillProposal).
CreateProposal(p) ==
  /\ shown[p] # NOTHING /\ grillBusy[p] # "proposal"
  /\ grillBusy' = [grillBusy EXCEPT ![p] = "proposal"]
  /\ grillAsked' = [grillAsked EXCEPT ![p] = buildGrillProposalRequest(p)]
  /\ UNCHANGED <<storedTeam, selectedIds, shown, answered, drafts, draftTime, buying, analyses,
                 bought, gone>>

Without(k) == [j \in DOMAIN drafts \ {k} |-> drafts[j]]

\* The draft is read, and kept for another try.
MutantConsumeDraft(k) == UNCHANGED <<drafts, gone>>

\* consumeGrillAnalysisDraft: a draft that has expired is deleted, too.
ConsumeDraft(k) == drafts' = Without(k) /\ gone' = gone \cup At(k)

\* createGrillProposal: the draft is consumed before the first await of the market;
\* without a draft the page must analyse again.
ConsumeRoute(p) ==
  LET k == grillAsked[p]
      found == k \in DOMAIN drafts /\ drafts[k].expires > draftTime
  IN  /\ grillBusy[p] = "proposal" /\ answered[p] = NOTHING /\ buying[p] = NOTHING
      /\ ConsumeDraft(k)
      /\ IF found
         THEN buying' = [buying EXCEPT ![p] = drafts[k].analysis] /\ UNCHANGED answered
         ELSE answered' = [answered EXCEPT ![p] = FAILED] /\ UNCHANGED buying
      /\ UNCHANGED <<storedTeam, selectedIds, grillBusy, grillAsked, shown, draftTime, analyses,
                     bought>>

\* ... and the rest of it: the price, its freshness, the balance and the
\* transaction may each fail.  The page may have been left.
BuyRoute(p) ==
  /\ buying[p] # NOTHING
  /\ buying' = [buying EXCEPT ![p] = NOTHING]
  /\ \E done \in BOOLEAN :
       /\ bought' = IF done THEN Append(bought, buying[p].number) ELSE bought
       /\ answered' = [answered EXCEPT ![p] =
            IF grillBusy[p] # "proposal" THEN @ ELSE IF done THEN CREATED ELSE FAILED]
  /\ UNCHANGED <<storedTeam, selectedIds, grillBusy, grillAsked, shown, drafts, draftTime,
                 analyses, gone>>

\* The answer arrives: setAnalysis, router.push (which unmounts the page), or a toast.
Answer(p) ==
  /\ answered[p] # NOTHING
  /\ answered' = [answered EXCEPT ![p] = NOTHING]
  /\ grillBusy' = [grillBusy EXCEPT ![p] = NOTHING]
  /\ grillAsked' = [grillAsked EXCEPT ![p] = NOTHING]
  /\ shown' = [shown EXCEPT ![p] =
       IF answered[p] = CREATED THEN NOTHING ELSE IF answered[p] = FAILED THEN @ ELSE answered[p]]
  /\ UNCHANGED <<storedTeam, selectedIds, drafts, draftTime, buying, analyses, bought, gone>>

DraftTimePasses ==
  /\ draftTime < LastDraftTime
  /\ draftTime' = draftTime + 1
  /\ gone' = gone \cup {drafts[k].analysis.number :
                          k \in {j \in DOMAIN drafts : drafts[j].expires <= draftTime + 1}}
  /\ UNCHANGED <<storedTeam, pageVars, drafts, buying, analyses, bought>>

\* The web process is replaced: its drafts are lost, its requests fail.
ReplaceWeb ==
  /\ drafts # <<>>
  /\ drafts' = <<>>
  /\ gone' = gone \cup {drafts[k].analysis.number : k \in DOMAIN drafts}
  /\ buying' = [p \in Pages |-> NOTHING]
  /\ answered' = [p \in Pages |->
       IF grillBusy[p] # NOTHING /\ answered[p] = NOTHING THEN FAILED ELSE answered[p]]
  /\ UNCHANGED <<storedTeam, selectedIds, grillBusy, grillAsked, shown, draftTime, analyses, bought>>

GrillNext ==
  \/ \E p \in Pages : \/ OpenGrill(p) \/ AnalyzeRoute(p) \/ CreateProposal(p)
                      \/ ConsumeRoute(p) \/ BuyRoute(p) \/ Answer(p)
                      \/ \E idea \in Ideas : RunAnalysis(p, idea)
  \/ EditTeam \/ DraftTimePasses \/ ReplaceWeb

GrillSpec == GrillInit /\ [][GrillNext]_grillVars

--------------------------------------------------------------------------------
(* Properties.                                                             *)

\* The analysis a page shows can be proposed, once: the request the page would
\* send finds its draft, whatever the order of the team or the other pages, unless
\* the draft has been consumed, replaced, lost or has expired; and a proposal is
\* never made twice of an analysis, by two pages or by two clicks.
AnalysisBuysOnce ==
  /\ \A p \in Pages : shown[p] # NOTHING =>
       LET k == buildGrillProposalRequest(p)
       IN  (k \in DOMAIN drafts /\ drafts[k].analysis = shown[p]) \/ shown[p].number \in gone
  /\ IsInjective(bought)

================================================================================
