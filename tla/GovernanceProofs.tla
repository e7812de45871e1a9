--------------------------- MODULE GovernanceProofs ---------------------------
(***************************************************************************)
(* Decisions about access, for any number of people, requests and          *)
(* sessions: each is made once, by somebody it is not about.  And what an  *)
(* administrator approves is what takes effect: the publication of a       *)
(* simulated draft, for any number of roles, keys and callers, and the     *)
(* migration of the values that were previewed, for any values.            *)
(***************************************************************************)
EXTENDS Governance, RolePublication, AttributeMigration, WellFoundedInduction, TLAPS

HoldsRequest(s) == Deciding(s) /\ txn[s].step \in {"ready", "written", "settled"}

HoldsItem(s) == Reviewing(s) /\ txn[s].step \in {"decided", "ready", "written", "settled"}

HoldsCampaign(s) == txn[s].act \in {"open", "close"}

(* What a decider's transaction is about exists, and is not the decider.   *)
NotOneself ==
    \A s \in Sessions :
        /\ Deciding(s) =>
              /\ txn[s].on \in Requests
              /\ request[txn[s].on].state # "absent"
              /\ txn[s].act # "cancel" => txn[s].by # request[txn[s].on].subject
        /\ Reviewing(s) =>
              /\ txn[s].on \in Subjects
              /\ item[txn[s].on].decision # "absent"
              /\ txn[s].by # txn[s].on

(* A row lock has one holder, and what is locked to be decided is open.    *)
RequestsInHand ==
    \A s \in Sessions : HoldsRequest(s) =>
        /\ request[txn[s].on].state = "pending"
        /\ \A t \in Sessions : HoldsRequest(t) /\ txn[t].on = txn[s].on => t = s

ItemsInHand ==
    \A s \in Sessions : HoldsItem(s) =>
        /\ item[txn[s].on].decision = "pending"
        /\ \A t \in Sessions : HoldsItem(t) /\ txn[t].on = txn[s].on => t = s

CampaignInHand ==
    \A s \in Sessions : HoldsCampaign(s) =>
        /\ txn[s].act = "open" => campaign = "draft"
        /\ \A t \in Sessions : HoldsCampaign(t) => t = s

NoItemsInDraft == campaign = "draft" => \A i \in Subjects : item[i].decision = "absent"

(* Only an opening stands at "locked", only a review at "checked", and only *)
(* the revocation of a person's item goes on to read the exception.        *)
StepFits(T) ==
    /\ T.step \in {"locked", "found"} => T.act = "open"
    /\ T.step = "checked" => T.act \in {"certify", "revoke"}
    /\ T.step = "decided" => T.act = "revoke" /\ T.on # Formula

StepsFit == \A s \in Sessions : StepFits(txn[s])

Inv ==
    /\ GovernanceTypeOK /\ NobodyDecidesTheirOwn
    /\ StepsFit /\ NotOneself /\ RequestsInHand /\ ItemsInHand /\ CampaignInHand /\ NoItemsInDraft

USE DEF Deciding, Reviewing, HoldsRequest, HoldsItem, HoldsCampaign

-----------------------------------------------------------------------------
LEMMA InitInv == GovernanceInit => Inv
<1> SUFFICES ASSUME GovernanceInit PROVE Inv
  OBVIOUS
<1>1. GovernanceTypeOK
  BY GovernanceAssumption DEF GovernanceInit, GovernanceTypeOK, Exception, NoException, Request,
     NoRequest, Item, NoItem, Txn, Idle, NoReviewer, Steps, Acts, Never
<1>2. StepsFit /\ NotOneself /\ RequestsInHand /\ ItemsInHand /\ CampaignInHand
  BY DEF GovernanceInit, Idle, StepsFit, StepFits, NotOneself, RequestsInHand, ItemsInHand, CampaignInHand
<1>3. NoItemsInDraft
  BY DEF GovernanceInit, NoItemsInDraft, NoItem
<1>4. NobodyDecidesTheirOwn
  BY GovernanceAssumption DEF GovernanceInit, NobodyDecidesTheirOwn, NoRequest, NoItem, Subjects
<1> QED BY <1>1, <1>2, <1>3, <1>4 DEF Inv

-----------------------------------------------------------------------------
(* What a transaction must be for a session to turn into it: about         *)
(* something that exists, and any row it locks free and open.              *)
RequestFits(s, T) ==
    T.act \in {"approve", "deny", "cancel"} =>
        /\ T.on \in Requests
        /\ request[T.on].state # "absent"
        /\ T.act # "cancel" => T.by # request[T.on].subject
        /\ T.step \in {"ready", "written", "settled"} =>
              /\ request[T.on].state = "pending"
              /\ \A t \in Sessions \ {s} : HoldsRequest(t) => txn[t].on # T.on

ItemFits(s, T) ==
    T.act \in {"certify", "revoke"} =>
        /\ T.on \in Subjects
        /\ item[T.on].decision # "absent"
        /\ T.by # T.on
        /\ T.step \in {"decided", "ready", "written", "settled"} =>
              /\ item[T.on].decision = "pending"
              /\ \A t \in Sessions \ {s} : HoldsItem(t) => txn[t].on # T.on

CampaignFits(s, T) ==
    T.act \in {"open", "close"} =>
        /\ T.act = "open" => campaign = "draft"
        /\ \A t \in Sessions \ {s} : ~HoldsCampaign(t)

(* Every statement but a commit leaves the rows alone and moves one        *)
(* transaction.                                                            *)
LEMMA Move ==
    ASSUME Inv, NEW s \in Sessions, NEW T \in Txn,
           txn' = [txn EXCEPT ![s] = T],
           writes' \in 0..MaxWrites,
           UNCHANGED <<clock, manager, enabled, exception, request, campaign, item>>,
           StepFits(T), RequestFits(s, T), ItemFits(s, T), CampaignFits(s, T)
    PROVE  Inv'
<1>1. GovernanceTypeOK' /\ NobodyDecidesTheirOwn' /\ NoItemsInDraft'
  BY DEF Inv, GovernanceTypeOK, NobodyDecidesTheirOwn, NoItemsInDraft
<1>2. txn'[s] = T /\ \A t \in Sessions : t # s => txn'[t] = txn[t]
  BY DEF Inv, GovernanceTypeOK
<1>3. NotOneself'
  BY <1>2 DEF Inv, NotOneself, RequestFits, ItemFits
<1>4. RequestsInHand'
  BY <1>2 DEF Inv, RequestsInHand, RequestFits
<1>5. ItemsInHand'
  BY <1>2 DEF Inv, ItemsInHand, ItemFits
<1>6. CampaignInHand'
  BY <1>2 DEF Inv, CampaignInHand, CampaignFits
<1>7. StepsFit'
  BY <1>2 DEF Inv, StepsFit
<1> QED BY <1>1, <1>3, <1>4, <1>5, <1>6, <1>7 DEF Inv

LEMMA IdleIsTxn == Idle \in Txn
BY GovernanceAssumption DEF Idle, Txn, Steps, Acts, Exception, NoException, NoReviewer, Never

(* The first statement of each request.                                    *)
LEMMA Beginning ==
    ASSUME Inv, NEW s \in Sessions, NEW act \in Acts, NEW on \in Requests \cup Subjects \cup {Nobody},
           NEW by \in People \cup {Nobody}, NEW step \in Steps, NEW x \in Exception,
           Begin(s, act, on, by, step, x),
           LET T == [step |-> step, act |-> act, on |-> on, by |-> by, now |-> clock,
                     sets |-> x, found |-> {}, reviewer |-> NoReviewer]
           IN StepFits(T) /\ RequestFits(s, T) /\ ItemFits(s, T) /\ CampaignFits(s, T)
    PROVE  Inv'
<1> DEFINE T == [step |-> step, act |-> act, on |-> on, by |-> by, now |-> clock,
                 sets |-> x, found |-> {}, reviewer |-> NoReviewer]
<1>1. T \in Txn
  BY DEF Inv, GovernanceTypeOK, Txn, NoReviewer
<1>2. txn' = [txn EXCEPT ![s] = T] /\ writes' \in 0..MaxWrites
  BY GovernanceAssumption DEF Begin, Inv, GovernanceTypeOK
<1>3. UNCHANGED <<clock, manager, enabled, exception, request, campaign, item>>
  BY DEF Begin
<1>4. StepFits(T) /\ RequestFits(s, T) /\ ItemFits(s, T) /\ CampaignFits(s, T)
  OBVIOUS
<1> HIDE DEF T
<1> QED BY <1>1, <1>2, <1>3, <1>4, Move

LEMMA Begins ==
    ASSUME Inv, NEW s \in Sessions, Send(s)
    PROVE  Inv'
<1> USE DEF StepFits, RequestFits, ItemFits, CampaignFits, Acts, Steps
<1>0. NoException \in Exception
  BY GovernanceAssumption DEF Exception, NoException, Never
<1>1. ASSUME NEW u \in People, NEW x \in Exception, SetException(s, u, x)
      PROVE  Inv'
  <2>1. Begin(s, "set", u, Nobody, "ready", x)
    BY <1>1 DEF SetException
  <2>2. u \in Subjects /\ Nobody \in People \cup {Nobody}
    BY DEF Subjects
  <2> QED BY <2>1, <2>2, Beginning
<1>2. ASSUME NEW u \in People, RemoveException(s, u)
      PROVE  Inv'
  <2>1. Begin(s, "remove", u, Nobody, "ready", NoException)
    BY <1>2 DEF RemoveException
  <2>2. u \in Subjects /\ Nobody \in People \cup {Nobody}
    BY DEF Subjects
  <2> QED BY <1>0, <2>1, <2>2, Beginning
<1>3. ASSUME NEW q \in Requests, NEW a \in People, NEW act \in {"approve", "deny", "cancel"},
             Judge(s, act, q, a)
      PROVE  Inv'
  <2>1. Begin(s, act, q, a, "judged", NoException)
    BY <1>3 DEF Judge
  <2>2. request[q].state # "absent" /\ (act # "cancel" => a # request[q].subject)
    BY <1>3 DEF Judge, MayDecide
  <2> QED BY <1>0, <2>1, <2>2, Beginning
<1>4. ASSUME NEW i \in Subjects, NEW a \in People, NEW act \in {"certify", "revoke"},
             Review(s, act, i, a)
      PROVE  Inv'
  <2>1. Begin(s, act, i, a, "judged", NoException)
    BY <1>4 DEF Review
  <2>2. item[i].decision # "absent" /\ a # i
    BY <1>4 DEF Review, MayReview
  <2> QED BY <1>0, <2>1, <2>2, Beginning
<1>5. CASE OpenCampaign(s)
  <2>1. Begin(s, "open", Nobody, Creator, "locked", NoException)
    BY <1>5 DEF OpenCampaign
  <2>2. campaign = "draft" /\ \A t \in Sessions : ~HoldsCampaign(t)
    BY <1>5 DEF OpenCampaign, CampaignLocked
  <2> QED BY <1>0, <2>1, <2>2, GovernanceAssumption, Beginning
<1>6. CASE CloseCampaign(s)
  <2>1. Begin(s, "close", Nobody, Creator, "settled", NoException)
    BY <1>6 DEF CloseCampaign
  <2>2. \A t \in Sessions : ~HoldsCampaign(t)
    BY <1>6 DEF CloseCampaign, CampaignLocked
  <2> QED BY <1>0, <2>1, <2>2, GovernanceAssumption, Beginning
<1>7. \A m \in {"include", "exclude"}, e \in Expiries : [mode |-> m, expiresAt |-> e] \in Exception
  BY GovernanceAssumption DEF Expiries, Exception, Never
<1> QED BY <1>1, <1>2, <1>3, <1>4, <1>5, <1>6, <1>7 DEF Send

(* A later statement: the transaction is still about the same thing, and   *)
(* locks the request or the item only if it is free and open.              *)
LEMMA Proceeding ==
    ASSUME Inv, NEW s \in Sessions, NEW T \in Txn,
           txn' = [txn EXCEPT ![s] = T],
           UNCHANGED <<clock, manager, enabled, exception, request, campaign, item, writes>>,
           T.act = txn[s].act, T.on = txn[s].on, T.by = txn[s].by, StepFits(T),
           Deciding(s) /\ T.step \in {"ready", "written", "settled"} =>
               HoldsRequest(s) \/ (request[T.on].state = "pending" /\ ~RequestLocked(T.on)),
           Reviewing(s) /\ T.step \in {"decided", "ready", "written", "settled"} =>
               HoldsItem(s) \/ (item[T.on].decision = "pending" /\ ~ItemLocked(T.on))
    PROVE  Inv'
<1>1. RequestFits(s, T)
  BY DEF RequestFits, RequestLocked, Inv, NotOneself, RequestsInHand
<1>2. ItemFits(s, T)
  BY DEF ItemFits, ItemLocked, Inv, NotOneself, ItemsInHand
<1>3. CampaignFits(s, T)
  BY DEF CampaignFits, Inv, CampaignInHand
<1>4. writes' \in 0..MaxWrites
  BY DEF Inv, GovernanceTypeOK
<1> QED BY <1>1, <1>2, <1>3, <1>4, Move

LEMMA Statements ==
    ASSUME Inv, NEW s \in Sessions,
           \/ WriteException(s) \/ Transition(s) \/ Snapshot(s) \/ AssignReviewers(s)
           \/ CheckCampaign(s) \/ DecideItem(s) \/ ReadCurrent(s) \/ Abort(s)
    PROVE  Inv'
<1>0. txn[s] \in Txn /\ txn \in [Sessions -> Txn]
  BY DEF Inv, GovernanceTypeOK
<1>s. StepFits(txn[s])
  BY DEF Inv, StepsFit
<1>1. CASE WriteException(s)
  <2> DEFINE T == [txn[s] EXCEPT !.step = "written"]
  <2>1. T \in Txn /\ T.act = txn[s].act /\ T.on = txn[s].on /\ T.by = txn[s].by /\ StepFits(T)
    BY <1>0, <1>s DEF Txn, Steps, StepFits
  <2>2. txn' = [txn EXCEPT ![s] = T]
    BY <1>0, <1>1 DEF WriteException, Go
  <2>3. txn[s].step = "ready"
    BY <1>1 DEF WriteException, At
  <2>4. UNCHANGED <<clock, manager, enabled, exception, request, campaign, item, writes>>
    BY <1>1 DEF WriteException, Go
  <2> HIDE DEF T
  <2> QED BY <2>1, <2>2, <2>3, <2>4, Proceeding
<1>2. CASE Transition(s)
  <2> DEFINE T == [txn[s] EXCEPT !.step = IF txn[s].act = "approve" THEN "ready" ELSE "settled",
                                 !.sets = Granted(txn[s].on)]
  <2>1. Deciding(s) /\ request[txn[s].on].state = "pending" /\ ~RequestLocked(txn[s].on)
    BY <1>2 DEF Transition
  <2>2. Granted(txn[s].on) \in Exception
    BY <2>1, GovernanceAssumption
       DEF Granted, Exception, Request, Never, Inv, NotOneself, GovernanceTypeOK
  <2>3. T \in Txn /\ T.act = txn[s].act /\ T.on = txn[s].on /\ T.by = txn[s].by /\ StepFits(T)
    BY <1>0, <2>2 DEF Txn, Steps, StepFits
  <2>4. txn' = [txn EXCEPT ![s] = T]
    BY <1>0, <1>2 DEF Transition
  <2>5. UNCHANGED <<clock, manager, enabled, exception, request, campaign, item, writes>>
    BY <1>2 DEF Transition
  <2> HIDE DEF T
  <2> QED BY <2>1, <2>3, <2>4, <2>5, Proceeding
<1>3. CASE Snapshot(s)
  <2> DEFINE T == [txn[s] EXCEPT !.step = "found",
          !.found = IF enabled THEN {Formula} \cup LiveIncludes(txn[s].now) ELSE {}]
  <2>0. txn[s].act = "open"
    BY <1>3, <1>s DEF Snapshot, At, StepFits
  <2>1. T \in Txn /\ T.act = txn[s].act /\ T.on = txn[s].on /\ T.by = txn[s].by /\ StepFits(T)
    BY <1>0, <2>0 DEF Txn, Steps, StepFits, Subjects, LiveIncludes
  <2>2. txn' = [txn EXCEPT ![s] = T]
    BY <1>0, <1>3 DEF Snapshot
  <2>4. UNCHANGED <<clock, manager, enabled, exception, request, campaign, item, writes>>
    BY <1>3 DEF Snapshot
  <2> HIDE DEF T
  <2> QED BY <2>0, <2>1, <2>2, <2>4, Proceeding
<1>8. CASE AssignReviewers(s)
  <2> DEFINE T == [txn[s] EXCEPT !.step = "settled",
          !.reviewer = [i \in Subjects |-> IF i = Formula THEN Creator ELSE Reviewer(i)]]
  <2>0. txn[s].act = "open"
    BY <1>8, <1>s DEF AssignReviewers, At, StepFits
  <2>1. \A u \in People : Reviewer(u) \in People \cup {Nobody}
    BY GovernanceAssumption DEF Reviewer, Inv, GovernanceTypeOK
  <2>2. [i \in Subjects |-> IF i = Formula THEN Creator ELSE Reviewer(i)]
            \in [Subjects -> People \cup {Nobody}]
    BY <2>1, GovernanceAssumption DEF Subjects
  <2>3. T \in Txn /\ T.act = txn[s].act /\ T.on = txn[s].on /\ T.by = txn[s].by /\ StepFits(T)
    BY <1>0, <2>2 DEF Txn, Steps, StepFits
  <2>4. txn' = [txn EXCEPT ![s] = T]
    BY <1>0, <1>8 DEF AssignReviewers
  <2>5. UNCHANGED <<clock, manager, enabled, exception, request, campaign, item, writes>>
    BY <1>8 DEF AssignReviewers
  <2> HIDE DEF T
  <2> QED BY <2>0, <2>3, <2>4, <2>5, Proceeding
<1>4. CASE CheckCampaign(s)
  <2> DEFINE T == [txn[s] EXCEPT !.step = "checked"]
  <2>0. Reviewing(s)
    BY <1>4 DEF CheckCampaign
  <2>1. /\ T \in Txn /\ T.act = txn[s].act /\ T.on = txn[s].on /\ T.by = txn[s].by
        /\ T.step = "checked" /\ StepFits(T)
    BY <1>0, <2>0 DEF Txn, Steps, StepFits
  <2>2. txn' = [txn EXCEPT ![s] = T]
    BY <1>0, <1>4 DEF CheckCampaign, Go
  <2>3. UNCHANGED <<clock, manager, enabled, exception, request, campaign, item, writes>>
    BY <1>4 DEF CheckCampaign, Go
  <2> HIDE DEF T
  <2> QED BY <2>1, <2>2, <2>3, Proceeding
<1>5. CASE DecideItem(s)
  <2> DEFINE T == [txn[s] EXCEPT !.step =
          IF txn[s].act = "revoke" /\ txn[s].on # Formula THEN "decided" ELSE "settled"]
  <2>1. T \in Txn /\ T.act = txn[s].act /\ T.on = txn[s].on /\ T.by = txn[s].by /\ StepFits(T)
    BY <1>0, <1>s DEF Txn, Steps, StepFits
  <2>2. txn' = [txn EXCEPT ![s] = T]
    BY <1>0, <1>5 DEF DecideItem, Go
  <2>3. txn[s].step = "checked" /\ item[txn[s].on].decision = "pending" /\ ~ItemLocked(txn[s].on)
    BY <1>5 DEF DecideItem, At
  <2>4. UNCHANGED <<clock, manager, enabled, exception, request, campaign, item, writes>>
    BY <1>5 DEF DecideItem, Go
  <2>5. Reviewing(s)
    BY <2>3, <1>s DEF StepFits
  <2> HIDE DEF T
  <2> QED BY <2>1, <2>2, <2>3, <2>4, <2>5, Proceeding
<1>6. CASE ReadCurrent(s)
  <2> DEFINE current == exception[txn[s].on]
  <2> DEFINE T == IF Live(current, txn[s].now)
                  THEN [txn[s] EXCEPT !.step = "ready",
                                      !.sets = [current EXCEPT !.expiresAt = txn[s].now - 1]]
                  ELSE [txn[s] EXCEPT !.step = "settled"]
  <2>1. txn[s].step = "decided" /\ Reviewing(s) /\ txn[s].on \in People
    BY <1>6, <1>s DEF ReadCurrent, At, StepFits, Subjects, Inv, NotOneself
  <2>2. current \in Exception /\ txn[s].now \in 0..MaxClock
    BY <1>0, <2>1 DEF Inv, GovernanceTypeOK, Txn
  <2>3. [current EXCEPT !.expiresAt = txn[s].now - 1] \in Exception
    BY <2>2, GovernanceAssumption DEF Exception, Never
  <2>4. T \in Txn /\ T.act = txn[s].act /\ T.on = txn[s].on /\ T.by = txn[s].by /\ StepFits(T)
    BY <1>0, <2>3 DEF Txn, Steps, StepFits
  <2>5. txn' = [txn EXCEPT ![s] = T]
    BY <1>0, <1>6 DEF ReadCurrent
  <2>6. UNCHANGED <<clock, manager, enabled, exception, request, campaign, item, writes>>
    BY <1>6 DEF ReadCurrent
  <2> HIDE DEF T
  <2> QED BY <2>1, <2>4, <2>5, <2>6, Proceeding
<1>7. CASE Abort(s)
  <2>1. txn' = [txn EXCEPT ![s] = Idle] /\ writes' \in 0..MaxWrites
    BY <1>7 DEF Abort, Inv, GovernanceTypeOK
  <2>2. StepFits(Idle) /\ RequestFits(s, Idle) /\ ItemFits(s, Idle) /\ CampaignFits(s, Idle)
    BY DEF StepFits, RequestFits, ItemFits, CampaignFits, Idle
  <2>3. UNCHANGED <<clock, manager, enabled, exception, request, campaign, item>>
    BY <1>7 DEF Abort
  <2> QED BY <2>1, <2>2, <2>3, IdleIsTxn, Move
<1> QED BY <1>1, <1>2, <1>3, <1>4, <1>5, <1>6, <1>7, <1>8

-----------------------------------------------------------------------------
(* The one step that changes rows.                                         *)
LEMMA Commits ==
    ASSUME Inv, NEW s \in Sessions, Commit(s)
    PROVE  /\ Inv'
           /\ \A q \in Requests :
                 request[q].state \notin {"absent", "pending"} => request'[q] = request[q]
           /\ \A i \in Subjects :
                 item[i].decision \notin {"absent", "pending"} => item'[i] = item[i]
<1> DEFINE q == txn[s].on
<1>0. /\ txn \in [Sessions -> Txn] /\ txn[s] \in Txn /\ txn' = [txn EXCEPT ![s] = Idle]
      /\ exception \in [People -> Exception] /\ request \in [Requests -> Request]
      /\ item \in [Subjects -> Item] /\ txn[s].step \in {"written", "settled"}
  BY DEF Inv, GovernanceTypeOK, Commit
<1>b. txn[s].by \in People \cup {Nobody} /\ txn[s].sets \in Exception
  BY <1>0 DEF Txn
<1>1. txn'[s] = Idle /\ \A t \in Sessions : t # s => txn'[t] = txn[t]
  BY <1>0
<1>2. Deciding(s) => HoldsRequest(s) /\ q \in Requests /\ request[q].state = "pending"
  BY <1>0 DEF Inv, NotOneself, RequestsInHand
<1>3. Reviewing(s) => HoldsItem(s) /\ q \in Subjects /\ item[q].decision = "pending"
  BY <1>0 DEF Inv, NotOneself, ItemsInHand
<1>4. request' \in [Requests -> Request]
  <2>1. Deciding(s) => Outcome(txn[s].act) \in {"approved", "denied", "cancelled"}
    BY DEF Outcome
  <2> QED BY <1>0, <1>b, <1>2, <2>1 DEF Commit, Request
<1>5. txn[s].act = "open" => campaign = "draft" /\ \A i \in Subjects : item[i].decision = "absent"
  BY DEF Inv, CampaignInHand, NoItemsInDraft
<1>6. item' \in [Subjects -> Item]
  <2>1. CASE Reviewing(s)
    <3>1. Outcome(txn[s].act) \in {"certified", "revoked"}
      BY <2>1 DEF Outcome
    <3> QED BY <1>0, <1>b, <1>3, <2>1, <3>1 DEF Commit, Item
  <2>2. CASE txn[s].act = "open"
    <3>1. txn[s].reviewer \in [Subjects -> People \cup {Nobody}]
      BY <1>0 DEF Txn
    <3>2. \A i \in Subjects : Snapshotted(s)[i] \in Item
      BY <1>0, <3>1 DEF Snapshotted, Item
    <3> QED BY <2>2, <3>2 DEF Commit, Snapshotted
  <2>3. CASE ~Reviewing(s) /\ txn[s].act # "open"
    BY <1>0, <2>3 DEF Commit
  <2> QED BY <2>1, <2>2, <2>3
<1>7. exception' \in [People -> Exception]
  BY <1>0, <1>b DEF Commit
<1>8. campaign' \in {"draft", "open", "closed"}
  BY DEF Commit, Outcome, Inv, GovernanceTypeOK
<1>9. GovernanceTypeOK'
  BY <1>0, <1>4, <1>6, <1>7, <1>8, IdleIsTxn DEF Commit, Inv, GovernanceTypeOK
(* Only the row the transaction has locked changes.                        *)
<1>10. \A r \in Requests :
          /\ request'[r].subject = request[r].subject
          /\ request'[r].state = "absent" => request[r].state = "absent"
          /\ ~(Deciding(s) /\ r = q) => request'[r] = request[r]
  <2>1. CASE Deciding(s)
    <3>1. PICK o : o = Outcome(txn[s].act) /\ o # "absent"
      BY <2>1 DEF Deciding, Outcome
    <3>2. PICK row : row = [request[q] EXCEPT !.state = o, !.decidedBy = txn[s].by]
      OBVIOUS
    <3>3. request' = [request EXCEPT ![q] = row]
      BY <2>1, <3>1, <3>2, <1>0, <1>2 DEF Commit
    <3>4. row.subject = request[q].subject /\ row.state = o
      BY <1>0, <1>2, <2>1, <3>2 DEF Request
    <3> QED BY <1>0, <1>2, <2>1, <3>1, <3>3, <3>4
  <2>2. CASE ~Deciding(s)
    BY <2>2 DEF Commit
  <2> QED BY <2>1, <2>2
<1>11. \A i \in Subjects :
          /\ item'[i].decision = "absent" => item[i].decision = "absent"
          /\ ~(Reviewing(s) /\ i = q) /\ txn[s].act # "open" => item'[i] = item[i]
  BY <1>0, <1>3, <1>5 DEF Commit, Outcome, Item
<1>12. NobodyDecidesTheirOwn'
  <2>1. \A r \in Requests :
           request'[r].state \in {"approved", "denied"} => request'[r].decidedBy # request'[r].subject
    <3>1. Deciding(s) => /\ request'[q].decidedBy = txn[s].by
                         /\ request'[q].state = Outcome(txn[s].act)
      BY <1>0, <1>2 DEF Commit, Request
    <3>2. Deciding(s) /\ txn[s].act # "cancel" => txn[s].by # request[q].subject
      BY DEF Inv, NotOneself
    <3> QED BY <1>10, <3>1, <3>2 DEF Outcome, Inv, NobodyDecidesTheirOwn
  <2>2. \A i \in Subjects : item'[i].decidedBy # i
    <3>1. CASE Reviewing(s)
      BY <1>0, <1>3, <1>11, <3>1 DEF Commit, Item, Inv, NobodyDecidesTheirOwn, NotOneself
    <3>2. CASE txn[s].act = "open"
      <4>1. \A i \in Subjects : Snapshotted(s)[i].decidedBy # i
        BY GovernanceAssumption DEF Snapshotted, Subjects, Inv, NobodyDecidesTheirOwn
      <4> QED BY <3>2, <4>1 DEF Commit
    <3>3. CASE ~Reviewing(s) /\ txn[s].act # "open"
      BY <1>11, <3>3 DEF Inv, NobodyDecidesTheirOwn
    <3> QED BY <3>1, <3>2, <3>3
  <2> QED BY <2>1, <2>2 DEF NobodyDecidesTheirOwn
<1>13. StepsFit'
  BY <1>1 DEF Inv, StepsFit, StepFits, Idle
<1>14. NotOneself'
  BY <1>1, <1>10, <1>11 DEF Inv, NotOneself, Idle
<1>15. RequestsInHand'
  <2> SUFFICES ASSUME NEW t \in Sessions, HoldsRequest(t)'
               PROVE  /\ request'[txn[t].on].state = "pending"
                      /\ t # s
                      /\ \A o \in Sessions : HoldsRequest(o)' /\ txn'[o].on = txn'[t].on => o = t
    BY <1>1 DEF RequestsInHand
  <2>1. t # s /\ HoldsRequest(t) /\ txn'[t] = txn[t]
    BY <1>1 DEF Idle
  <2>2. txn[t].on \in Requests /\ ~(Deciding(s) /\ txn[t].on = q)
    BY <1>2, <2>1 DEF Inv, NotOneself, RequestsInHand
  <2>3. request'[txn[t].on].state = "pending"
    BY <1>10, <2>1, <2>2 DEF Inv, RequestsInHand
  <2>4. \A o \in Sessions : HoldsRequest(o)' => HoldsRequest(o) /\ txn'[o] = txn[o]
    BY <1>1 DEF Idle
  <2> QED BY <2>1, <2>3, <2>4 DEF Inv, RequestsInHand
<1>16. ItemsInHand'
  <2> SUFFICES ASSUME NEW t \in Sessions, HoldsItem(t)'
               PROVE  /\ item'[txn[t].on].decision = "pending"
                      /\ t # s
                      /\ \A o \in Sessions : HoldsItem(o)' /\ txn'[o].on = txn'[t].on => o = t
    BY <1>1 DEF ItemsInHand
  <2>1. t # s /\ HoldsItem(t) /\ txn'[t] = txn[t]
    BY <1>1 DEF Idle
  <2>2. /\ txn[t].on \in Subjects /\ ~(Reviewing(s) /\ txn[t].on = q)
        /\ txn[s].act # "open"
    BY <1>3, <1>5, <2>1 DEF Inv, NotOneself, ItemsInHand
  <2>3. item'[txn[t].on].decision = "pending"
    BY <1>11, <2>1, <2>2 DEF Inv, ItemsInHand
  <2>4. \A o \in Sessions : HoldsItem(o)' => HoldsItem(o) /\ txn'[o] = txn[o]
    BY <1>1 DEF Idle
  <2> QED BY <2>1, <2>3, <2>4 DEF Inv, ItemsInHand
<1>17. CampaignInHand'
  <2>1. \A t \in Sessions : HoldsCampaign(t)' => t # s /\ HoldsCampaign(t) /\ txn'[t] = txn[t]
    BY <1>1 DEF Idle
  <2>2. HoldsCampaign(s) => \A t \in Sessions : ~HoldsCampaign(t)'
    BY <2>1 DEF Inv, CampaignInHand
  <2>3. ~HoldsCampaign(s) => campaign' = campaign
    BY DEF Commit
  <2> QED BY <2>1, <2>2, <2>3 DEF Inv, CampaignInHand
<1>18. NoItemsInDraft'
  <2>1. campaign' = "draft" => campaign = "draft" /\ txn[s].act # "open" /\ ~Reviewing(s)
    BY <1>3 DEF Commit, Outcome, Inv, NoItemsInDraft
  <2> QED BY <1>11, <2>1 DEF Inv, NoItemsInDraft
<1>19. Inv'
  BY <1>9, <1>12, <1>13, <1>14, <1>15, <1>16, <1>17, <1>18 DEF Inv
<1> QED BY <1>2, <1>3, <1>5, <1>10, <1>11, <1>19

-----------------------------------------------------------------------------
(* What other requests and time change.                                    *)
LEMMA Surroundings ==
    ASSUME Inv,
           \/ \E q \in Requests, u \in People, e \in Expiries : Ask(q, u, e)
           \/ \E u \in People, m \in People \cup {Nobody} : ChangeManager(u, m)
           \/ SetEnabled
           \/ Tick
           \/ UNCHANGED gvars
    PROVE  Inv'
<1>1. ASSUME NEW q \in Requests, NEW u \in People, NEW e \in Expiries, Ask(q, u, e)
      PROVE  Inv'
  <2>1. /\ request[q].state = "absent"
        /\ UNCHANGED <<clock, manager, enabled, exception, campaign, item, txn>>
        /\ writes' \in 0..MaxWrites
    BY <1>1, GovernanceAssumption DEF Ask, Inv, GovernanceTypeOK
  <2>2. request' \in [Requests -> Request]
    BY <1>1, GovernanceAssumption DEF Ask, Inv, GovernanceTypeOK, Request, Expiries, Never
  <2>3. \A r \in Requests : r # q => request'[r] = request[r]
    BY <1>1 DEF Ask, Inv, GovernanceTypeOK
  <2>4. request'[q].state = "pending"
    BY <1>1 DEF Ask, Inv, GovernanceTypeOK
  <2>5. \A s \in Sessions : Deciding(s) => txn[s].on \in Requests \ {q}
    BY <2>1 DEF Inv, NotOneself
  <2>6. GovernanceTypeOK'
    BY <2>1, <2>2 DEF Inv, GovernanceTypeOK
  <2>7. NobodyDecidesTheirOwn'
    BY <2>1, <2>3, <2>4 DEF Inv, NobodyDecidesTheirOwn
  <2>8. NotOneself' /\ RequestsInHand'
    BY <2>1, <2>3, <2>5 DEF Inv, NotOneself, RequestsInHand
  <2>9. StepsFit' /\ ItemsInHand' /\ CampaignInHand' /\ NoItemsInDraft'
    BY <2>1 DEF Inv, StepsFit, ItemsInHand, CampaignInHand, NoItemsInDraft
  <2> QED BY <2>6, <2>7, <2>8, <2>9 DEF Inv
<1>2. ASSUME UNCHANGED <<exception, request, campaign, item, txn>>,
             clock' \in 0..MaxClock, manager' \in [People -> People \cup {Nobody}],
             enabled' \in BOOLEAN, writes' \in 0..MaxWrites
      PROVE  Inv'
  BY <1>2 DEF Inv, GovernanceTypeOK, NobodyDecidesTheirOwn, StepsFit, NotOneself,
     RequestsInHand, ItemsInHand, CampaignInHand, NoItemsInDraft
<1>3. ASSUME NEW u \in People, NEW m \in People \cup {Nobody}, ChangeManager(u, m)
      PROVE  Inv'
  BY <1>2, <1>3, GovernanceAssumption DEF ChangeManager, Inv, GovernanceTypeOK
<1>4. CASE SetEnabled
  BY <1>2, <1>4, GovernanceAssumption DEF SetEnabled, Inv, GovernanceTypeOK
<1>5. CASE Tick
  BY <1>2, <1>5, GovernanceAssumption DEF Tick, Inv, GovernanceTypeOK
<1>6. CASE UNCHANGED gvars
  BY <1>2, <1>6 DEF gvars, Inv, GovernanceTypeOK
<1> QED BY <1>1, <1>3, <1>4, <1>5, <1>6

LEMMA StepInv == Inv /\ [GovernanceNext]_gvars => Inv'
BY Begins, Statements, Commits, Surroundings DEF GovernanceNext, Continue

LEMMA Invariance == GovernanceSpec => []Inv
BY InitInv, StepInv, PTL DEF GovernanceSpec

-----------------------------------------------------------------------------
(* Every variable keeps its type.                                          *)
THEOREM GovernanceTypeCorrect == GovernanceSpec => []GovernanceTypeOK
<1>1. Inv => GovernanceTypeOK
  BY DEF Inv
<1> QED BY <1>1, Invariance, PTL

(* Nobody approves or denies their own request or reviews their own        *)
(* access: assertMayDecide and decide judge a transaction that cannot      *)
(* change its subject before it writes.                                    *)
THEOREM NobodyIsJudgeInTheirOwnCause == GovernanceSpec => []NobodyDecidesTheirOwn
<1>1. Inv => NobodyDecidesTheirOwn
  BY DEF Inv
<1> QED BY <1>1, Invariance, PTL

(* Decisions are final: transition and decideItem check the row they lock, *)
(* so of any number of racing decisions about one row only the first is    *)
(* written.                                                                *)
THEOREM DecidedOnce == GovernanceSpec => DecisionsAreFinal
<1> DEFINE Final ==
      /\ \A q \in Requests :
            request[q].state \notin {"absent", "pending"} => request'[q] = request[q]
      /\ \A i \in Subjects :
            item[i].decision \notin {"absent", "pending"} => item'[i] = item[i]
<1>1. Inv /\ [GovernanceNext]_gvars => [Final]_gvars
  <2> SUFFICES ASSUME Inv, GovernanceNext
               PROVE  Final
    BY DEF gvars
  <2>1. ASSUME NEW s \in Sessions, Commit(s)
        PROVE  Final
    BY <2>1, Commits
  <2>2. ASSUME NEW q \in Requests, NEW u \in People, NEW e \in Expiries, Ask(q, u, e)
        PROVE  Final
    BY <2>2 DEF Ask, Inv, GovernanceTypeOK
  <2>3. ASSUME UNCHANGED <<request, item>>
        PROVE  Final
    BY <2>3
  <2>4. ASSUME NEW s \in Sessions, Send(s) \/ WriteException(s) \/ Transition(s) \/ Snapshot(s)
                 \/ AssignReviewers(s) \/ CheckCampaign(s) \/ DecideItem(s) \/ ReadCurrent(s) \/ Abort(s)
        PROVE  UNCHANGED <<request, item>>
    BY <2>4 DEF Send, SetException, RemoveException, Judge, Review, OpenCampaign, CloseCampaign,
       Begin, WriteException, Transition, Snapshot, AssignReviewers, CheckCampaign, DecideItem, ReadCurrent, Abort, Go
  <2>5. ASSUME \/ \E u \in People, m \in People \cup {Nobody} : ChangeManager(u, m)
               \/ SetEnabled \/ Tick
        PROVE  UNCHANGED <<request, item>>
    BY <2>5 DEF ChangeManager, SetEnabled, Tick
  <2> QED BY <2>1, <2>2, <2>3, <2>4, <2>5 DEF GovernanceNext, Continue
<1> QED BY <1>1, Invariance, PTL DEF GovernanceSpec, DecisionsAreFinal

-----------------------------------------------------------------------------
(* Once its request is updated, an approval has the grant in its hand and  *)
(* writes it before it can commit; and a request is somebody's.            *)
GrantInHand ==
    \A s \in Sessions :
        txn[s].act = "approve" /\ txn[s].step \in {"ready", "written", "settled"} =>
            txn[s].step # "settled" /\ txn[s].sets = Granted(txn[s].on)

RequestsAreSomebodys == \A q \in Requests : request[q].state # "absent" => request[q].subject \in People

LEMMA GrantInHandMove ==
    ASSUME Inv, GrantInHand, NEW s \in Sessions, NEW T,
           txn' = [txn EXCEPT ![s] = T], UNCHANGED request,
           T.act = "approve" /\ T.step \in {"ready", "written", "settled"} =>
               T.step # "settled" /\ T.sets = Granted(T.on)
    PROVE  GrantInHand'
<1>1. txn'[s] = T /\ \A t \in Sessions : t # s => txn'[t] = txn[t]
  BY DEF Inv, GovernanceTypeOK
<1> QED BY <1>1 DEF GrantInHand, Granted

LEMMA GrantInHandKept == Inv /\ GrantInHand /\ [GovernanceNext]_gvars => GrantInHand'
<1> SUFFICES ASSUME Inv, GrantInHand, [GovernanceNext]_gvars PROVE GrantInHand'
  OBVIOUS
<1>0. \A s \in Sessions : txn[s] \in Txn /\ StepFits(txn[s])
  BY DEF Inv, GovernanceTypeOK, StepsFit
<1>1. ASSUME NEW s \in Sessions, NEW act, NEW on, NEW by, NEW step, NEW x,
             Begin(s, act, on, by, step, x), act = "approve" => step = "judged"
      PROVE  GrantInHand'
  <2> DEFINE T == [step |-> step, act |-> act, on |-> on, by |-> by, now |-> clock,
                   sets |-> x, found |-> {}, reviewer |-> NoReviewer]
  <2>1. txn' = [txn EXCEPT ![s] = T] /\ UNCHANGED request
    BY <1>1 DEF Begin
  <2>2. T.act = "approve" => T.step = "judged"
    BY <1>1
  <2> HIDE DEF T
  <2> QED BY <2>1, <2>2, GrantInHandMove
<1>2. ASSUME NEW s \in Sessions, Send(s)
      PROVE  GrantInHand'
  <2>1. \E act, on, by, step, x : Begin(s, act, on, by, step, x) /\ (act = "approve" => step = "judged")
    <3>0. \A c \in {"set", "remove", "open", "close"} : c # "approve"
      OBVIOUS
    <3>1. ASSUME NEW u, NEW x, SetException(s, u, x) \/ RemoveException(s, u)
          PROVE  \E act, on, by, step, y : Begin(s, act, on, by, step, y) /\ (act = "approve" => step = "judged")
      <4>1. "set" # "approve" /\ "remove" # "approve"
        BY <3>0
      <4> QED BY <3>1, <4>1, Zenon DEF SetException, RemoveException
    <3>2. ASSUME NEW q, NEW a, NEW act, Judge(s, act, q, a) \/ Review(s, act, q, a)
          PROVE  \E c, on, by, step, y : Begin(s, c, on, by, step, y) /\ (c = "approve" => step = "judged")
      BY <3>2, Zenon DEF Judge, Review
    <3>3. ASSUME OpenCampaign(s) \/ CloseCampaign(s)
          PROVE  \E act, on, by, step, y : Begin(s, act, on, by, step, y) /\ (act = "approve" => step = "judged")
      <4>1. "open" # "approve" /\ "close" # "approve"
        BY <3>0
      <4> QED BY <3>3, <4>1, Zenon DEF OpenCampaign, CloseCampaign
    <3> QED BY <1>2, <3>1, <3>2, <3>3, Zenon DEF Send
  <2> QED BY <1>1, <2>1, Zenon
<1>3. ASSUME NEW s \in Sessions, WriteException(s)
      PROVE  GrantInHand'
  <2> DEFINE T == [txn[s] EXCEPT !.step = "written"]
  <2>1. txn' = [txn EXCEPT ![s] = T] /\ UNCHANGED request /\ txn[s].step = "ready"
    BY <1>3 DEF WriteException, Go, At
  <2>2. T.act = txn[s].act /\ T.on = txn[s].on /\ T.sets = txn[s].sets /\ T.step = "written"
    BY <1>0 DEF Txn
  <2> HIDE DEF T
  <2> QED BY <2>1, <2>2, GrantInHandMove DEF GrantInHand
<1>4. ASSUME NEW s \in Sessions, Transition(s)
      PROVE  GrantInHand'
  <2> DEFINE T == [txn[s] EXCEPT !.step = IF txn[s].act = "approve" THEN "ready" ELSE "settled",
                                 !.sets = Granted(txn[s].on)]
  <2>1. txn' = [txn EXCEPT ![s] = T] /\ UNCHANGED request
    BY <1>4 DEF Transition
  <2>2. /\ T.act = txn[s].act /\ T.on = txn[s].on /\ T.sets = Granted(txn[s].on)
        /\ T.step = IF txn[s].act = "approve" THEN "ready" ELSE "settled"
    BY <1>0 DEF Txn
  <2> HIDE DEF T
  <2> QED BY <2>1, <2>2, GrantInHandMove
(* The other statements are not an approval's.                             *)
<1>5. ASSUME NEW s \in Sessions, Snapshot(s) \/ AssignReviewers(s) \/ CheckCampaign(s)
                                  \/ DecideItem(s) \/ ReadCurrent(s)
      PROVE  GrantInHand'
  <2>1. txn[s].act # "approve"
    BY <1>0, <1>5 DEF Snapshot, AssignReviewers, CheckCampaign, DecideItem, ReadCurrent, At, StepFits
  <2>2. UNCHANGED request
    BY <1>5 DEF Snapshot, AssignReviewers, CheckCampaign, DecideItem, ReadCurrent, Go
  <2>3. PICK T : txn' = [txn EXCEPT ![s] = T] /\ T.act = txn[s].act
    <3>1. CASE Snapshot(s)
      <4> DEFINE T == [txn[s] EXCEPT !.step = "found",
                       !.found = IF enabled THEN {Formula} \cup LiveIncludes(txn[s].now) ELSE {}]
      <4>1. txn' = [txn EXCEPT ![s] = T] /\ T.act = txn[s].act
        BY <1>0, <3>1 DEF Snapshot, Txn
      <4> QED BY <4>1
    <3>2. CASE AssignReviewers(s)
      <4> DEFINE T == [txn[s] EXCEPT !.step = "settled",
                       !.reviewer = [i \in Subjects |-> IF i = Formula THEN Creator ELSE Reviewer(i)]]
      <4>1. txn' = [txn EXCEPT ![s] = T] /\ T.act = txn[s].act
        BY <1>0, <3>2 DEF AssignReviewers, Txn
      <4> QED BY <4>1
    <3>3. CASE CheckCampaign(s)
      <4> DEFINE T == [txn[s] EXCEPT !.step = "checked"]
      <4>1. txn' = [txn EXCEPT ![s] = T] /\ T.act = txn[s].act
        BY <1>0, <3>3 DEF CheckCampaign, Go, Txn
      <4> QED BY <4>1
    <3>4. CASE DecideItem(s)
      <4> DEFINE to == IF txn[s].act = "revoke" /\ txn[s].on # Formula THEN "decided" ELSE "settled"
                 T == [txn[s] EXCEPT !.step = to]
      <4>1. txn' = [txn EXCEPT ![s] = T] /\ T.act = txn[s].act
        BY <1>0, <3>4 DEF DecideItem, Go, Txn
      <4> QED BY <4>1
    <3>5. CASE ReadCurrent(s)
      <4> DEFINE current == exception[txn[s].on]
                 T == IF Live(current, txn[s].now)
                      THEN [txn[s] EXCEPT !.step = "ready",
                                          !.sets = [current EXCEPT !.expiresAt = txn[s].now - 1]]
                      ELSE [txn[s] EXCEPT !.step = "settled"]
      <4>1. txn' = [txn EXCEPT ![s] = T] /\ T.act = txn[s].act
        BY <1>0, <3>5 DEF ReadCurrent, Txn
      <4> QED BY <4>1
    <3> QED BY <1>5, <3>1, <3>2, <3>3, <3>4, <3>5
  <2> QED BY <2>1, <2>2, <2>3, GrantInHandMove
<1>6. ASSUME NEW s \in Sessions, Abort(s)
      PROVE  GrantInHand'
  BY <1>6, GrantInHandMove DEF Abort, Idle
<1>7. ASSUME NEW s \in Sessions, Commit(s)
      PROVE  GrantInHand'
  <2>1. txn'[s] = Idle /\ \A t \in Sessions : t # s => txn'[t] = txn[t]
    BY <1>7 DEF Commit, Inv, GovernanceTypeOK
  <2>2. \A q \in Requests : request'[q].until = request[q].until
    BY <1>7 DEF Commit, Inv, GovernanceTypeOK, Request
  <2>3. \A t \in Sessions : txn[t].act = "approve" => txn[t].on \in Requests
    BY DEF Inv, NotOneself
  <2> QED BY <2>1, <2>2, <2>3 DEF GrantInHand, Granted, Idle
<1>8. ASSUME NEW q \in Requests, NEW u \in People, NEW e \in Expiries, Ask(q, u, e)
      PROVE  GrantInHand'
  <2>1. UNCHANGED txn /\ request[q].state = "absent" /\ \A r \in Requests : r # q => request'[r] = request[r]
    BY <1>8 DEF Ask, Inv, GovernanceTypeOK
  <2>2. \A t \in Sessions : txn[t].act = "approve" => txn[t].on \in Requests \ {q}
    BY <2>1 DEF Inv, NotOneself
  <2> QED BY <2>1, <2>2 DEF GrantInHand, Granted
<1>9. ASSUME UNCHANGED <<txn, request>> PROVE GrantInHand'
  BY <1>9 DEF GrantInHand, Granted
<1>10. ASSUME \/ \E u \in People, m \in People \cup {Nobody} : ChangeManager(u, m)
              \/ SetEnabled \/ Tick \/ UNCHANGED gvars
       PROVE  GrantInHand'
  BY <1>9, <1>10 DEF ChangeManager, SetEnabled, Tick, gvars
<1> QED BY <1>2, <1>3, <1>4, <1>5, <1>6, <1>7, <1>8, <1>10 DEF GovernanceNext, Continue

LEMMA RequestsStaySomebodys ==
    Inv /\ RequestsAreSomebodys /\ [GovernanceNext]_gvars => RequestsAreSomebodys'
<1> SUFFICES ASSUME Inv, RequestsAreSomebodys, [GovernanceNext]_gvars PROVE RequestsAreSomebodys'
  OBVIOUS
<1>1. ASSUME NEW s \in Sessions, Commit(s) PROVE RequestsAreSomebodys'
  <2>1. Deciding(s) => txn[s].on \in Requests /\ request[txn[s].on].state # "absent"
    BY DEF Inv, NotOneself
  <2> QED BY <1>1, <2>1 DEF Commit, RequestsAreSomebodys, Inv, GovernanceTypeOK, Request
<1>2. ASSUME NEW q \in Requests, NEW u \in People, NEW e \in Expiries, Ask(q, u, e)
      PROVE  RequestsAreSomebodys'
  BY <1>2 DEF Ask, RequestsAreSomebodys, Inv, GovernanceTypeOK
<1>3. ASSUME UNCHANGED request PROVE RequestsAreSomebodys'
  BY <1>3 DEF RequestsAreSomebodys
<1>4. ASSUME NEW s \in Sessions, Send(s) \/ WriteException(s) \/ Transition(s) \/ Snapshot(s)
               \/ AssignReviewers(s) \/ CheckCampaign(s) \/ DecideItem(s) \/ ReadCurrent(s) \/ Abort(s)
      PROVE  UNCHANGED request
  BY <1>4 DEF Send, SetException, RemoveException, Judge, Review, OpenCampaign, CloseCampaign,
     Begin, WriteException, Transition, Snapshot, AssignReviewers, CheckCampaign, DecideItem, ReadCurrent, Abort, Go
<1>5. ASSUME \/ \E u \in People, m \in People \cup {Nobody} : ChangeManager(u, m)
             \/ SetEnabled \/ Tick \/ UNCHANGED gvars
      PROVE  UNCHANGED request
  BY <1>5 DEF ChangeManager, SetEnabled, Tick, gvars
<1> QED BY <1>1, <1>2, <1>3, <1>4, <1>5 DEF GovernanceNext, Continue

LEMMA GrantInvariance == GovernanceSpec => [](Inv /\ GrantInHand /\ RequestsAreSomebodys)
<1>1. GovernanceInit => GrantInHand /\ RequestsAreSomebodys
  BY DEF GovernanceInit, GrantInHand, RequestsAreSomebodys, Idle, NoRequest
<1> QED BY <1>1, InitInv, StepInv, GrantInHandKept, RequestsStaySomebodys, PTL DEF GovernanceSpec

(* A request becomes approved in the very step that gives its subject the  *)
(* exception that was asked for: no interleaving of deciders, requesters   *)
(* who withdraw and administrators who edit the same exception parts them. *)
THEOREM ApprovedIsGranted == GovernanceSpec => ApprovalsCarryTheirException
<1> DEFINE Carried ==
      \A q \in Requests :
          request[q].state # "approved" /\ request'[q].state = "approved" =>
              exception'[request[q].subject] = Granted(q)
<1>1. Inv /\ GrantInHand /\ RequestsAreSomebodys /\ [GovernanceNext]_gvars => [Carried]_gvars
  <2> SUFFICES ASSUME Inv, GrantInHand, RequestsAreSomebodys, GovernanceNext
               PROVE  Carried
    BY DEF gvars
  <2>1. ASSUME NEW s \in Sessions, Commit(s)
        PROVE  Carried
    <3> SUFFICES ASSUME NEW q \in Requests, request[q].state # "approved", request'[q].state = "approved"
                 PROVE  exception'[request[q].subject] = Granted(q)
      OBVIOUS
    <3>1. Deciding(s) /\ txn[s].on = q
      BY <2>1 DEF Commit, Inv, GovernanceTypeOK, NotOneself
    <3>2. request'[q].state = Outcome(txn[s].act) /\ request[q].state # "absent"
      BY <2>1, <3>1 DEF Commit, Inv, GovernanceTypeOK, NotOneself, Request
    <3>3. txn[s].act = "approve"
      BY <3>1, <3>2 DEF Outcome
    <3>4. txn[s].step = "written" /\ txn[s].sets = Granted(q)
      BY <2>1, <3>1, <3>3 DEF Commit, GrantInHand
    <3>5. Person(s) = request[q].subject /\ request[q].subject \in People
      BY <3>1, <3>2 DEF Person, RequestsAreSomebodys
    <3> QED BY <2>1, <3>4, <3>5 DEF Commit, Inv, GovernanceTypeOK
  <2>2. ASSUME NEW q \in Requests, NEW u \in People, NEW e \in Expiries, Ask(q, u, e)
        PROVE  Carried
    BY <2>2 DEF Ask, Inv, GovernanceTypeOK
  <2>3. ASSUME UNCHANGED request PROVE Carried
    BY <2>3
  <2>4. ASSUME NEW s \in Sessions, Send(s) \/ WriteException(s) \/ Transition(s) \/ Snapshot(s)
                 \/ AssignReviewers(s) \/ CheckCampaign(s) \/ DecideItem(s) \/ ReadCurrent(s) \/ Abort(s)
        PROVE  UNCHANGED request
    BY <2>4 DEF Send, SetException, RemoveException, Judge, Review, OpenCampaign, CloseCampaign,
       Begin, WriteException, Transition, Snapshot, AssignReviewers, CheckCampaign, DecideItem, ReadCurrent, Abort, Go
  <2>5. ASSUME \/ \E u \in People, m \in People \cup {Nobody} : ChangeManager(u, m)
               \/ SetEnabled \/ Tick
        PROVE  UNCHANGED request
    BY <2>5 DEF ChangeManager, SetEnabled, Tick
  <2> QED BY <2>1, <2>2, <2>3, <2>4, <2>5 DEF GovernanceNext, Continue
<1> QED BY <1>1, GrantInvariance, PTL DEF GovernanceSpec, ApprovalsCarryTheirException
-----------------------------------------------------------------------------
(* The migration.                                                          *)

(* Records keep their fields, the table its users.                         *)
MigrationShape ==
    /\ definition = [type |-> definition.type, sensitive |-> definition.sensitive,
                     default |-> definition.default]
    /\ stored = [u \in Holders |-> stored[u]]
    /\ walk = [does |-> walk.does, from |-> walk.from, to |-> walk.to, seen |-> walk.seen,
               after |-> walk.after, sensitive |-> walk.sensitive, forced |-> walk.forced,
               step |-> walk.step, done |-> walk.done]

(* Only a commit comes to apply; from its lock on the definition keeps its *)
(* type, and from its check on it goes by what was approved; the rows it   *)
(* has written and locked are as they were seen.                           *)
AppliesTheApproved ==
    /\ walk.does \in {"nothing", "preview", "commit"}
    /\ walk.does = "nothing" => walk.step = "-"
    /\ walk.does = "commit" => walk.step \in {"walk", "check", "apply"} /\ walk.from = definition.type
    /\ walk.step # "apply" => walk.done = {}
    /\ walk.step = "apply" =>
          /\ walk.does = "commit"
          /\ walk.seen = approved.seen
          /\ walk.done \subseteq Changed(walk)
          /\ \A u \in walk.done : stored[u] = walk.seen[u]

MInv == MigrationShape /\ AppliesTheApproved

LEMMA InitMInv == MigrationInit => MInv
<1> SUFFICES ASSUME MigrationInit PROVE MInv
  OBVIOUS
<1>1. walk = AtRest /\ AtRest.does = "nothing" /\ AtRest.step = "-" /\ AtRest.done = {}
  BY DEF MigrationInit, AtRest
<1>2. PICK t \in DataTypes, b \in BOOLEAN, d \in {NoValue} :
        definition = [type |-> t, sensitive |-> b, default |-> d]
  BY DEF MigrationInit
<1>3. MigrationShape
  BY <1>1, <1>2 DEF MigrationShape, MigrationInit, AtRest
<1> QED BY <1>1, <1>3 DEF MInv, AppliesTheApproved

LEMMA StepMInv == MInv /\ [MigrationNext]_mvars => MInv'
<1> SUFFICES ASSUME MInv, [MigrationNext]_mvars PROVE MInv'
  OBVIOUS
<1>0. /\ AtRest = [does |-> AtRest.does, from |-> AtRest.from, to |-> AtRest.to, seen |-> AtRest.seen,
                   after |-> AtRest.after, sensitive |-> AtRest.sensitive, forced |-> AtRest.forced,
                   step |-> AtRest.step, done |-> AtRest.done]
      /\ AtRest.does = "nothing" /\ AtRest.step = "-" /\ AtRest.done = {}
  BY DEF AtRest
<1>1. ASSUME walk' = AtRest, UNCHANGED <<definition, stored>> PROVE MInv'
  BY <1>0, <1>1 DEF MInv, MigrationShape, AppliesTheApproved
<1>2. ASSUME NEW to \in DataTypes, Preview(to) PROVE MInv'
  <2>1. /\ walk' = [does |-> "preview", from |-> definition.type, to |-> to, seen |-> AtRest.seen,
                    after |-> AtRest.after, sensitive |-> AtRest.sensitive, forced |-> AtRest.forced,
                    step |-> "walk", done |-> AtRest.done]
        /\ UNCHANGED <<definition, stored>>
    BY <1>0, <1>2 DEF Preview
  <2> QED BY <1>0, <2>1 DEF MInv, MigrationShape, AppliesTheApproved
<1>3. ASSUME NEW force \in BOOLEAN, StartCommit(force) PROVE MInv'
  <2>1. /\ walk' = [does |-> "commit", from |-> definition.type, to |-> approved.to, seen |-> AtRest.seen,
                    after |-> AtRest.after, sensitive |-> definition.sensitive, forced |-> force,
                    step |-> "walk", done |-> AtRest.done]
        /\ UNCHANGED <<definition, stored>>
    BY <1>0, <1>3 DEF StartCommit
  <2> QED BY <1>0, <2>1 DEF MInv, MigrationShape, AppliesTheApproved
<1>4. CASE WalkHolders
  <2>1. walk.step = "walk" /\ walk.does \in {"preview", "commit"} /\ UNCHANGED <<definition, stored>>
    BY <1>4 DEF WalkHolders, MInv, AppliesTheApproved
  <2>2. CASE walk' = [walk EXCEPT !.step = "check"]
    BY <2>1, <2>2 DEF MInv, MigrationShape, AppliesTheApproved
  <2>3. ASSUME NEW u, NEW seen, walk' = [walk EXCEPT !.after = u, !.seen = seen]
        PROVE  MInv'
    BY <2>1, <2>3 DEF MInv, MigrationShape, AppliesTheApproved
  <2> QED BY <1>4, <2>2, <2>3 DEF WalkHolders
<1>5. CASE FinishPreview
  BY <1>1, <1>5 DEF FinishPreview
<1>6. CASE CheckCommit
  <2>1. CASE Allowed
    <3>1. walk' = [walk EXCEPT !.step = "apply"] /\ UNCHANGED <<definition, stored, approved>>
      BY <1>6, <2>1 DEF CheckCommit
    <3>2. walk.seen = approved.seen /\ walk.does = "commit"
      BY <1>6, <2>1 DEF CheckCommit, Allowed, SameHash
    <3>3. walk.done = {}
      BY <1>6 DEF CheckCommit, MInv, AppliesTheApproved
    <3> QED BY <3>1, <3>2, <3>3 DEF MInv, MigrationShape, AppliesTheApproved
  <2>2. CASE ~Allowed
    BY <1>1, <1>6, <2>2 DEF CheckCommit
  <2> QED BY <2>1, <2>2
<1>7. CASE ApplyOne
  <2>1. PICK u \in Changed(walk) \ walk.done :
          walk' = IF HoldsStill(u) THEN [walk EXCEPT !.done = @ \cup {u}] ELSE AtRest
    BY <1>7 DEF ApplyOne
  <2>2. UNCHANGED <<definition, stored, approved>> /\ walk.step = "apply"
    BY <1>7 DEF ApplyOne
  <2>3. CASE HoldsStill(u)
    <3>1. walk' = [walk EXCEPT !.done = walk.done \cup {u}]
      BY <2>1, <2>3
    <3>2. walk' = [does |-> walk.does, from |-> walk.from, to |-> walk.to, seen |-> walk.seen,
                   after |-> walk.after, sensitive |-> walk.sensitive, forced |-> walk.forced,
                   step |-> walk.step, done |-> walk.done \cup {u}]
      BY <3>1 DEF MInv, MigrationShape
    <3>3. Changed(walk)' = Changed(walk)
      BY <3>2 DEF Changed
    <3> QED BY <2>2, <2>3, <3>2, <3>3 DEF MInv, MigrationShape, AppliesTheApproved, HoldsStill
  <2>4. CASE ~HoldsStill(u)
    BY <1>1, <2>1, <2>2, <2>4
  <2> QED BY <2>3, <2>4
<1>8. CASE CommitMigration
  BY <1>0, <1>8 DEF CommitMigration, MInv, MigrationShape, AppliesTheApproved
<1>9. CASE PatchSensitive \/ \E v \in Values \cup {NoValue} : PatchDefault(v)
  <2>1. ~(walk.does = "commit") /\ UNCHANGED <<stored, walk, approved>>
    BY <1>9 DEF PatchSensitive, PatchDefault, DefinitionFree, MInv, AppliesTheApproved
  <2>2. \E v : definition' = [definition EXCEPT !.sensitive = v] \/ definition' = [definition EXCEPT !.default = v]
    BY <1>9 DEF PatchSensitive, PatchDefault
  <2>3. definition' = [type |-> definition'.type, sensitive |-> definition'.sensitive,
                       default |-> definition'.default]
    BY <2>2 DEF MInv, MigrationShape
  <2> QED BY <2>1, <2>3 DEF MInv, MigrationShape, AppliesTheApproved
<1>10. CASE WriteProfile
  <2>1. /\ stored' = [stored EXCEPT ![profile.user] = profile.value]
        /\ UNCHANGED <<definition, walk, approved>>
        /\ walk.does = "commit" => profile.user \notin walk.done
    BY <1>10 DEF WriteProfile, UserFree
  <2>2. Changed(walk)' = Changed(walk)
    BY <2>1 DEF Changed
  <2>3. stored' = [u \in Holders |-> stored'[u]] /\ \A u \in Holders : u # profile.user => stored'[u] = stored[u]
    BY <2>1 DEF MInv, MigrationShape
  <2> QED BY <2>1, <2>2, <2>3 DEF MInv, MigrationShape, AppliesTheApproved
<1>11. CASE \E v \in Values \cup {NoValue}, u \in Holders : CheckProfile(u, v)
  BY <1>11 DEF CheckProfile, MInv, MigrationShape, AppliesTheApproved, Changed
<1>12. CASE UNCHANGED mvars
  BY <1>12 DEF mvars, MInv, MigrationShape, AppliesTheApproved, Changed
<1> QED BY <1>2, <1>3, <1>4, <1>5, <1>6, <1>7, <1>8, <1>9, <1>10, <1>11, <1>12 DEF MigrationNext

LEMMA MigrationInvariance == MigrationSpec => []MInv
BY InitMInv, StepMInv, PTL DEF MigrationSpec

(* A migration overwrites only values the administrator has seen, with     *)
(* what they convert to, whatever is edited and patched while it runs.     *)
THEOREM MigrationsAreApproved == MigrationSpec => OnlyApprovedValuesChange
<1> DEFINE Approved ==
      Migrates => \A u \in Holders : stored'[u] # stored[u] =>
          /\ u \in DOMAIN approved.seen /\ stored[u] = approved.seen[u]
          /\ stored'[u] = Convert(stored[u], definition.type, definition'.type)
<1>1. MInv /\ [MigrationNext]_mvars => [Approved]_mvars
  <2> SUFFICES ASSUME MInv, MigrationNext, Migrates PROVE Approved
    BY DEF mvars
  <2>1. CommitMigration
    <3>1. ASSUME UNCHANGED definition PROVE FALSE
      BY <3>1 DEF Migrates
    <3>2. ASSUME PatchSensitive \/ \E v \in Values \cup {NoValue} : PatchDefault(v) PROVE FALSE
      BY <3>2 DEF PatchSensitive, PatchDefault, Migrates, MInv, MigrationShape
    <3> QED BY <3>1, <3>2 DEF MigrationNext, Preview, StartCommit, WalkHolders, FinishPreview,
                              CheckCommit, ApplyOne, CheckProfile, WriteProfile
  <2>2. /\ walk.step = "apply" /\ walk.seen = approved.seen /\ walk.done \subseteq Changed(walk)
        /\ walk.from = definition.type
        /\ \A u \in walk.done : stored[u] = walk.seen[u]
    BY <2>1 DEF CommitMigration, MInv, AppliesTheApproved
  <2>3. definition'.type = walk.to
    BY <2>1 DEF CommitMigration, MInv, MigrationShape
  <2> SUFFICES ASSUME NEW u \in Holders, stored'[u] # stored[u]
               PROVE  /\ u \in DOMAIN approved.seen /\ stored[u] = approved.seen[u]
                      /\ stored'[u] = Convert(stored[u], definition.type, definition'.type)
    OBVIOUS
  <2>4. u \in walk.done /\ stored'[u] = Convert(walk.seen[u], walk.from, walk.to)
    BY <2>1 DEF CommitMigration
  <2> QED BY <2>2, <2>3, <2>4 DEF Changed
<1> QED BY <1>1, MigrationInvariance, PTL DEF MigrationSpec, OnlyApprovedValuesChange

-----------------------------------------------------------------------------
(* The publication.                                                        *)

CallKinds ==
    {"nothing", "simulate", "publish", "create", "patch"}

(* Who has taken the first of some keys, in the order they sort, has taken *)
(* every earlier one.                                                      *)
InOrder(taken, named) ==
    /\ taken \subseteq named
    /\ \A i, j \in 1..Len(SortedKeys) :
          i < j /\ SortedKeys[j] \in taken /\ SortedKeys[i] \in named => SortedKeys[i] \in taken

(* What a request holds, at each step of each of its kinds.                *)
Sound(q) ==
    /\ q = [does |-> q.does, role |-> q.role, key |-> q.key, on |-> q.on, draft |-> q.draft,
            others |-> q.others, found |-> q.found, keys |-> q.keys, rows |-> q.rows,
            locked |-> q.locked, step |-> q.step]
    /\ q.does \in CallKinds
    /\ q.does = "nothing" => q.step = "-" /\ q.keys = {} /\ q.locked = {}
    /\ q.does = "simulate" =>
          q.step \in {"conflicts", "counterparts"} /\ q.role \in RoleIds /\ q.keys = {} /\ q.locked = {}
    /\ q.does = "publish" =>
          /\ q.role \in RoleIds /\ q.step \in {"keys", "rows"}
          /\ InOrder(q.keys, q.draft.keys) /\ InOrder(q.locked, q.rows)
          /\ q.step = "keys" => q.locked = {}
    /\ q.does = "create" =>
          /\ q.step \in {"keys", "formulas", "insert", "commit"}
          /\ q.key \in AttributeKeys /\ q.locked = {}
          /\ q.step = "keys" => q.keys = {}
    /\ q.does = "patch" =>
          /\ q.step \in {"rows", "formulas", "commit"}
          /\ q.key \in AttributeKeys /\ q.keys = {}
          /\ q.step = "rows" => q.locked = {}

(* What is being published is the role's draft, simulated without a find.  *)
AsSimulated(q) ==
    q.does = "publish" =>
        /\ role[q.role].draft = q.draft /\ role[q.role].simulated = q.draft
        /\ role[q.role].found = 0

RolesShape ==
    role = [r \in RoleIds |->
        [published |-> role[r].published, draft |-> role[r].draft,
         simulated |-> role[r].simulated, found |-> role[r].found]]

PInv ==
    /\ RolesShape
    /\ open = [c \in Callers |-> open[c]]
    /\ \A c \in Callers : Sound(open[c]) /\ AsSimulated(open[c])
    /\ \A c, d \in Callers :
          open[c].does = "publish" /\ open[d].does = "publish" /\ open[c].role = open[d].role => c = d

LEMMA NothingIsSound ==
    /\ Sound(Nothing) /\ Nothing.does = "nothing"
    /\ Nothing = [does |-> "nothing", role |-> NoDraft, key |-> NoDraft, on |-> FALSE, draft |-> NoDraft,
                  others |-> {}, found |-> 0, keys |-> {}, rows |-> {}, locked |-> {}, step |-> "-"]
BY DEF Nothing, Sound, CallKinds

LEMMA InitPInv == PublicationInit => PInv
BY NothingIsSound DEF PublicationInit, PInv, RolesShape, AsSimulated

(* One request moves on, or rests, or one begins that does not publish.    *)
LEMMA Moves ==
    ASSUME PInv, NEW c \in Callers, NEW q, Sound(q), open' = [open EXCEPT ![c] = q],
           UNCHANGED role,
           q.does = "publish" =>
              open[c].does = "publish" /\ q.role = open[c].role /\ q.draft = open[c].draft
    PROVE  PInv'
<1>1. RolesShape'
  BY DEF PInv, RolesShape
<1>2. open' = [d \in Callers |-> open'[d]] /\ \A d \in Callers : open'[d] = IF d = c THEN q ELSE open[d]
  BY DEF PInv
<1>3. \A d \in Callers : Sound(open'[d])
  BY <1>2 DEF PInv
<1>4. ASSUME NEW d \in Callers PROVE AsSimulated(open[d])'
  BY <1>2 DEF PInv, AsSimulated
<1>5. \A d, e \in Callers :
        open'[d].does = "publish" /\ open'[e].does = "publish" /\ open'[d].role = open'[e].role => d = e
  BY <1>2 DEF PInv
<1>6. ASSUME NEW d \in Callers PROVE Sound(open[d])'
  BY <1>3 DEF Sound, InOrder
<1> QED BY <1>1, <1>2, <1>4, <1>5, <1>6 DEF PInv

(* The roles change where nobody publishes.                                *)
LEMMA Saves ==
    ASSUME PInv, NEW r \in RoleIds, \A d \in Callers : open'[d].does = "publish" => open'[d].role # r,
           RolesShape', \A s \in RoleIds \ {r} : role'[s] = role[s],
           open' = [d \in Callers |-> open'[d]],
           \A d \in Callers : open'[d] = open[d] \/ open'[d] = Nothing
    PROVE  PInv'
<1>1. \A d \in Callers : Sound(open'[d])
  BY NothingIsSound DEF PInv
<1>2. ASSUME NEW d \in Callers PROVE AsSimulated(open[d])'
  BY NothingIsSound DEF PInv, AsSimulated, Sound
<1>3. \A d, e \in Callers :
        open'[d].does = "publish" /\ open'[e].does = "publish" /\ open'[d].role = open'[e].role => d = e
  BY NothingIsSound DEF PInv
<1> QED BY <1>1, <1>2, <1>3 DEF PInv, Sound, InOrder

(* Taking the next of what is missing keeps the order.                     *)
LEMMA NextInOrder ==
    ASSUME NEW taken, NEW named, InOrder(taken, named), NEW k \in NextKeys(named \ taken)
    PROVE  InOrder(taken \cup {k}, named)
<1>1. PICK n \in 1..Len(SortedKeys) :
        SortedKeys[n] = k /\ \A j \in 1..(n - 1) : SortedKeys[j] \notin named \ taken
  BY DEF NextKeys
<1>2. k \in named /\ Len(SortedKeys) \in Nat
  BY PublicationAssumption DEF NextKeys
<1> SUFFICES ASSUME NEW i \in 1..Len(SortedKeys), NEW j \in 1..Len(SortedKeys), i < j,
                    SortedKeys[j] \in taken \cup {k}, SortedKeys[i] \in named
             PROVE  SortedKeys[i] \in taken
  BY <1>2 DEF InOrder
<1>3. CASE SortedKeys[j] \in taken
  BY <1>3 DEF InOrder
<1>4. CASE SortedKeys[j] = k
  <2>1. j = n
    BY <1>1, <1>4, PublicationAssumption
  <2> QED BY <1>1, <1>2, <2>1
<1> QED BY <1>3, <1>4

(* A request begins.                                                       *)
LEMMA Calling ==
    ASSUME PInv, NEW c \in Callers, NEW does, NEW r, NEW k, NEW on, NEW f, NEW step,
           Call(c, does, r, k, on, f, step)
    PROVE  \E q :
             /\ q = [does |-> does, role |-> r, key |-> k, on |-> q.on, draft |-> f, others |-> {},
                     found |-> 0, keys |-> {}, rows |-> {}, locked |-> {}, step |-> step]
             /\ open' = [open EXCEPT ![c] = q]
<1>1. PICK n : n = Nothing
  OBVIOUS
<1>2. PICK q : q = [n EXCEPT !.does = does, !.role = r, !.key = k, !.on = on, !.draft = f,
                             !.step = step]
  OBVIOUS
<1>3. q = [does |-> does, role |-> r, key |-> k, on |-> q.on, draft |-> f, others |-> {},
           found |-> 0, keys |-> {}, rows |-> {}, locked |-> {}, step |-> step]
  BY <1>1, <1>2, NothingIsSound
<1>4. open' = [open EXCEPT ![c] = q]
  BY <1>1, <1>2 DEF Call
<1> QED BY <1>3, <1>4

LEMMA Saving == PInv /\ (\E r \in RoleIds, f \in Formulas : SaveDraft(r, f)) => PInv'
<1> SUFFICES ASSUME PInv, NEW r \in RoleIds, NEW f \in Formulas, SaveDraft(r, f) PROVE PInv'
  OBVIOUS
<1>1. PICK row : row = Unsimulated([role[r] EXCEPT !.draft = f]) /\ role' = [role EXCEPT ![r] = row]
  BY DEF SaveDraft
<1>2. PICK saved : saved = [role[r] EXCEPT !.draft = f]
  OBVIOUS
<1>3. saved = [published |-> saved.published, draft |-> saved.draft,
               simulated |-> saved.simulated, found |-> saved.found]
  BY <1>2 DEF PInv, RolesShape
<1>4. row = [published |-> row.published, draft |-> row.draft,
             simulated |-> row.simulated, found |-> row.found]
  BY <1>1, <1>2, <1>3 DEF Unsimulated
<1>5. RolesShape' /\ \A s \in RoleIds \ {r} : role'[s] = role[s]
  BY <1>1, <1>4 DEF PInv, RolesShape
<1>6. UNCHANGED open /\ \A d \in Callers : open'[d].does = "publish" => open'[d].role # r
  BY DEF SaveDraft, RoleFree, RoleHeld
<1> QED BY <1>5, <1>6, Saves DEF PInv

LEMMA Simulating ==
    ASSUME PInv, NEW c \in Callers,
           \/ \E r \in RoleIds : Simulate(c, r)
           \/ ReadConflicts(c) \/ ReadCounterpart(c) \/ RecordSimulation(c)
    PROVE  PInv'
<1>1. ASSUME NEW r \in RoleIds, Simulate(c, r) PROVE PInv'
  <2>1. PICK q :
          /\ q = [does |-> "simulate", role |-> r, key |-> NoDraft, on |-> q.on,
                  draft |-> role[r].draft, others |-> {}, found |-> 0, keys |-> {}, rows |-> {},
                  locked |-> {}, step |-> "conflicts"]
          /\ open' = [open EXCEPT ![c] = q] /\ UNCHANGED role
    <3>1. PICK on : Call(c, "simulate", r, NoDraft, on, role[r].draft, "conflicts") /\ UNCHANGED role
      BY <1>1, Zenon DEF Simulate
    <3> QED BY <3>1, Calling
  <2>2. Sound(q) /\ q.does # "publish"
    BY <2>1 DEF Sound, CallKinds
  <2> QED BY <2>1, <2>2, Moves
<1>2. CASE ReadConflicts(c)
  <2>1. PICK q :
          /\ q = [open[c] EXCEPT !.others = {o \in RoleIds : {open[c].role, o} \in conflicts},
                                 !.step = "counterparts"]
          /\ open' = [open EXCEPT ![c] = q] /\ UNCHANGED role
    BY <1>2 DEF ReadConflicts
  <2>2. Sound(q) /\ q.does # "publish"
    <3>1. Sound(open[c]) /\ open[c].does = "simulate"
      BY <1>2 DEF ReadConflicts, PInv
    <3>2. q = [does |-> q.does, role |-> q.role, key |-> q.key, on |-> q.on, draft |-> q.draft,
               others |-> q.others, found |-> q.found, keys |-> q.keys, rows |-> q.rows,
               locked |-> q.locked, step |-> q.step]
      BY <2>1, <3>1 DEF Sound
    <3>3. /\ q.does = "simulate" /\ q.step = "counterparts" /\ q.role = open[c].role
          /\ q.keys = open[c].keys /\ q.locked = open[c].locked
      BY <2>1, <3>1 DEF Sound
    <3> QED BY <3>1, <3>2, <3>3 DEF Sound, CallKinds
  <2> QED BY <2>1, <2>2, Moves
<1>3. CASE ReadCounterpart(c)
  <2>1. PICK o \in open[c].others :
          open' = [open EXCEPT ![c] = [open[c] EXCEPT !.others = @ \ {o},
             !.found = @ + Cardinality(HeldByBoth(open[c].draft, role[o].published))]]
    BY <1>3 DEF ReadCounterpart
  <2>2. PICK q :
          /\ q = [open[c] EXCEPT !.others = @ \ {o},
                    !.found = @ + Cardinality(HeldByBoth(open[c].draft, role[o].published))]
          /\ open' = [open EXCEPT ![c] = q] /\ UNCHANGED role
    BY <1>3, <2>1 DEF ReadCounterpart
  <2>3. Sound(q) /\ q.does # "publish"
    <3>1. Sound(open[c]) /\ open[c].does = "simulate" /\ open[c].step = "counterparts"
      BY <1>3 DEF ReadCounterpart, PInv
    <3>2. q = [does |-> q.does, role |-> q.role, key |-> q.key, on |-> q.on, draft |-> q.draft,
               others |-> q.others, found |-> q.found, keys |-> q.keys, rows |-> q.rows,
               locked |-> q.locked, step |-> q.step]
      BY <2>2, <3>1 DEF Sound
    <3>3. /\ q.does = "simulate" /\ q.step = "counterparts" /\ q.role = open[c].role
          /\ q.keys = open[c].keys /\ q.locked = open[c].locked
      BY <2>2, <3>1 DEF Sound
    <3> QED BY <3>1, <3>2, <3>3 DEF Sound, CallKinds
  <2> QED BY <2>2, <2>3, Moves
<1>4. CASE RecordSimulation(c)
  <2>1. PICK r \in RoleIds : r = open[c].role /\ Done(c) /\ RoleFree(r)
    BY <1>4 DEF RecordSimulation, PInv, Sound
  <2>2. /\ \A s \in RoleIds \ {r} : role'[s] = role[s]
        /\ role' = [s \in RoleIds |-> role'[s]]
        /\ role'[r] = [published |-> role[r].published, draft |-> role[r].draft,
                       simulated |-> open[c].draft, found |-> open[c].found]
    <3>1. PICK row : row = [role[r] EXCEPT !.simulated = open[c].draft, !.found = open[c].found]
      OBVIOUS
    <3>2. role' = [role EXCEPT ![r] = row]
      BY <1>4, <2>1, <3>1 DEF RecordSimulation, PInv, RolesShape
    <3>3. row = [published |-> role[r].published, draft |-> role[r].draft,
                 simulated |-> open[c].draft, found |-> open[c].found]
      <4>1. role[r] = [published |-> role[r].published, draft |-> role[r].draft,
                       simulated |-> role[r].simulated, found |-> role[r].found]
        BY DEF PInv, RolesShape
      <4> QED BY <3>1, <4>1
    <3> QED BY <3>2, <3>3 DEF PInv, RolesShape
  <2>3. RolesShape'
    BY <2>2 DEF PInv, RolesShape
  <2>4. /\ open' = [d \in Callers |-> open'[d]]
        /\ \A d \in Callers : open'[d] = IF d = c THEN Nothing ELSE open[d]
    BY <2>1 DEF Done, PInv
  <2>5. \A d \in Callers : open'[d].does = "publish" => open'[d].role # r
    BY <2>1, <2>4, NothingIsSound DEF RoleFree, RoleHeld
  <2> QED BY <2>2, <2>3, <2>4, <2>5, Saves
<1> QED BY <1>1, <1>2, <1>3, <1>4

LEMMA Publishing ==
    ASSUME PInv, NEW c \in Callers, NEW r \in RoleIds, Publish(c, r)
    PROVE  PInv'
<1>1. PICK q :
        /\ q = [does |-> "publish", role |-> r, key |-> NoDraft, on |-> q.on,
                draft |-> role[r].draft, others |-> {}, found |-> 0, keys |-> {}, rows |-> {},
                locked |-> {}, step |-> "keys"]
        /\ open' = [open EXCEPT ![c] = q] /\ UNCHANGED role
  <2>1. PICK on : Call(c, "publish", r, NoDraft, on, role[r].draft, "keys") /\ UNCHANGED role
    BY Zenon DEF Publish
  <2> QED BY <2>1, Calling
<1>2. Sound(q) /\ q.role = r /\ q.draft = role[r].draft
  BY <1>1 DEF Sound, InOrder, CallKinds
<1>3. open' = [d \in Callers |-> open'[d]] /\ \A d \in Callers : open'[d] = IF d = c THEN q ELSE open[d]
  BY <1>1 DEF PInv
<1>4. role[r].simulated = role[r].draft /\ role[r].found = 0
  BY DEF Publish, Simulated
<1>5. ASSUME NEW d \in Callers PROVE Sound(open[d])' /\ AsSimulated(open[d])'
  <2>1. Sound(open'[d])
    BY <1>2, <1>3 DEF PInv
  <2>2. AsSimulated(open[d])'
    BY <1>1, <1>2, <1>3, <1>4 DEF PInv, AsSimulated
  <2> QED BY <2>1, <2>2 DEF Sound, InOrder
<1>6. \A d \in Callers : open[d].does = "publish" => open[d].role # r
  BY DEF Publish, RoleFree, RoleHeld
<1>7. \A d, e \in Callers :
        open'[d].does = "publish" /\ open'[e].does = "publish" /\ open'[d].role = open'[e].role => d = e
  BY <1>2, <1>3, <1>6 DEF PInv
<1>8. RolesShape'
  BY <1>1 DEF PInv, RolesShape
<1> QED BY <1>3, <1>5, <1>7, <1>8 DEF PInv

LEMMA TakingKeys ==
    ASSUME PInv, NEW c \in Callers, TakeKey(c) \/ ReadDefinitions(c)
    PROVE  PInv'
<1>0. Sound(open[c])
  BY DEF PInv
<1>1. CASE TakeKey(c)
  <2>1. PICK k \in KeysToTake(c) :
          open' = [open EXCEPT ![c] = [open[c] EXCEPT !.keys = @ \cup {k},
                     !.step = IF open[c].does = "create" THEN "formulas" ELSE @]]
    BY <1>1 DEF TakeKey
  <2>2. PICK q :
          /\ q = [open[c] EXCEPT !.keys = open[c].keys \cup {k},
                     !.step = IF open[c].does = "create" THEN "formulas" ELSE @]
          /\ open' = [open EXCEPT ![c] = q] /\ UNCHANGED role
    BY <1>1, <2>1 DEF TakeKey
  <2>3. q = [does |-> q.does, role |-> q.role, key |-> q.key, on |-> q.on, draft |-> q.draft,
             others |-> q.others, found |-> q.found, keys |-> q.keys, rows |-> q.rows,
             locked |-> q.locked, step |-> q.step]
    BY <1>0, <2>2 DEF Sound
  <2>4. /\ q.does = open[c].does /\ q.role = open[c].role /\ q.draft = open[c].draft
        /\ q.keys = open[c].keys \cup {k} /\ q.locked = open[c].locked /\ q.rows = open[c].rows
        /\ q.key = open[c].key
        /\ q.step = IF open[c].does = "create" THEN "formulas" ELSE open[c].step
    BY <1>0, <2>2 DEF Sound
  <2>5. \/ open[c].does = "create"
        \/ open[c].does = "publish" /\ k \in NextKeys(open[c].draft.keys \ open[c].keys)
    BY DEF KeysToTake
  <2>6. open[c].does = "publish" => InOrder(q.keys, q.draft.keys)
    BY <1>0, <2>4, <2>5, NextInOrder DEF Sound
  <2>7. Sound(q)
    BY <1>0, <2>3, <2>4, <2>5, <2>6 DEF Sound, CallKinds
  <2> QED BY <2>2, <2>4, <2>7, Moves
<1>2. CASE ReadDefinitions(c)
  <2>1. PICK q :
          /\ q = [open[c] EXCEPT !.rows = RowsRead(open[c].draft.keys), !.step = "rows"]
          /\ open' = [open EXCEPT ![c] = q] /\ UNCHANGED role
    BY <1>2 DEF ReadDefinitions
  <2>2. q = [does |-> q.does, role |-> q.role, key |-> q.key, on |-> q.on, draft |-> q.draft,
             others |-> q.others, found |-> q.found, keys |-> q.keys, rows |-> q.rows,
             locked |-> q.locked, step |-> q.step]
    BY <1>0, <2>1 DEF Sound
  <2>3. /\ q.does = open[c].does /\ q.role = open[c].role /\ q.draft = open[c].draft
        /\ q.keys = open[c].keys /\ q.locked = open[c].locked /\ q.step = "rows"
    BY <1>0, <2>1 DEF Sound
  <2>4. open[c].does = "publish" /\ open[c].step = "keys"
    BY <1>2 DEF ReadDefinitions
  <2>5. InOrder(q.locked, q.rows)
    BY <1>0, <2>3, <2>4 DEF Sound, InOrder
  <2>6. Sound(q)
    BY <1>0, <2>2, <2>3, <2>4, <2>5 DEF Sound
  <2> QED BY <2>1, <2>3, <2>6, Moves
<1> QED BY <1>1, <1>2

LEMMA Locking ==
    ASSUME PInv, NEW c \in Callers, LockDefinition(c)
    PROVE  PInv'
<1>0. Sound(open[c])
  BY DEF PInv
<1>1. PICK k \in RowsToLock(c) :
        open' = [open EXCEPT ![c] = [open[c] EXCEPT !.locked = @ \cup {k},
                   !.step = IF open[c].does = "publish" THEN @
                            ELSE IF open[c].on THEN "formulas" ELSE "commit"]]
  BY DEF LockDefinition
<1>2. PICK next : next = IF open[c].does = "publish" THEN open[c].step
                         ELSE IF open[c].on THEN "formulas" ELSE "commit"
  OBVIOUS
<1>3. PICK q :
        /\ q = [open[c] EXCEPT !.locked = open[c].locked \cup {k}, !.step = next]
        /\ open' = [open EXCEPT ![c] = q] /\ UNCHANGED role
  BY <1>1, <1>2 DEF LockDefinition
<1>4. q = [does |-> q.does, role |-> q.role, key |-> q.key, on |-> q.on, draft |-> q.draft,
           others |-> q.others, found |-> q.found, keys |-> q.keys, rows |-> q.rows,
           locked |-> q.locked, step |-> q.step]
  BY <1>0, <1>3 DEF Sound
<1>5. /\ q.does = open[c].does /\ q.role = open[c].role /\ q.draft = open[c].draft
      /\ q.keys = open[c].keys /\ q.locked = open[c].locked \cup {k} /\ q.rows = open[c].rows
      /\ q.key = open[c].key /\ q.step = next
  BY <1>0, <1>3 DEF Sound
<1>6. \/ open[c].does = "patch" /\ next \in {"formulas", "commit"}
      \/ /\ open[c].does = "publish" /\ open[c].step = "rows" /\ next = "rows"
         /\ k \in NextKeys(open[c].rows \ open[c].locked)
  BY <1>2 DEF RowsToLock
<1>7. open[c].does = "publish" => InOrder(q.locked, q.rows)
  BY <1>0, <1>5, <1>6, NextInOrder DEF Sound
<1>8. Sound(q)
  BY <1>0, <1>4, <1>5, <1>6, <1>7 DEF Sound, CallKinds
<1> QED BY <1>3, <1>5, <1>8, Moves

LEMMA Ending ==
    ASSUME PInv, NEW c \in Callers,
           CommitPublish(c) \/ ReadFormulas(c) \/ InsertDefinition(c) \/ CommitDefinition(c)
    PROVE  PInv'
<1>0. Sound(open[c])
  BY DEF PInv
<1>1. ASSUME Done(c), UNCHANGED role PROVE PInv'
  BY <1>1, NothingIsSound, Moves DEF Done
<1>2. ASSUME NEW step, Moved(c, step), UNCHANGED role,
             \/ open[c].does = "create" /\ open[c].step # "keys" /\ step \in {"insert", "commit"}
             \/ open[c].does = "patch" /\ open[c].step # "rows" /\ step = "commit"
      PROVE  PInv'
  <2>1. PICK q : q = [open[c] EXCEPT !.step = step] /\ open' = [open EXCEPT ![c] = q]
    BY <1>2 DEF Moved
  <2>2. q = [does |-> q.does, role |-> q.role, key |-> q.key, on |-> q.on, draft |-> q.draft,
             others |-> q.others, found |-> q.found, keys |-> q.keys, rows |-> q.rows,
             locked |-> q.locked, step |-> q.step]
    BY <1>0, <2>1 DEF Sound
  <2>3. /\ q.does = open[c].does /\ q.keys = open[c].keys /\ q.locked = open[c].locked
        /\ q.key = open[c].key /\ q.step = step
    BY <1>0, <2>1 DEF Sound
  <2>4. Sound(q)
    BY <1>0, <1>2, <2>2, <2>3 DEF Sound, CallKinds
  <2> QED BY <1>2, <2>1, <2>3, <2>4, Moves
<1>3. CASE CommitPublish(c)
  <2>1. CASE Offenders(c) # {}
    BY <1>1, <1>3, <2>1 DEF CommitPublish
  <2>2. CASE Offenders(c) = {}
    <3>1. PICK r \in RoleIds : r = open[c].role /\ Done(c) /\ open[c].does = "publish"
      BY <1>0, <1>3 DEF CommitPublish, Sound
    <3>2. PICK live : live = [role[r] EXCEPT !.published = open[c].draft, !.draft = NoDraft]
      OBVIOUS
    <3>3. PICK row : row = [live EXCEPT !.simulated = NoDraft, !.found = 0]
      OBVIOUS
    <3>4. role' = [role EXCEPT ![r] = row]
      BY <1>3, <2>2, <3>1, <3>2, <3>3 DEF CommitPublish, Unsimulated
    <3>5. role[r] = [published |-> role[r].published, draft |-> role[r].draft,
                     simulated |-> role[r].simulated, found |-> role[r].found]
      BY DEF PInv, RolesShape
    <3>6. live = [published |-> live.published, draft |-> live.draft,
                  simulated |-> live.simulated, found |-> live.found]
      BY <3>2, <3>5
    <3>7. row = [published |-> row.published, draft |-> row.draft,
                 simulated |-> row.simulated, found |-> row.found]
      BY <3>3, <3>6
    <3>8. RolesShape' /\ \A s \in RoleIds \ {r} : role'[s] = role[s]
      BY <3>4, <3>7 DEF PInv, RolesShape
    <3>9. /\ open' = [d \in Callers |-> open'[d]]
          /\ \A d \in Callers : open'[d] = IF d = c THEN Nothing ELSE open[d]
      BY <3>1 DEF Done, PInv
    <3>10. \A d \in Callers : open'[d].does = "publish" => open'[d].role # r
      BY <3>1, <3>9, NothingIsSound DEF PInv
    <3> QED BY <3>8, <3>9, <3>10, Saves
  <2> QED BY <2>1, <2>2
<1>4. CASE ReadFormulas(c)
  <2>1. /\ open[c].step = "formulas" /\ UNCHANGED role
        /\ Done(c) \/ Moved(c, IF open[c].does = "create" THEN "insert" ELSE "commit")
    BY <1>4 DEF ReadFormulas
  <2>2. open[c].does \in {"create", "patch"}
    BY <1>0, <2>1 DEF Sound, CallKinds
  <2> QED BY <1>1, <1>2, <2>1, <2>2
<1>5. CASE InsertDefinition(c)
  <2>1. open[c].step = "insert" /\ UNCHANGED role /\ (Done(c) \/ Moved(c, "commit"))
    BY <1>5 DEF InsertDefinition
  <2>2. open[c].does = "create"
    BY <1>0, <2>1 DEF Sound, CallKinds
  <2> QED BY <1>1, <1>2, <2>1, <2>2
<1>6. CASE CommitDefinition(c)
  BY <1>1, <1>6 DEF CommitDefinition
<1> QED BY <1>3, <1>4, <1>5, <1>6

LEMMA Defining ==
    ASSUME PInv, NEW c \in Callers, NEW k \in AttributeKeys, NEW on \in BOOLEAN,
           CreateDefinition(c, k, on) \/ PatchDefinition(c, k, on)
    PROVE  PInv'
<1>1. UNCHANGED role
  BY DEF CreateDefinition, PatchDefinition
<1>2. \E does, step, o :
        /\ Call(c, does, NoDraft, k, o, NoDraft, step)
        /\ \/ does = "create" /\ step \in {"keys", "insert"}
           \/ does = "patch" /\ step = "rows"
  <2>1. CASE CreateDefinition(c, k, on)
    <3>1. PICK step : step = IF on THEN "keys" ELSE "insert"
      OBVIOUS
    <3>2. Call(c, "create", NoDraft, k, on, NoDraft, step)
      BY <2>1, <3>1 DEF CreateDefinition
    <3>3. step \in {"keys", "insert"}
      BY <3>1
    <3> QED BY <3>2, <3>3, Zenon
  <2>2. CASE PatchDefinition(c, k, on)
    <3>1. Call(c, "patch", NoDraft, k, on, NoDraft, "rows")
      BY <2>2 DEF PatchDefinition
    <3> QED BY <3>1, Zenon
  <2> QED BY <2>1, <2>2
<1>3. PICK does, step, o :
        /\ Call(c, does, NoDraft, k, o, NoDraft, step)
        /\ \/ does = "create" /\ step \in {"keys", "insert"}
           \/ does = "patch" /\ step = "rows"
  BY <1>2
<1>4. PICK q :
        /\ q = [does |-> does, role |-> NoDraft, key |-> k, on |-> q.on, draft |-> NoDraft,
                others |-> {}, found |-> 0, keys |-> {}, rows |-> {}, locked |-> {}, step |-> step]
        /\ open' = [open EXCEPT ![c] = q]
  BY <1>3, Calling
<1>5. Sound(q) /\ q.does # "publish"
  BY <1>3, <1>4 DEF Sound, CallKinds
<1> QED BY <1>1, <1>4, <1>5, Moves

LEMMA StepPInv == PInv /\ [PublicationNext]_pvars => PInv'
<1> SUFFICES ASSUME PInv, [PublicationNext]_pvars PROVE PInv'
  OBVIOUS
<1>1. ASSUME NEW pair \in Pairs, SetConflict(pair) PROVE PInv'
  BY <1>1 DEF SetConflict, PInv, RolesShape, AsSimulated, Sound, InOrder
<1>2. CASE UNCHANGED pvars
  BY <1>2 DEF pvars, PInv, RolesShape, AsSimulated, Sound, InOrder
<1> QED BY <1>1, <1>2, Saving, Simulating, Publishing, TakingKeys, Locking, Ending, Defining
        DEF PublicationNext

LEMMA PublicationInvariance == PublicationSpec => []PInv
BY InitPInv, StepPInv, PTL DEF PublicationSpec

(* What takes effect is the draft that was simulated, as it was simulated, *)
(* whoever saves and simulates while it is being published.                *)
THEOREM PublishesTheSimulated == PublicationSpec => PublishedAsSimulated
<1> DEFINE AsRecorded ==
      \A r \in RoleIds : role'[r].published # role[r].published =>
          role[r].simulated = role'[r].published /\ role[r].found = 0
<1>1. PInv /\ [PublicationNext]_pvars => [AsRecorded]_pvars
  <2> SUFFICES ASSUME PInv, PublicationNext, NEW r \in RoleIds,
                      role'[r].published # role[r].published
               PROVE  role[r].simulated = role'[r].published /\ role[r].found = 0
    BY DEF pvars
  <2>1. \/ \E s \in RoleIds, f \in Formulas : SaveDraft(s, f)
        \/ \E c \in Callers : RecordSimulation(c)
        \/ \E c \in Callers : CommitPublish(c)
    BY DEF PublicationNext, SetConflict, Simulate, Publish, CreateDefinition, PatchDefinition,
           ReadConflicts, ReadCounterpart, TakeKey, ReadDefinitions, LockDefinition, ReadFormulas,
           InsertDefinition, CommitDefinition
  <2>2. ASSUME NEW s \in RoleIds, NEW f \in Formulas, SaveDraft(s, f) PROVE FALSE
    BY <2>2 DEF SaveDraft, Unsimulated, PInv, RolesShape
  <2>3. ASSUME NEW c \in Callers, RecordSimulation(c) PROVE FALSE
    <3>1. role' = [role EXCEPT ![open[c].role].simulated = open[c].draft,
                               ![open[c].role].found = open[c].found]
      BY <2>3 DEF RecordSimulation
    <3>2. role[r] = [published |-> role[r].published, draft |-> role[r].draft,
                     simulated |-> role[r].simulated, found |-> role[r].found]
      BY DEF PInv, RolesShape
    <3>3. role'[r].published = role[r].published
      <4>1. CASE open[c].role = r
        BY <3>1, <3>2, <4>1 DEF PInv, RolesShape
      <4>2. CASE open[c].role # r
        BY <3>1, <4>2 DEF PInv, RolesShape
      <4> QED BY <4>1, <4>2
    <3> QED BY <3>3
  <2>4. ASSUME NEW c \in Callers, CommitPublish(c)
        PROVE  role[r].simulated = role'[r].published /\ role[r].found = 0
    <3>1. /\ open[c].does = "publish" /\ open[c].role \in RoleIds
          /\ role[open[c].role].simulated = open[c].draft /\ role[open[c].role].found = 0
      BY <2>4 DEF CommitPublish, PInv, Sound, AsSimulated
    <3>2. role' = [role EXCEPT ![open[c].role] =
                      Unsimulated([@ EXCEPT !.published = open[c].draft, !.draft = NoDraft])]
      BY <2>4 DEF CommitPublish
    <3>3. r = open[c].role /\ role'[r].published = open[c].draft
      BY <3>1, <3>2 DEF Unsimulated, PInv, RolesShape
    <3> QED BY <3>1, <3>3
  <2> QED BY <2>1, <2>2, <2>3, <2>4
<1> QED BY <1>1, PublicationInvariance, PTL DEF PublicationSpec, PublishedAsSimulated

-----------------------------------------------------------------------------
(* Who waits for whom: every lock has a height, the keys' advisory locks   *)
(* first, then the definitions' rows, then the unique index of an insert;  *)
(* whoever holds a lock and waits for another waits for a higher one.      *)
Height(c, n) ==
    \/ open[c].does = "simulate" /\ n = 0
    \/ \E i \in 1..Len(SortedKeys) : SortedKeys[i] \in KeysToTake(c) /\ n = i
    \/ \E i \in 1..Len(SortedKeys) : SortedKeys[i] \in RowsToLock(c) /\ n = Len(SortedKeys) + i
    \/ open[c].step = "insert" /\ n = 2 * Len(SortedKeys) + 1

LEMMA EveryKeyIsSorted ==
    /\ Len(SortedKeys) \in Nat
    /\ \A k \in AttributeKeys : \E i \in 1..Len(SortedKeys) : SortedKeys[i] = k
    /\ \A i, j \in 1..Len(SortedKeys) : SortedKeys[i] = SortedKeys[j] => i = j
BY PublicationAssumption DEF AttributeKeys

LEMMA WaitersHaveHeights ==
    ASSUME PInv, NEW c \in Callers, WaitsFor(c) # {}
    PROVE  \E n \in 0..(2 * Len(SortedKeys) + 1) : Height(c, n)
<1>0. Sound(open[c]) /\ Len(SortedKeys) \in Nat
  BY EveryKeyIsSorted DEF PInv
<1>1. CASE KeysToTake(c) # {}
  <2>1. PICK k \in KeysToTake(c) : TRUE
    BY <1>1
  <2>2. PICK i \in 1..Len(SortedKeys) : SortedKeys[i] = k
    BY <1>0, <2>1, EveryKeyIsSorted DEF KeysToTake, NextKeys, Sound
  <2>3. Height(c, i) /\ i \in 0..(2 * Len(SortedKeys) + 1)
    BY <1>0, <2>1, <2>2 DEF Height
  <2> QED BY <2>3
<1>2. CASE RowsToLock(c) # {}
  <2>1. PICK k \in RowsToLock(c) : TRUE
    BY <1>2
  <2>2. PICK i \in 1..Len(SortedKeys) : SortedKeys[i] = k
    BY <1>0, <2>1, EveryKeyIsSorted DEF RowsToLock, NextKeys, Sound
  <2>3. Height(c, Len(SortedKeys) + i) /\ Len(SortedKeys) + i \in 0..(2 * Len(SortedKeys) + 1)
    BY <1>0, <2>1, <2>2 DEF Height
  <2> QED BY <2>3
<1>3. CASE open[c].does = "simulate"
  BY <1>0, <1>3 DEF Height
<1>4. CASE open[c].step = "insert"
  BY <1>0, <1>4 DEF Height
<1> QED BY <1>1, <1>2, <1>3, <1>4 DEF WaitsFor

LEMMA WaitingRises ==
    ASSUME PInv, NEW c \in Callers, NEW d \in WaitsFor(c), NEW m, NEW n, Height(c, m), Height(d, n)
    PROVE  m < n
<1>0. d \in Callers /\ Sound(open[c]) /\ Sound(open[d]) /\ Len(SortedKeys) \in Nat
  BY EveryKeyIsSorted DEF PInv, WaitsFor
<1>1. CASE KeysToTake(c) # {} /\ KeysToTake(c) \subseteq open[d].keys
  <2>1. open[c].step = "keys" /\ RowsToLock(c) = {} /\ open[c].does # "simulate"
    BY <1>1 DEF KeysToTake, RowsToLock
  <2>2. m \in 1..Len(SortedKeys) /\ SortedKeys[m] \in open[d].keys
    BY <1>1, <2>1 DEF Height
  <2>3. open[d].does # "simulate"
    BY <1>0, <2>2 DEF Sound
  <2>4. ASSUME n \in 1..Len(SortedKeys), SortedKeys[n] \in KeysToTake(d) PROVE m < n
    <3>1. open[d].does = "publish" /\ SortedKeys[n] \in NextKeys(open[d].draft.keys \ open[d].keys)
      BY <1>0, <2>2, <2>4 DEF KeysToTake, Sound
    <3>2. SortedKeys[n] \in open[d].draft.keys /\ SortedKeys[n] \notin open[d].keys
      BY <3>1 DEF NextKeys
    <3>3. InOrder(open[d].keys, open[d].draft.keys)
      BY <1>0, <3>1 DEF Sound
    <3> QED BY <1>0, <2>2, <2>4, <3>2, <3>3 DEF InOrder
  <2> QED BY <1>0, <2>2, <2>3, <2>4 DEF Height
<1>2. CASE RowsToLock(c) # {} /\ RowsToLock(c) \subseteq open[d].locked
  <2>1. open[c].step = "rows" /\ KeysToTake(c) = {} /\ open[c].does # "simulate"
    BY <1>2 DEF KeysToTake, RowsToLock
  <2>2. PICK i \in 1..Len(SortedKeys) : m = Len(SortedKeys) + i /\ SortedKeys[i] \in open[d].locked
    BY <1>2, <2>1 DEF Height
  <2>3. open[d].does \in {"publish", "patch"} /\ open[d].step # "keys"
    BY <1>0, <2>2 DEF Sound, CallKinds
  <2>4. ASSUME NEW j \in 1..Len(SortedKeys), SortedKeys[j] \in RowsToLock(d) PROVE i < j
    <3>1. open[d].does = "publish" /\ SortedKeys[j] \in NextKeys(open[d].rows \ open[d].locked)
      BY <1>0, <2>2, <2>4 DEF RowsToLock, Sound
    <3>2. SortedKeys[j] \in open[d].rows /\ SortedKeys[j] \notin open[d].locked
      BY <3>1 DEF NextKeys
    <3>3. InOrder(open[d].locked, open[d].rows)
      BY <1>0, <3>1 DEF Sound
    <3> QED BY <1>0, <2>2, <3>2, <3>3 DEF InOrder
  <2>5. KeysToTake(d) = {}
    BY <2>3 DEF KeysToTake
  <2> QED BY <1>0, <2>2, <2>3, <2>4, <2>5 DEF Height
<1>3. CASE open[c].does = "simulate" /\ open[c].role \in RoleHeld(d)
  <2>1. m = 0
    BY <1>0, <1>3 DEF Height, KeysToTake, RowsToLock, Sound
  <2>2. open[d].does = "publish"
    BY <1>3 DEF RoleHeld
  <2> QED BY <1>0, <2>1, <2>2 DEF Height
<1>4. CASE open[c].step = "insert" /\ Inserting(d, open[c].key)
  <2>1. open[d].does = "create" /\ open[d].step = "commit"
    BY <1>4 DEF Inserting
  <2> QED BY <2>1 DEF Height, KeysToTake, RowsToLock
<1> QED BY <1>1, <1>2, <1>3, <1>4 DEF WaitsFor

(* However many requests and keys there are, some request of any that wait *)
(* waits for none of the others: the locks never close a circle.           *)
THEOREM LocksNeverCircle == PublicationSpec => []NoCircleOfWaiters
<1>1. PInv => NoCircleOfWaiters
  <2> SUFFICES ASSUME PInv, NEW S \in SUBSET Callers, S # {}, \A c \in S : WaitsFor(c) \cap S # {}
               PROVE  FALSE
    BY DEF NoCircleOfWaiters
  <2> DEFINE top == 2 * Len(SortedKeys) + 1
             Depths == {top - n : n \in {h \in 0..top : \E c \in S : Height(c, h)}}
  <2>0. top \in Nat
    BY EveryKeyIsSorted
  <2>1. \A c \in S : c \in Callers /\ \E h \in 0..top : Height(c, h)
    BY WaitersHaveHeights
  <2>2. Depths \subseteq Nat /\ Depths # {}
    BY <2>0, <2>1
  <2>3. PICK x \in Depths : \A y \in Depths : <<y, x>> \notin OpToRel(<, Nat)
    BY <2>2, WFMin, NatLessThanWellFounded
  <2>4. PICK m \in 0..top, c \in S : x = top - m /\ Height(c, m)
    OBVIOUS
  <2>5. PICK d \in S : d \in WaitsFor(c)
    OBVIOUS
  <2>6. PICK n \in 0..top : Height(d, n)
    BY <2>1
  <2>7. m < n
    BY <2>4, <2>5, <2>6, WaitingRises
  <2>8. top - n \in Depths
    BY <2>6
  <2>9. <<top - n, x>> \in OpToRel(<, Nat)
    BY <2>0, <2>4, <2>6, <2>7 DEF OpToRel
  <2> QED BY <2>3, <2>8, <2>9
<1> QED BY <1>1, PublicationInvariance, PTL

-----------------------------------------------------------------------------
(* What no published formula decides on.                                   *)

(* What is known of a request before its commit: a publication has missed  *)
(* only keys with no row, whatever got one since has slipped, and it has   *)
(* the advisory lock of each; an edit to self-editable has the lock its    *)
(* key goes by, and has seen that no formula names the key.                *)
Guarded(q) ==
    /\ q.does = "publish" /\ q.step = "rows" =>
          /\ q.draft.keys \subseteq q.keys
          /\ \A k \in AttributeKeys :
                k \in q.draft.keys \ q.rows /\ attribute[k].exists => k \in slipped
    /\ q.does = "create" /\ q.on =>
          /\ q.step # "keys" => q.key \in q.keys
          /\ q.step \in {"insert", "commit"} /\ Names(q.key) => q.key \in slipped
    /\ q.does = "patch" =>
          /\ attribute[q.key].exists
          /\ q.step # "rows" => q.key \in q.locked
          /\ q.on /\ q.step = "commit" /\ Names(q.key) => q.key \in slipped

LocksAreExclusive ==
    \A c, d \in Callers : c # d =>
        open[c].keys \cap open[d].keys = {} /\ open[c].locked \cap open[d].locked = {}

SInv ==
    /\ attribute = [k \in AttributeKeys |-> attribute[k]]
    /\ LocksAreExclusive
    /\ \A c \in Callers : Guarded(open[c])
    /\ \A k \in AttributeKeys :
          attribute[k].exists /\ attribute[k].selfEditable /\ Names(k) => k \in slipped

LEMMA InitSInv == PublicationInit => SInv
<1> SUFFICES ASSUME PublicationInit PROVE SInv
  OBVIOUS
<1>1. ASSUME NEW k \in AttributeKeys PROVE ~attribute[k].selfEditable
  BY DEF PublicationInit
<1>2. attribute = [k \in AttributeKeys |-> attribute[k]]
  BY DEF PublicationInit
<1>3. \A c \in Callers : open[c] = Nothing
  BY DEF PublicationInit
<1> QED BY <1>1, <1>2, <1>3, NothingIsSound DEF SInv, Guarded, LocksAreExclusive

(* One request moves on; definitions and published formulas stay.          *)
LEMMA GuardedMoves ==
    ASSUME SInv, NEW c \in Callers, NEW q, open = [d \in Callers |-> open[d]],
           open' = [open EXCEPT ![c] = q], UNCHANGED <<attribute, slipped>>,
           \A r \in RoleIds : role'[r].published = role[r].published,
           Guarded(q),
           \A d \in Callers \ {c} :
              q.keys \cap open[d].keys = {} /\ q.locked \cap open[d].locked = {}
    PROVE  SInv'
<1>1. \A d \in Callers : open'[d] = IF d = c THEN q ELSE open[d]
  OBVIOUS
<1>2. \A k : Names(k)' <=> Names(k)
  BY DEF Names
<1>3. \A d \in Callers : Guarded(open'[d])
  BY <1>1 DEF SInv
<1>4. ASSUME NEW d \in Callers PROVE Guarded(open[d])'
  BY <1>2, <1>3 DEF Guarded
<1>5. LocksAreExclusive'
  BY <1>1 DEF SInv, LocksAreExclusive
<1> QED BY <1>2, <1>4, <1>5 DEF SInv

LEMMA GuardedRest ==
    ASSUME SInv, NEW c \in Callers, open = [d \in Callers |-> open[d]], Done(c),
           UNCHANGED <<attribute, slipped>>,
           \A r \in RoleIds : role'[r].published = role[r].published
    PROVE  SInv'
<1>1. Guarded(Nothing) /\ Nothing.keys = {} /\ Nothing.locked = {}
  BY NothingIsSound DEF Guarded
<1> QED BY <1>1, GuardedMoves DEF Done

(* The simulations, and the publication up to its last look.               *)
LEMMA GuardedSimulations ==
    ASSUME PInv, SInv, NEW c \in Callers,
           \/ \E r \in RoleIds : Simulate(c, r) \/ Publish(c, r)
           \/ ReadConflicts(c) \/ ReadCounterpart(c) \/ RecordSimulation(c)
    PROVE  SInv'
<1>0. Sound(open[c]) /\ open = [d \in Callers |-> open[d]]
  BY DEF PInv
<1>1. ASSUME NEW r \in RoleIds, Simulate(c, r) \/ Publish(c, r) PROVE SInv'
  <2>1. \E does, on, step : /\ Call(c, does, r, NoDraft, on, role[r].draft, step)
                            /\ UNCHANGED <<role, attribute, slipped>>
                            /\ \/ does = "simulate"
                               \/ does = "publish" /\ step = "keys"
    BY <1>1, Zenon DEF Simulate, Publish
  <2>2. PICK q : /\ open' = [open EXCEPT ![c] = q] /\ q.keys = {} /\ q.locked = {}
                 /\ \/ q.does = "simulate"
                    \/ q.does = "publish" /\ q.step = "keys"
                 /\ UNCHANGED <<role, attribute, slipped>>
    BY <2>1, Calling
  <2>3. Guarded(q)
    BY <2>2 DEF Guarded
  <2> QED BY <1>0, <2>2, <2>3, GuardedMoves
<1>2. CASE ReadConflicts(c) \/ ReadCounterpart(c)
  <2>1. PICK q : /\ open' = [open EXCEPT ![c] = q] /\ UNCHANGED <<role, attribute, slipped>>
                 /\ q.does = "simulate" /\ q.keys = {} /\ q.locked = {}
    <3>1. CASE ReadConflicts(c)
      <4>1. PICK q :
              /\ q = [open[c] EXCEPT !.others = {o \in RoleIds : {open[c].role, o} \in conflicts},
                                     !.step = "counterparts"]
              /\ open' = [open EXCEPT ![c] = q] /\ UNCHANGED <<role, attribute, slipped>>
              /\ open[c].does = "simulate"
        BY <3>1 DEF ReadConflicts
      <4>2. q.does = "simulate" /\ q.keys = {} /\ q.locked = {}
        BY <1>0, <4>1 DEF Sound
      <4> QED BY <4>1, <4>2
    <3>2. CASE ReadCounterpart(c)
      <4>1. PICK o \in open[c].others :
              open' = [open EXCEPT ![c] = [open[c] EXCEPT !.others = @ \ {o},
                 !.found = @ + Cardinality(HeldByBoth(open[c].draft, role[o].published))]]
        BY <3>2 DEF ReadCounterpart
      <4>2. PICK q :
              /\ q = [open[c] EXCEPT !.others = @ \ {o},
                        !.found = @ + Cardinality(HeldByBoth(open[c].draft, role[o].published))]
              /\ open' = [open EXCEPT ![c] = q] /\ UNCHANGED <<role, attribute, slipped>>
              /\ open[c].does = "simulate"
        BY <3>2, <4>1 DEF ReadCounterpart
      <4>3. q.does = "simulate" /\ q.keys = {} /\ q.locked = {}
        BY <1>0, <4>2 DEF Sound
      <4> QED BY <4>2, <4>3
    <3> QED BY <1>2, <3>1, <3>2
  <2>2. Guarded(q)
    BY <2>1 DEF Guarded
  <2> QED BY <1>0, <2>1, <2>2, GuardedMoves
<1>3. CASE RecordSimulation(c)
  <2>1. PICK r : role' = [role EXCEPT ![r].simulated = open[c].draft, ![r].found = open[c].found]
    BY <1>3 DEF RecordSimulation
  <2>2. \A s \in RoleIds : role'[s].published = role[s].published
    BY <2>1 DEF PInv, RolesShape
  <2> QED BY <1>0, <1>3, <2>2, GuardedRest DEF RecordSimulation
<1> QED BY <1>1, <1>2, <1>3

LEMMA GuardedKeys ==
    ASSUME PInv, SInv, NEW c \in Callers, TakeKey(c) \/ ReadDefinitions(c)
    PROVE  SInv'
<1>0. Sound(open[c]) /\ open = [d \in Callers |-> open[d]]
  BY DEF PInv
<1>1. CASE TakeKey(c)
  <2>1. PICK k \in KeysToTake(c) :
          /\ KeyFree(k)
          /\ open' = [open EXCEPT ![c] = [open[c] EXCEPT !.keys = @ \cup {k},
                        !.step = IF open[c].does = "create" THEN "formulas" ELSE @]]
    BY <1>1 DEF TakeKey
  <2>2. PICK q :
          /\ q = [open[c] EXCEPT !.keys = open[c].keys \cup {k},
                     !.step = IF open[c].does = "create" THEN "formulas" ELSE @]
          /\ open' = [open EXCEPT ![c] = q] /\ UNCHANGED <<role, attribute, slipped>>
    BY <1>1, <2>1 DEF TakeKey
  <2>3. /\ q.does = open[c].does /\ q.locked = open[c].locked /\ q.key = open[c].key
        /\ q.keys = open[c].keys \cup {k}
        /\ q.step = IF open[c].does = "create" THEN "formulas" ELSE open[c].step
    BY <1>0, <2>2 DEF Sound
  <2>4. \/ open[c].does = "create" /\ k = open[c].key
        \/ open[c].does = "publish" /\ open[c].step = "keys"
    BY DEF KeysToTake
  <2>5. Guarded(q)
    BY <2>3, <2>4 DEF Guarded
  <2>6. \A d \in Callers \ {c} :
           q.keys \cap open[d].keys = {} /\ q.locked \cap open[d].locked = {}
    BY <2>1, <2>3 DEF KeyFree, SInv, LocksAreExclusive
  <2> QED BY <1>0, <2>2, <2>5, <2>6, GuardedMoves
<1>2. CASE ReadDefinitions(c)
  <2>1. PICK q :
          /\ q = [open[c] EXCEPT !.rows = RowsRead(open[c].draft.keys), !.step = "rows"]
          /\ open' = [open EXCEPT ![c] = q] /\ UNCHANGED <<role, attribute, slipped>>
    BY <1>2 DEF ReadDefinitions
  <2>2. /\ q.does = "publish" /\ q.draft = open[c].draft /\ q.locked = open[c].locked
        /\ q.keys = open[c].keys /\ q.rows = RowsRead(open[c].draft.keys)
        /\ open[c].draft.keys \subseteq open[c].keys
    BY <1>0, <1>2, <2>1 DEF Sound, ReadDefinitions
  <2>3. Guarded(q)
    BY <2>2 DEF Guarded, RowsRead
  <2>4. \A d \in Callers \ {c} :
           q.keys \cap open[d].keys = {} /\ q.locked \cap open[d].locked = {}
    BY <2>2 DEF SInv, LocksAreExclusive
  <2> QED BY <1>0, <2>1, <2>3, <2>4, GuardedMoves
<1> QED BY <1>1, <1>2

LEMMA GuardedRows ==
    ASSUME PInv, SInv, NEW c \in Callers, LockDefinition(c)
    PROVE  SInv'
<1>0. Sound(open[c]) /\ open = [d \in Callers |-> open[d]] /\ Guarded(open[c])
  BY DEF PInv, SInv
<1>1. PICK k \in RowsToLock(c) :
        /\ RowFree(k)
        /\ open' = [open EXCEPT ![c] = [open[c] EXCEPT !.locked = @ \cup {k},
                      !.step = IF open[c].does = "publish" THEN @
                               ELSE IF open[c].on THEN "formulas" ELSE "commit"]]
  BY DEF LockDefinition
<1>2. PICK next : next = IF open[c].does = "publish" THEN open[c].step
                         ELSE IF open[c].on THEN "formulas" ELSE "commit"
  OBVIOUS
<1>3. PICK q :
        /\ q = [open[c] EXCEPT !.locked = open[c].locked \cup {k}, !.step = next]
        /\ open' = [open EXCEPT ![c] = q] /\ UNCHANGED <<role, attribute, slipped>>
  BY <1>1, <1>2 DEF LockDefinition
<1>4. /\ q.does = open[c].does /\ q.draft = open[c].draft /\ q.keys = open[c].keys
      /\ q.rows = open[c].rows /\ q.key = open[c].key /\ q.on = open[c].on
      /\ q.locked = open[c].locked \cup {k} /\ q.step = next
  BY <1>0, <1>3 DEF Sound
<1>5. \/ open[c].does = "patch" /\ k = open[c].key /\ (open[c].on => next = "formulas")
      \/ open[c].does = "publish" /\ open[c].step = "rows" /\ next = "rows"
  BY <1>2 DEF RowsToLock
<1>6. Guarded(q)
  BY <1>0, <1>4, <1>5 DEF Guarded
<1>7. \A d \in Callers \ {c} :
         q.keys \cap open[d].keys = {} /\ q.locked \cap open[d].locked = {}
  BY <1>1, <1>4 DEF RowFree, SInv, LocksAreExclusive
<1> QED BY <1>0, <1>3, <1>6, <1>7, GuardedMoves

LEMMA GuardedEdits ==
    ASSUME PInv, SInv, NEW c \in Callers, NEW k \in AttributeKeys, NEW on \in BOOLEAN,
           CreateDefinition(c, k, on) \/ PatchDefinition(c, k, on)
    PROVE  SInv'
<1>0. open = [d \in Callers |-> open[d]]
  BY DEF PInv
<1>1. UNCHANGED <<role, attribute, slipped>>
  BY DEF CreateDefinition, PatchDefinition
<1>2. PICK n : n = Nothing
  OBVIOUS
<1>3. \E does, step :
        /\ Call(c, does, NoDraft, k, on, NoDraft, step)
        /\ \/ does = "create" /\ (on => step = "keys")
           \/ does = "patch" /\ step = "rows" /\ attribute[k].exists
  <2>1. CASE CreateDefinition(c, k, on)
    <3>1. PICK step : step = IF on THEN "keys" ELSE "insert"
      OBVIOUS
    <3>2. Call(c, "create", NoDraft, k, on, NoDraft, step)
      BY <2>1, <3>1 DEF CreateDefinition
    <3>3. on => step = "keys"
      BY <3>1
    <3> QED BY <3>2, <3>3, Zenon
  <2>2. CASE PatchDefinition(c, k, on)
    BY <2>2, Zenon DEF PatchDefinition
  <2> QED BY <2>1, <2>2
<1>4. PICK does, step :
        /\ Call(c, does, NoDraft, k, on, NoDraft, step)
        /\ \/ does = "create" /\ (on => step = "keys")
           \/ does = "patch" /\ step = "rows" /\ attribute[k].exists
  BY <1>3
<1>5. PICK q :
        /\ q = [n EXCEPT !.does = does, !.role = NoDraft, !.key = k, !.on = on, !.draft = NoDraft,
                         !.step = step]
        /\ open' = [open EXCEPT ![c] = q]
  BY <1>2, <1>4 DEF Call
<1>6. /\ q.does = does /\ q.key = k /\ q.on = on /\ q.step = step
      /\ q.keys = {} /\ q.locked = {}
  BY <1>2, <1>5, NothingIsSound
<1>7. Guarded(q)
  BY <1>4, <1>6 DEF Guarded
<1> QED BY <1>0, <1>1, <1>5, <1>6, <1>7, GuardedMoves

LEMMA GuardedSteps ==
    ASSUME PInv, SInv, NEW c \in Callers, ReadFormulas(c) \/ InsertDefinition(c)
    PROVE  SInv'
<1>0. Sound(open[c]) /\ open = [d \in Callers |-> open[d]] /\ Guarded(open[c])
  BY DEF PInv, SInv
<1>1. UNCHANGED <<role, attribute, slipped>>
  BY DEF ReadFormulas, InsertDefinition
<1>2. CASE Done(c)
  BY <1>0, <1>1, <1>2, GuardedRest
<1>3. ASSUME NEW step, Moved(c, step),
             \/ /\ open[c].step = "formulas" /\ ~Names(open[c].key)
                /\ step = IF open[c].does = "create" THEN "insert" ELSE "commit"
             \/ open[c].step = "insert" /\ step = "commit"
      PROVE  SInv'
  <2>1. PICK q : q = [open[c] EXCEPT !.step = step] /\ open' = [open EXCEPT ![c] = q]
    BY <1>3 DEF Moved
  <2>2. /\ q.does = open[c].does /\ q.keys = open[c].keys /\ q.locked = open[c].locked
        /\ q.key = open[c].key /\ q.on = open[c].on /\ q.step = step
    BY <1>0, <2>1 DEF Sound
  <2>3. open[c].does \in {"create", "patch"} /\ (open[c].step = "insert" => open[c].does = "create")
    BY <1>0, <1>3 DEF Sound, CallKinds
  <2>4. Guarded(q)
    BY <1>0, <1>3, <2>2, <2>3 DEF Guarded
  <2>5. \A d \in Callers \ {c} :
           q.keys \cap open[d].keys = {} /\ q.locked \cap open[d].locked = {}
    BY <2>2 DEF SInv, LocksAreExclusive
  <2> QED BY <1>0, <1>1, <2>1, <2>4, <2>5, GuardedMoves
<1>4. CASE ReadFormulas(c)
  BY <1>2, <1>3, <1>4 DEF ReadFormulas
<1>5. CASE InsertDefinition(c)
  BY <1>2, <1>3, <1>5 DEF InsertDefinition
<1> QED BY <1>4, <1>5

LEMMA GuardedPublication ==
    ASSUME PInv, SInv, NEW c \in Callers, CommitPublish(c)
    PROVE  SInv'
<1>0. /\ Sound(open[c]) /\ Guarded(open[c]) /\ open = [d \in Callers |-> open[d]]
      /\ open[c].does = "publish" /\ open[c].step = "rows" /\ open[c].rows = open[c].locked
      /\ Done(c) /\ UNCHANGED <<attribute, slipped>>
  BY DEF CommitPublish, PInv, SInv
<1>1. CASE Offenders(c) # {}
  BY <1>0, <1>1, GuardedRest DEF CommitPublish
<1>2. CASE Offenders(c) = {}
  <2>1. /\ role' = [role EXCEPT ![open[c].role] =
                      Unsimulated([@ EXCEPT !.published = open[c].draft, !.draft = NoDraft])]
        /\ open[c].role \in RoleIds
    BY <1>0, <1>2 DEF CommitPublish, Sound
  <2>2. \A r \in RoleIds : role'[r].published = role[r].published \/ role'[r].published = open[c].draft
    BY <2>1 DEF Unsimulated, PInv, RolesShape
  <2>3. \A k : Names(k)' => Names(k) \/ k \in open[c].draft.keys
    BY <2>2 DEF Names
  <2>4. \A d \in Callers : open'[d] = IF d = c THEN Nothing ELSE open[d]
    BY <1>0 DEF Done
  <2>5. ASSUME NEW k \in AttributeKeys, k \in open[c].draft.keys, attribute[k].exists,
               k \notin slipped
        PROVE  k \in open[c].locked /\ ~attribute[k].selfEditable
    <3>1. k \in open[c].locked
      BY <1>0, <2>5 DEF Guarded
    <3> QED BY <1>2, <3>1 DEF Offenders
  <2>6. ASSUME NEW d \in Callers PROVE Guarded(open[d])'
    <3>1. CASE d = c
      BY <2>4, <3>1, NothingIsSound DEF Guarded
    <3>2. CASE d # c
      <4>1. /\ open'[d] = open[d] /\ Guarded(open[d]) /\ Sound(open[d])
            /\ open[d].keys \cap open[c].keys = {} /\ open[d].locked \cap open[c].locked = {}
        BY <2>4, <3>2 DEF SInv, PInv, LocksAreExclusive
      <4>2. open[d].does = "create" /\ open[d].on /\ open[d].step \in {"insert", "commit"}
              => open[d].key \notin open[c].draft.keys
        BY <1>0, <4>1 DEF Guarded
      <4>3. open[d].does = "patch" /\ open[d].step = "commit" /\ open[d].key \in open[c].draft.keys
              => open[d].key \in slipped
        <5> SUFFICES ASSUME open[d].does = "patch", open[d].step = "commit",
                            open[d].key \in open[c].draft.keys, open[d].key \notin slipped
                     PROVE  FALSE
          OBVIOUS
        <5>1. attribute[open[d].key].exists /\ open[d].key \in open[d].locked
          BY <4>1 DEF Guarded
        <5>2. open[d].key \in AttributeKeys
          BY <4>1 DEF Sound
        <5>3. open[d].key \in open[c].locked
          BY <2>5, <5>1, <5>2
        <5> QED BY <4>1, <5>1, <5>3
      <4> QED BY <1>0, <2>3, <4>1, <4>2, <4>3 DEF Guarded
    <3> QED BY <3>1, <3>2
  <2>7. \A k \in AttributeKeys :
          attribute'[k].exists /\ attribute'[k].selfEditable /\ Names(k)' => k \in slipped'
    BY <1>0, <2>3, <2>5 DEF SInv
  <2>8. LocksAreExclusive'
    BY <2>4, NothingIsSound DEF SInv, LocksAreExclusive
  <2> QED BY <1>0, <2>6, <2>7, <2>8 DEF SInv
<1> QED BY <1>1, <1>2

LEMMA GuardedDefinition ==
    ASSUME PInv, SInv, NEW c \in Callers, CommitDefinition(c)
    PROVE  SInv'
<1>0. /\ Sound(open[c]) /\ Guarded(open[c]) /\ open = [d \in Callers |-> open[d]]
      /\ open[c].step = "commit" /\ open[c].does \in {"create", "patch"}
      /\ open[c].key \in AttributeKeys /\ Done(c) /\ UNCHANGED role
  <2>1. Sound(open[c]) /\ Guarded(open[c]) /\ open = [d \in Callers |-> open[d]]
    BY DEF PInv, SInv
  <2>2. open[c].step = "commit" /\ Done(c) /\ UNCHANGED role
    BY DEF CommitDefinition
  <2> QED BY <2>1, <2>2 DEF Sound, CallKinds
<1>1. PICK k \in AttributeKeys : k = open[c].key
  BY <1>0
<1>2. PICK row :
        /\ row = [exists |-> TRUE, selfEditable |-> open[c].on]
        /\ attribute' = [attribute EXCEPT ![k] = row]
  BY <1>1, Zenon DEF CommitDefinition
<1>3. row.exists /\ row.selfEditable = open[c].on
  BY <1>2, Zenon
<1>4. /\ attribute' = [l \in AttributeKeys |-> attribute'[l]]
      /\ \A l \in AttributeKeys : attribute'[l] = IF l = k THEN row ELSE attribute[l]
  BY <1>2 DEF SInv
<1>5. /\ slipped \subseteq slipped'
      /\ open[c].does = "create" /\ PastReading(k) => k \in slipped'
  BY <1>1 DEF CommitDefinition
<1>6. \A l : Names(l)' <=> Names(l)
  BY <1>0 DEF Names
<1>7. \A d \in Callers : open'[d] = IF d = c THEN Nothing ELSE open[d]
  BY <1>0 DEF Done
<1>8. ASSUME NEW d \in Callers PROVE Guarded(open[d])'
  <2>1. CASE d = c
    BY <1>7, <2>1, NothingIsSound DEF Guarded
  <2>2. CASE d # c
    <3>1. open'[d] = open[d] /\ Guarded(open[d]) /\ Sound(open[d])
      BY <1>7, <2>2 DEF SInv, PInv
    <3>2. ASSUME open[d].does = "publish", open[d].step = "rows", NEW l \in AttributeKeys,
                 l \in open[d].draft.keys \ open[d].rows, attribute'[l].exists
          PROVE  l \in slipped'
      <4>1. CASE attribute[l].exists
        BY <1>5, <3>1, <3>2, <4>1 DEF Guarded
      <4>2. CASE ~attribute[l].exists
        <5>1. l = k
          BY <1>4, <3>2, <4>2
        <5>2. open[c].does = "create"
          BY <1>0, <1>1, <4>2, <5>1 DEF Guarded
        <5>3. PastReading(k)
          BY <3>2, <5>1 DEF PastReading
        <5> QED BY <1>5, <5>1, <5>2, <5>3
      <4> QED BY <4>1, <4>2
    <3>3. open[d].does = "patch" => attribute'[open[d].key].exists
      BY <1>3, <1>4, <3>1 DEF Guarded, Sound
    <3> QED BY <1>5, <1>6, <3>1, <3>2, <3>3 DEF Guarded
  <2> QED BY <2>1, <2>2
<1>9. ASSUME NEW l \in AttributeKeys, attribute'[l].exists, attribute'[l].selfEditable, Names(l)
      PROVE  l \in slipped'
  <2>1. CASE l = k
    <3>1. open[c].on
      BY <1>3, <1>4, <1>9, <2>1
    <3>2. k \in slipped
      BY <1>0, <1>1, <1>9, <2>1, <3>1 DEF Guarded
    <3> QED BY <1>5, <2>1, <3>2
  <2>2. CASE l # k
    BY <1>4, <1>5, <1>9, <2>2 DEF SInv
  <2> QED BY <2>1, <2>2
<1>10. LocksAreExclusive'
  BY <1>7, NothingIsSound DEF SInv, LocksAreExclusive
<1> QED BY <1>4, <1>6, <1>8, <1>9, <1>10 DEF SInv

LEMMA StepSInv == PInv /\ SInv /\ [PublicationNext]_pvars => SInv'
<1> SUFFICES ASSUME PInv, SInv, [PublicationNext]_pvars PROVE SInv'
  OBVIOUS
<1>1. ASSUME UNCHANGED <<open, attribute, slipped>>,
             \A r \in RoleIds : role'[r].published = role[r].published
      PROVE  SInv'
  <2>1. \A k : Names(k)' <=> Names(k)
    BY <1>1 DEF Names
  <2> QED BY <1>1, <2>1 DEF SInv, LocksAreExclusive, Guarded
<1>2. ASSUME NEW r \in RoleIds, NEW f \in Formulas, SaveDraft(r, f) PROVE SInv'
  <2>1. \A s \in RoleIds : role'[s].published = role[s].published
    BY <1>2 DEF SaveDraft, Unsimulated, PInv, RolesShape
  <2> QED BY <1>1, <1>2, <2>1 DEF SaveDraft
<1>3. ASSUME NEW pair \in Pairs, SetConflict(pair) PROVE SInv'
  BY <1>1, <1>3 DEF SetConflict
<1>4. CASE UNCHANGED pvars
  BY <1>1, <1>4 DEF pvars
<1> QED BY <1>2, <1>3, <1>4, GuardedSimulations, GuardedKeys, GuardedRows, GuardedEdits, GuardedSteps,
           GuardedPublication, GuardedDefinition DEF PublicationNext

(* Nobody edits themselves into a role: whatever publications and edits of *)
(* definitions overlap, no published formula names a self-editable         *)
(* attribute, but for one that had no row when a publication naming it     *)
(* read the definitions and got one before it committed.                   *)
THEOREM NoFormulaIsSelfEditable == PublicationSpec => []SelfEditableDecidesNothing
<1>1. PublicationSpec => [](PInv /\ SInv)
  BY InitPInv, InitSInv, StepPInv, StepSInv, PTL DEF PublicationSpec
<1>2. SInv => SelfEditableDecidesNothing
  BY DEF SInv, SelfEditableDecidesNothing, SelfEditableKeys, Names
<1> QED BY <1>1, <1>2, PTL
=============================================================================
