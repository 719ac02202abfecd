-------------------------- MODULE ClaimSettlement --------------------------
(***************************************************************************)
(* Run claims from their opening to their end: voting, retraction, the     *)
(* signed run that is submitted to settle a claim, the worker's settlement *)
(* with its reputation points, and the moderated reports that refute one.  *)
(*                                                                         *)
(* The claim and report routes are plain `def`: they run in the thread     *)
(* pool, so each handler is a read that checks and, later, a write, and    *)
(* handlers interleave.  Submissions are serialised (IntakePipeline).  A   *)
(* call refused by a check or a quota changes nothing and is left out.     *)
(***************************************************************************)
EXTENDS Integers, FiniteSets, FiniteSetsExt, Functions

CONSTANTS
  Users,
  Claims, Runs, Reports,   \* fresh uuids of the three tables
  Threads,                 \* workers of the API's thread pool
  NoUser, NoClaim, NoRun, NoTarget,
  StartPoints,             \* StartPoints[u]: points of earlier settlements
  MaxDeliveries,           \* bound: how often the worker is handed one run
  MaxWorkerCrashes         \* bound: crashes of the worker

ASSUME SettlementAssumption ==
  /\ NoUser \notin Users /\ NoClaim \notin Claims /\ NoRun \notin Runs
  /\ NoTarget \notin Claims \cup Runs \cup Reports
  /\ StartPoints \in [Users -> Nat]
  /\ MaxDeliveries \in Nat /\ MaxWorkerCrashes \in Nat

VARIABLES
  claim,      \* run_claim: [status, claimant, run]
  votes,      \* claim_vote: the signed weight of u's vote on c, 0 for none
  run,        \* benchmark_run.status as far as settlement tells it apart
  linked,     \* submissions answered with a linked_claim_id: [run, claim]
  points,     \* user_reputation.points
  ledger,     \* sum of the deltas of u's reputation_event rows
  notices,    \* claim_settled_verified notifications: [claim, points]
  report,     \* run_report: [status, reporter, target]
  submission, \* the submission handler: [pc, claim]
  call,       \* the handler each thread runs: [op, user, target, weight]
  worker,     \* the intake worker: [pc, run, verdict, claim, points, doubted]
  deliveries, \* how often each run's event was delivered
  crashes

api  == <<submission, call>>
intake == <<worker, deliveries, crashes>>
vars == <<claim, votes, run, linked, points, ledger, notices, report, api, intake>>

NoCall     == [op |-> "none", user |-> NoUser, target |-> NoTarget, weight |-> 0]
NoSubmit   == [pc |-> "idle", claim |-> NoClaim]
WorkerIdle == [pc |-> "idle", run |-> NoRun, verdict |-> "rejected",
               claim |-> NoClaim, points |-> 0, doubted |-> FALSE]

BasePoints  == 25   \* POINTS_CLAIM_SETTLED_VERIFIED
BonusPoints == 15   \* POINTS_DISPUTED_SETTLE_BONUS

(* The highest tier whose minimum is reached; the tier column is written    *)
(* together with points, so it is a function of them.                       *)
TierMinimum      == [L0 |-> 0, L1 |-> 100, L2 |-> 340, L3 |-> 750, L4 |-> 1500]
TierForPoints(p) == CHOOSE t \in DOMAIN TierMinimum :
                      /\ TierMinimum[t] <= p
                      /\ \A s \in DOMAIN TierMinimum :
                           TierMinimum[s] <= p => TierMinimum[s] <= TierMinimum[t]

(* Vote weights, in fifths of the largest one.                              *)
WeightForTier == [L0 |-> 1, L1 |-> 2, L2 |-> 3, L3 |-> 4, L4 |-> 5]

(* Plausible weight minus impossible weight.                                *)
Margin(c) == MapThenSumSet(LAMBDA u : votes[c][u], Users)

(* Mutant: an inner join with claim_vote.                                   *)
OpenBoundClaimsVotedOn(r) ==
  {c \in Claims : /\ claim[c].run = r /\ claim[c].status = "open"
                  /\ \E u \in Users : votes[c][u] # 0}

(* Mutant: the status filter is missing.                                    *)
OpenBoundClaimsAnyStatus(r) == {c \in Claims : claim[c].run = r}

(* The rows of fetch_settlement_context.                                    *)
OpenBoundClaims(r) ==
  {c \in Claims : claim[c].run = r /\ claim[c].status = "open"}

Live(q) == report[q].status \in {"open", "dismissed"}

(* run_report_reporter_target_idx: a live report of u on x, other than q.   *)
IndexTaken(q, u, x) ==
  \E p \in Reports \ {q} :
    Live(p) /\ report[p].reporter = u /\ report[p].target = x

-----------------------------------------------------------------------------
Init ==
  /\ claim = [c \in Claims |->
                [status |-> "absent", claimant |-> NoUser, run |-> NoRun]]
  /\ votes = [c \in Claims |-> [u \in Users |-> 0]]
  /\ run = [r \in Runs |-> "absent"]
  /\ linked = {}
  /\ points = StartPoints /\ ledger = StartPoints
  /\ notices = {}
  /\ report = [q \in Reports |->
                 [status |-> "absent", reporter |-> NoUser, target |-> NoTarget]]
  /\ submission = NoSubmit
  /\ call = [t \in Threads |-> NoCall]
  /\ worker = WorkerIdle
  /\ deliveries = [r \in Runs |-> 0]
  /\ crashes = 0

-----------------------------------------------------------------------------
(* Claims and votes                                                        *)

CreateRunClaim(u, c) ==
  /\ claim[c].status = "absent"
  /\ claim' = [claim EXCEPT ![c] =
                 [status |-> "open", claimant |-> u, run |-> NoRun]]
  /\ UNCHANGED <<votes, run, linked, points, ledger, notices, report, api, intake>>

(* A handler's checks, made on what it reads; the write comes later.       *)
Begin(t, op, u, x, w) ==
  /\ call[t] = NoCall
  /\ call' = [call EXCEPT ![t] =
                [op |-> op, user |-> u, target |-> x, weight |-> w]]
  /\ UNCHANGED <<claim, votes, run, linked, points, ledger, notices, report,
                 submission, intake>>

BeginVote(t, u, c) ==
  /\ claim[c].status = "open"
  /\ claim[c].claimant # u
  /\ \E sign \in {1, -1} :
       Begin(t, "vote", u, c, sign * WeightForTier[TierForPoints(points[u])])

(* upsert_claim_vote: one row per voter, whatever the claim is by now.     *)
WriteVote(t) ==
  /\ call[t].op = "vote"
  /\ votes' = [votes EXCEPT ![call[t].target][call[t].user] = call[t].weight]
  /\ call' = [call EXCEPT ![t] = NoCall]
  /\ UNCHANGED <<claim, run, linked, points, ledger, notices, report,
                 submission, intake>>

(* Mutant: a claim that does not exist is not refused.                     *)
BeginRetractUnchecked(t, c) ==
  /\ claim[c].status \in {"absent", "open"}
  /\ Begin(t, "retract", claim[c].claimant, c, 0)

BeginRetract(t, c) ==
  /\ claim[c].status = "open"
  /\ Begin(t, "retract", claim[c].claimant, c, 0)

(* set_run_claim_status has no condition on the status it replaces.        *)
WriteRetract(t) ==
  /\ call[t].op = "retract"
  /\ claim' = [claim EXCEPT ![call[t].target].status = "retracted"]
  /\ call' = [call EXCEPT ![t] = NoCall]
  /\ UNCHANGED <<votes, run, linked, points, ledger, notices, report,
                 submission, intake>>

-----------------------------------------------------------------------------
(* Reports                                                                 *)

BeginReport(t, u, x) ==
  /\ IF x \in Claims THEN claim[x].status # "absent" ELSE run[x] # "absent"
  /\ \A q \in Reports :
       ~(Live(q) /\ report[q].reporter = u /\ report[q].target = x)
  /\ Begin(t, "report", u, x, 0)

(* Mutant: no unique index behind find_existing_run_report.                *)
WriteReportUnindexed(t, q) ==
  LET u == call[t].user
      x == call[t].target
  IN  /\ call[t].op = "report"
      /\ report[q].status = "absent"
      /\ report' = [report EXCEPT ![q] =
                      [status |-> "open", reporter |-> u, target |-> x]]
      /\ call' = [call EXCEPT ![t] = NoCall]
      /\ UNCHANGED <<claim, votes, run, linked, points, ledger, notices,
                     submission, intake>>

(* The insert; the unique index turns the second of two equal reports into *)
(* an error and a rollback.                                                *)
WriteReport(t, q) ==
  LET u == call[t].user
      x == call[t].target
  IN  /\ call[t].op = "report"
      /\ report[q].status = "absent"
      /\ report' = IF IndexTaken(q, u, x) THEN report
                   ELSE [report EXCEPT ![q] =
                           [status |-> "open", reporter |-> u, target |-> x]]
      /\ call' = [call EXCEPT ![t] = NoCall]
      /\ UNCHANGED <<claim, votes, run, linked, points, ledger, notices,
                     submission, intake>>

BeginModerate(t, op, q) ==
  /\ report[q].status = "open"
  /\ Begin(t, op, NoUser, q, 0)

(* The report becomes "confirmed" with awarded_at set and a claim it is    *)
(* about "refuted", both in one transaction and without another check.     *)
WriteConfirm(t) ==
  LET q == call[t].target
      x == report[q].target
  IN  /\ call[t].op = "confirm"
      /\ report' = [report EXCEPT ![q].status = "confirmed"]
      /\ claim' = IF x \in Claims THEN [claim EXCEPT ![x].status = "refuted"]
                  ELSE claim
      /\ call' = [call EXCEPT ![t] = NoCall]
      /\ UNCHANGED <<votes, run, linked, points, ledger, notices, submission,
                     intake>>

(* The report becomes "dismissed" and loses awarded_at.  The update brings *)
(* back into the index a report that was confirmed meanwhile: if its       *)
(* reporter has reported the target again, it fails and is rolled back.    *)
WriteDismiss(t) ==
  LET q == call[t].target
  IN  /\ call[t].op = "dismiss"
      /\ report' = IF IndexTaken(q, report[q].reporter, report[q].target)
                   THEN report
                   ELSE [report EXCEPT ![q].status = "dismissed"]
      /\ call' = [call EXCEPT ![t] = NoCall]
      /\ UNCHANGED <<claim, votes, run, linked, points, ledger, notices,
                     submission, intake>>

-----------------------------------------------------------------------------
(* Submissions                                                             *)

(* _resolve_settlement, for a claim of the caller or for none.             *)
ResolveSettlement(c) ==
  /\ submission.pc = "idle"
  /\ c # NoClaim => claim[c].status = "open"
  /\ submission' = [pc |-> "insert", claim |-> c]
  /\ UNCHANGED <<claim, votes, run, linked, points, ledger, notices, report,
                 call, intake>>

(* Mutant: the last run a claim was linked to is the one that counts.      *)
InsertRunRebinding(r) ==
  LET c == submission.claim
  IN  /\ submission.pc = "insert"
      /\ run[r] = "absent"
      /\ run' = [run EXCEPT ![r] = "submitted"]
      /\ claim' = IF c # NoClaim /\ claim[c].status = "open"
                  THEN [claim EXCEPT ![c].run = r] ELSE claim
      /\ linked' = IF c = NoClaim THEN linked
                   ELSE linked \cup {[run |-> r, claim |-> c]}
      /\ submission' = NoSubmit
      /\ UNCHANGED <<votes, points, ledger, notices, report, call, intake>>

(* The run's transaction: bind_claim_to_run updates a claim that is open   *)
(* and unbound, and nobody looks at the number of rows it returns.         *)
InsertRun(r) ==
  LET c == submission.claim
  IN  /\ submission.pc = "insert"
      /\ run[r] = "absent"
      /\ run' = [run EXCEPT ![r] = "submitted"]
      /\ claim' = IF /\ c # NoClaim
                     /\ claim[c].status = "open" /\ claim[c].run = NoRun
                  THEN [claim EXCEPT ![c].run = r] ELSE claim
      /\ linked' = IF c = NoClaim THEN linked
                   ELSE linked \cup {[run |-> r, claim |-> c]}
      /\ submission' = NoSubmit
      /\ UNCHANGED <<votes, points, ledger, notices, report, call, intake>>

-----------------------------------------------------------------------------
(* The worker                                                              *)

(* process_run up to set_run_status; what decides the verdict is in        *)
(* IntakePipeline, and a quarantined run settles nothing, like a rejected  *)
(* one.  Redis may deliver a run's event again.                            *)
JudgeRun(r) ==
  /\ worker.pc = "idle"
  /\ run[r] # "absent"
  /\ deliveries[r] < MaxDeliveries
  /\ \E v \in {"validated", "rejected"} :
       /\ run' = [run EXCEPT ![r] = v]
       /\ worker' = [WorkerIdle EXCEPT !.pc = "fetch", !.run = r, !.verdict = v]
  /\ deliveries' = [deliveries EXCEPT ![r] = @ + 1]
  /\ UNCHANGED <<claim, votes, linked, points, ledger, notices, report, api,
                 crashes>>

(* Mutant: every verdict settles.                                          *)
FetchContextAnyVerdict ==
  LET rows == OpenBoundClaims(worker.run)
  IN  /\ worker.pc = "fetch"
      /\ IF rows = {} THEN worker' = WorkerIdle
         ELSE \E c \in rows :
                worker' = [worker EXCEPT !.pc = "complete", !.claim = c,
                             !.points = points[claim[c].claimant],
                             !.doubted = Margin(c) < 0]
      /\ UNCHANGED <<claim, votes, run, linked, points, ledger, notices,
                     report, api, deliveries, crashes>>

(* fetch_settlement_context: one open claim bound to the run, its claimant's *)
(* points and the margin of its votes.  Only a validated run goes on.      *)
FetchContext ==
  LET rows == OpenBoundClaims(worker.run)
  IN  /\ worker.pc = "fetch"
      /\ IF rows = {} \/ worker.verdict # "validated" THEN worker' = WorkerIdle
         ELSE \E c \in rows :
                worker' = [worker EXCEPT !.pc = "complete", !.claim = c,
                             !.points = points[claim[c].claimant],
                             !.doubted = Margin(c) < 0]
      /\ UNCHANGED <<claim, votes, run, linked, points, ledger, notices,
                     report, api, deliveries, crashes>>

Award == BasePoints + (IF worker.doubted THEN BonusPoints ELSE 0)

(* Mutant: the events get the bonus, the total does not.                   *)
CompleteWithoutBonus ==
  LET c == worker.claim
      u == claim[c].claimant
  IN  /\ worker.pc = "complete"
      /\ claim' = IF claim[c].status = "open"
                  THEN [claim EXCEPT ![c].status = "settled_verified"] ELSE claim
      /\ ledger' = [ledger EXCEPT ![u] = @ + Award]
      /\ points' = [points EXCEPT ![u] = worker.points + BasePoints]
      /\ notices' = notices \cup {[claim |-> c, points |-> worker.points + BasePoints]}
      /\ worker' = WorkerIdle
      /\ UNCHANGED <<votes, run, linked, report, api, deliveries, crashes>>

(* complete_claim_settlement, one transaction: the claim is updated only if *)
(* it is still open, all the rest whether or not it is; points are set to  *)
(* the sum of what was read and what was earned, and the notification      *)
(* carries that sum as points_awarded.                                     *)
CompleteSettlement ==
  LET c == worker.claim
      u == claim[c].claimant
      total == worker.points + Award
  IN  /\ worker.pc = "complete"
      /\ claim' = IF claim[c].status = "open"
                  THEN [claim EXCEPT ![c].status = "settled_verified"] ELSE claim
      /\ ledger' = [ledger EXCEPT ![u] = @ + Award]
      /\ points' = [points EXCEPT ![u] = total]
      /\ notices' = notices \cup {[claim |-> c, points |-> total]}
      /\ worker' = WorkerIdle
      /\ UNCHANGED <<votes, run, linked, report, api, deliveries, crashes>>

WorkerCrash ==
  /\ worker.pc # "idle"
  /\ crashes < MaxWorkerCrashes
  /\ worker' = WorkerIdle
  /\ crashes' = crashes + 1
  /\ UNCHANGED <<claim, votes, run, linked, points, ledger, notices, report,
                 api, deliveries>>

-----------------------------------------------------------------------------
HandlerBegins(t) ==
  \/ \E u \in Users, c \in Claims : BeginVote(t, u, c)
  \/ \E c \in Claims : BeginRetract(t, c)
  \/ \E u \in Users, x \in Claims \cup Runs : BeginReport(t, u, x)
  \/ \E op \in {"confirm", "dismiss"}, q \in Reports : BeginModerate(t, op, q)

HandlerWrites(t) ==
  \/ WriteVote(t)
  \/ WriteRetract(t)
  \/ \E q \in Reports : WriteReport(t, q)
  \/ WriteConfirm(t)
  \/ WriteDismiss(t)

Submit == (\E c \in Claims \cup {NoClaim} : ResolveSettlement(c))
          \/ \E r \in Runs : InsertRun(r)

Settle == FetchContext \/ CompleteSettlement

Next ==
  \/ \E u \in Users, c \in Claims : CreateRunClaim(u, c)
  \/ \E t \in Threads : HandlerBegins(t) \/ HandlerWrites(t)
  \/ Submit
  \/ \E r \in Runs : JudgeRun(r)
  \/ Settle
  \/ WorkerCrash

(* The worker runs on, and without failures the intake judges every run    *)
(* (IntakePipeline!EveryRunAnnounced); a handler that began is finished.   *)
Fairness ==
  /\ WF_vars(Settle)
  /\ \A r \in Runs : WF_vars(run[r] = "submitted" /\ JudgeRun(r))
  /\ \A t \in Threads : WF_vars(HandlerWrites(t))

Spec     == Init /\ [][Next]_vars
FairSpec == Spec /\ Fairness
-----------------------------------------------------------------------------
(* Properties                                                              *)

ClaimsOK ==
  /\ claim \in [Claims -> [status : {"absent", "open", "settled_verified",
                                     "retracted", "refuted"},
                           claimant : Users \cup {NoUser},
                           run : Runs \cup {NoRun}]]
  /\ \A c \in Claims : claim[c].status = "absent" <=> claim[c].claimant = NoUser
  /\ votes \in [Claims -> [Users -> -5 .. 5]]

RunsOK ==
  /\ run \in [Runs -> {"absent", "submitted", "validated", "rejected"}]
  /\ linked \subseteq [run : Runs, claim : Claims]
  /\ deliveries \in [Runs -> Nat]
  /\ submission \in [pc : {"idle", "insert"}, claim : Claims \cup {NoClaim}]

PointsOK ==
  /\ points \in [Users -> Nat] /\ ledger \in [Users -> Nat]
  /\ notices \subseteq [claim : Claims, points : Nat]

HandlersOK ==
  /\ report \in [Reports -> [status : {"absent", "open", "confirmed", "dismissed"},
                             reporter : Users \cup {NoUser},
                             target : Claims \cup Runs \cup {NoTarget}]]
  /\ call \in [Threads -> [op : {"none", "vote", "retract", "report", "confirm",
                                 "dismiss"},
                           user : Users \cup {NoUser},
                           target : Claims \cup Runs \cup Reports \cup {NoTarget},
                           weight : -5 .. 5]]

WorkerOK ==
  /\ worker \in [pc : {"idle", "fetch", "complete"}, run : Runs \cup {NoRun},
                 verdict : {"validated", "rejected"},
                 claim : Claims \cup {NoClaim}, points : Nat, doubted : BOOLEAN]
  /\ worker.pc = "complete" => worker.claim \in Claims
  /\ crashes \in Nat

(* Every row and every handler has its type (run_claim, claim_vote,        *)
(* run_report, user_reputation and the handlers of claims and reports).    *)
TypeOK == ClaimsOK /\ RunsOK /\ PointsOK /\ HandlersOK /\ WorkerOK

(* The settlement of a claim is credited at most once, although its run's  *)
(* event may be delivered and judged again and a crash may cut it short:   *)
(* a credited claim is never open again (fetch_settlement_context,         *)
(* complete_claim_settlement).                                             *)
CreditedOnce ==
  /\ \A m, n \in notices : m.claim = n.claim => m = n
  /\ \A n \in notices : claim[n.claim].status # "open"

(* The points written as a sum of something read earlier are the sum of    *)
(* the reputation events, one settlement for each credited claim of the    *)
(* user, with or without the bonus (settle_claims_for_run).                *)
PointsExplained ==
  \A u \in Users :
    LET n == Cardinality({c \in Claims : /\ claim[c].claimant = u
                                         /\ \E m \in notices : m.claim = c})
    IN  /\ points[u] = ledger[u]
        /\ \E b \in 0 .. n :
             points[u] = StartPoints[u] + n * BasePoints + b * BonusPoints

(* A claim is settled only in a step of the worker in which its bound run  *)
(* is validated, and only when it was open: no handler's late write and no *)
(* rejected run settles one (settle_claims.py).                            *)
SettledByValidatedRun ==
  [][\A c \in Claims :
       (claim'[c].status = "settled_verified" /\ claim[c].status # "settled_verified")
       => /\ claim[c].status = "open"
          /\ claim[c].run \in Runs /\ run[claim[c].run] = "validated"]_vars

(* The run a claim is bound to never changes, whatever is submitted for it *)
(* later, and no run settles two claims (bind_claim_to_run).               *)
BindingIsFinal ==
  [][\A c \in Claims :
       /\ claim[c].run # NoRun => claim'[c].run = claim[c].run
       /\ claim'[c].run # claim[c].run =>
            \A d \in Claims \ {c} : claim'[d].run # claim'[c].run]_vars

(* A reporter has one open or dismissed report on a target at most, even   *)
(* when two of their requests, or two moderators, run at once (migration   *)
(* 0015, create_run_report).                                               *)
OneLiveReport ==
  \A p, q \in Reports :
    (/\ Live(p) /\ Live(q)
     /\ report[p].reporter = report[q].reporter
     /\ report[p].target = report[q].target) => p = q

(* A claim bound to a run that is validated does not stay open, whatever   *)
(* the handlers do meanwhile, unless the worker crashes                    *)
(* (settle_claims_for_run).                                                *)
ValidatedClaimSettles ==
  \A c \in Claims, r \in Runs :
    (claim[c].status = "open" /\ claim[c].run = r /\ run[r] = "validated")
    ~> claim[c].status # "open" \/ crashes > 0

=============================================================================
