------------------------ MODULE ClaimSettlementProofs ------------------------
(***************************************************************************)
(* Proofs about ClaimSettlement, for any number of users, claims, runs,    *)
(* reports, threads, deliveries and crashes.                               *)
(***************************************************************************)
EXTENDS ClaimSettlement, FiniteSetTheorems, TLAPS

Exists(c) == claim[c].status # "absent"

(* What rows, handlers and the worker refer to is there.                   *)
Known ==
  /\ \A c \in Claims : ~Exists(c) => claim[c].run = NoRun
  /\ \A c \in Claims : claim[c].run # NoRun => run[claim[c].run] # "absent"
  /\ \A q \in Reports : report[q].target \in Claims => Exists(report[q].target)
  /\ \A t \in Threads :
       /\ (call[t].op \in {"retract", "report"} /\ call[t].target \in Claims)
            => Exists(call[t].target)
       /\ call[t].op = "retract" => call[t].target \in Claims
       /\ call[t].op = "report" => call[t].target \in Claims \cup Runs
       /\ call[t].op \in {"confirm", "dismiss"} => call[t].target \in Reports
  /\ worker.pc = "complete" => Exists(worker.claim)

-----------------------------------------------------------------------------
LEMMA TypeInit == Init => TypeOK /\ Known
  <1> SUFFICES ASSUME Init PROVE TypeOK /\ Known
    OBVIOUS
  <1>1. ClaimsOK /\ RunsOK
    BY SettlementAssumption DEF Init, NoSubmit, ClaimsOK, RunsOK
  <1>2. PointsOK /\ HandlersOK /\ WorkerOK
    BY SettlementAssumption
    DEF Init, NoCall, WorkerIdle, PointsOK, HandlersOK, WorkerOK
  <1>3. Known
    BY SettlementAssumption DEF Init, NoCall, WorkerIdle, Known, Exists
  <1> QED
    BY <1>1, <1>2, <1>3 DEF TypeOK

(* The weight of a vote is at most five fifths.                            *)
LEMMA VoteWeights ==
  ASSUME NEW p \in Nat, NEW sign \in {1, -1}
  PROVE  sign * WeightForTier[TierForPoints(p)] \in -5 .. 5
  <1>1. DOMAIN TierMinimum = {"L0", "L1", "L2", "L3", "L4"}
    BY DEF TierMinimum
  <1>2. \E t \in DOMAIN TierMinimum :
          /\ TierMinimum[t] <= p
          /\ \A s \in DOMAIN TierMinimum :
               TierMinimum[s] <= p => TierMinimum[s] <= TierMinimum[t]
    BY DEF TierMinimum
  <1>3. TierForPoints(p) \in {"L0", "L1", "L2", "L3", "L4"}
    BY <1>1, <1>2 DEF TierForPoints
  <1>4. WeightForTier[TierForPoints(p)] \in 1 .. 5
    BY <1>3 DEF WeightForTier
  <1> QED
    BY <1>4

(* A beginning handler is a call with the arguments it was given.          *)
LEMMA TypeBegins ==
  ASSUME TypeOK, Known, NEW t \in Threads, HandlerBegins(t)
  PROVE  TypeOK' /\ Known'
  <1>1. PICK op \in {"vote", "retract", "report", "confirm", "dismiss"},
             u \in Users \cup {NoUser}, x \in Claims \cup Runs \cup Reports,
             w \in -5 .. 5 :
          /\ Begin(t, op, u, x, w)
          /\ (op \in {"retract", "report"} /\ x \in Claims) => Exists(x)
          /\ op = "retract" => x \in Claims
          /\ op = "report" => x \in Claims \cup Runs
          /\ op \in {"confirm", "dismiss"} => x \in Reports
    <2>1. ASSUME NEW u \in Users, NEW c \in Claims, BeginVote(t, u, c)
          PROVE  \E w \in -5 .. 5 : Begin(t, "vote", u, c, w)
      BY <2>1, VoteWeights DEF BeginVote, TypeOK, PointsOK
    <2>2. ASSUME NEW c \in Claims, BeginRetract(t, c)
          PROVE  /\ claim[c].claimant \in Users \cup {NoUser} /\ Exists(c)
                 /\ Begin(t, "retract", claim[c].claimant, c, 0)
      BY <2>2 DEF BeginRetract, Exists, TypeOK, ClaimsOK
    <2>3. ASSUME NEW u \in Users, NEW x \in Claims \cup Runs, BeginReport(t, u, x)
          PROVE  Begin(t, "report", u, x, 0) /\ (x \in Claims => Exists(x))
      BY <2>3 DEF BeginReport, Exists
    <2>4. ASSUME NEW op \in {"confirm", "dismiss"}, NEW q \in Reports,
                 BeginModerate(t, op, q)
          PROVE  Begin(t, op, NoUser, q, 0)
      BY <2>4 DEF BeginModerate
    <2>5. 0 \in -5 .. 5
      OBVIOUS
    <2>6. CASE \E u \in Users, c \in Claims : BeginVote(t, u, c)
      BY <2>1, <2>6
    <2>7. CASE \E c \in Claims : BeginRetract(t, c)
      BY <2>2, <2>5, <2>7
    <2>8. CASE \E u \in Users, x \in Claims \cup Runs : BeginReport(t, u, x)
      BY <2>3, <2>5, <2>8
    <2>9. CASE \E op \in {"confirm", "dismiss"}, q \in Reports : BeginModerate(t, op, q)
      BY <2>4, <2>5, <2>9
    <2> QED
      BY <2>6, <2>7, <2>8, <2>9 DEF HandlerBegins
  <1>2. /\ call' = [call EXCEPT ![t] = [op |-> op, user |-> u, target |-> x, weight |-> w]]
        /\ UNCHANGED <<claim, votes, run, linked, points, ledger, notices, report,
                       submission, worker, deliveries, crashes>>
    BY <1>1 DEF Begin, intake
  <1>3. HandlersOK'
    BY <1>1, <1>2 DEF TypeOK, HandlersOK
  <1>4. ClaimsOK' /\ RunsOK' /\ PointsOK' /\ WorkerOK'
    BY <1>2 DEF TypeOK, ClaimsOK, RunsOK, PointsOK, WorkerOK
  <1>5. Known'
    BY <1>1, <1>2 DEF Known, Exists, TypeOK, HandlersOK
  <1> QED
    BY <1>3, <1>4, <1>5 DEF TypeOK

(* A writing handler changes the one row its call names.                   *)
LEMMA TypeWrites ==
  ASSUME TypeOK, Known, NEW t \in Threads, HandlerWrites(t)
  PROVE  TypeOK' /\ Known'
  <1> USE DEF intake
  <1>1. call[t].target \in Claims \cup Runs \cup Reports \cup {NoTarget}
        /\ call[t].weight \in -5 .. 5 /\ call[t].user \in Users \cup {NoUser}
    BY DEF TypeOK, HandlersOK
  <1>2. CASE WriteVote(t)
    <2>1. votes' \in [Claims -> [Users -> -5 .. 5]]
      BY <1>1, <1>2 DEF WriteVote, TypeOK, ClaimsOK
    <2>2. ClaimsOK'
      BY <1>2, <2>1 DEF WriteVote, TypeOK, ClaimsOK
    <2>3. HandlersOK'
      BY <1>2, SettlementAssumption DEF WriteVote, NoCall, TypeOK, HandlersOK
    <2>4. RunsOK' /\ PointsOK' /\ WorkerOK'
      BY <1>2 DEF WriteVote, TypeOK, RunsOK, PointsOK, WorkerOK
    <2>5. Known'
      BY <1>2 DEF WriteVote, NoCall, Known, Exists, TypeOK, HandlersOK
    <2> QED
      BY <2>2, <2>3, <2>4, <2>5 DEF TypeOK
  <1>3. CASE WriteRetract(t)
    <2> DEFINE x == call[t].target
    <2>5. x \in Claims /\ Exists(x)
      BY <1>3 DEF WriteRetract, Known
    <2>6. claim' = [claim EXCEPT ![x].status = "retracted"] /\ votes' = votes
      BY <1>3 DEF WriteRetract
    <2> HIDE DEF x
    <2>1. ClaimsOK'
      BY <2>5, <2>6 DEF Exists, TypeOK, ClaimsOK
    <2>2. HandlersOK'
      BY <1>3, SettlementAssumption DEF WriteRetract, NoCall, TypeOK, HandlersOK
    <2>3. RunsOK' /\ PointsOK' /\ WorkerOK'
      BY <1>3 DEF WriteRetract, TypeOK, RunsOK, PointsOK, WorkerOK
    <2>4. Known'
      BY <1>3 DEF WriteRetract, NoCall, Known, Exists, TypeOK, ClaimsOK, HandlersOK,
        WorkerOK
    <2> QED
      BY <2>1, <2>2, <2>3, <2>4 DEF TypeOK
  <1>4. ASSUME NEW q \in Reports, WriteReport(t, q) PROVE TypeOK' /\ Known'
    <2> DEFINE row == [status |-> "open", reporter |-> call[t].user,
                       target |-> call[t].target]
    <2>4. /\ call[t].target \in Claims \cup Runs
          /\ report' = report \/ report' = [report EXCEPT ![q] = row]
          /\ call' = [call EXCEPT ![t] = NoCall]
      BY <1>4 DEF WriteReport, Known
    <2>5. row \in [status : {"absent", "open", "confirmed", "dismissed"},
                  reporter : Users \cup {NoUser},
                  target : Claims \cup Runs \cup {NoTarget}]
      BY <1>1, <2>4
    <2> HIDE DEF row
    <2>1. HandlersOK'
      BY <1>4, <2>4, <2>5 DEF NoCall, TypeOK, HandlersOK
    <2>2. ClaimsOK' /\ RunsOK' /\ PointsOK' /\ WorkerOK'
      BY <1>4 DEF WriteReport, TypeOK, ClaimsOK, RunsOK, PointsOK, WorkerOK
    <2>3. Known'
      BY <1>4 DEF WriteReport, NoCall, Known, Exists, TypeOK, HandlersOK
    <2> QED
      BY <2>1, <2>2, <2>3 DEF TypeOK
  <1>5. CASE WriteConfirm(t)
    <2> DEFINE x == report[call[t].target].target
    <2>1. call[t].target \in Reports /\ (x \in Claims => Exists(x))
      BY <1>5 DEF WriteConfirm, Known
    <2>2. /\ report' = [report EXCEPT ![call[t].target].status = "confirmed"]
          /\ claim' = IF x \in Claims THEN [claim EXCEPT ![x].status = "refuted"]
                      ELSE claim
          /\ call' = [call EXCEPT ![t] = NoCall]
          /\ UNCHANGED <<votes, run, linked, points, ledger, notices, submission,
                         worker, deliveries, crashes>>
      BY <1>5 DEF WriteConfirm
    <2> HIDE DEF x
    <2>3. ClaimsOK'
      BY <2>1, <2>2 DEF Exists, TypeOK, ClaimsOK
    <2>4. HandlersOK'
      BY <2>1, <2>2, SettlementAssumption DEF NoCall, TypeOK, HandlersOK
    <2>5. RunsOK' /\ PointsOK' /\ WorkerOK'
      BY <2>2 DEF TypeOK, RunsOK, PointsOK, WorkerOK
    <2>6. Known'
      BY <2>1, <2>2 DEF NoCall, Known, Exists, TypeOK, ClaimsOK, HandlersOK, WorkerOK
    <2> QED
      BY <2>3, <2>4, <2>5, <2>6 DEF TypeOK
  <1>6. CASE WriteDismiss(t)
    <2>4. /\ \/ report' = report
             \/ report' = [report EXCEPT ![call[t].target].status = "dismissed"]
          /\ call' = [call EXCEPT ![t] = NoCall]
      BY <1>6 DEF WriteDismiss
    <2>1. HandlersOK'
      BY <2>4 DEF NoCall, TypeOK, HandlersOK
    <2>2. ClaimsOK' /\ RunsOK' /\ PointsOK' /\ WorkerOK'
      BY <1>6 DEF WriteDismiss, TypeOK, ClaimsOK, RunsOK, PointsOK, WorkerOK
    <2>3. Known'
      BY <1>6 DEF WriteDismiss, NoCall, Known, Exists, TypeOK, HandlersOK
    <2> QED
      BY <2>1, <2>2, <2>3 DEF TypeOK
  <1> QED
    BY <1>2, <1>3, <1>4, <1>5, <1>6 DEF HandlerWrites

LEMMA TypeStep == TypeOK /\ Known /\ [Next]_vars => (TypeOK /\ Known)'
  <1> SUFFICES ASSUME TypeOK, Known, [Next]_vars PROVE TypeOK' /\ Known'
    OBVIOUS
  <1> USE DEF api, intake
  <1>1. ASSUME NEW u \in Users, NEW c \in Claims, CreateRunClaim(u, c)
        PROVE  TypeOK' /\ Known'
    <2>1. ClaimsOK'
      BY <1>1, SettlementAssumption DEF CreateRunClaim, TypeOK, ClaimsOK
    <2>2. RunsOK' /\ PointsOK' /\ HandlersOK' /\ WorkerOK'
      BY <1>1 DEF CreateRunClaim, TypeOK, RunsOK, PointsOK, HandlersOK, WorkerOK
    <2>3. Known'
      BY <1>1 DEF CreateRunClaim, Known, Exists, TypeOK, ClaimsOK, WorkerOK
    <2> QED
      BY <2>1, <2>2, <2>3 DEF TypeOK
  <1>2. ASSUME NEW t \in Threads, HandlerBegins(t) \/ HandlerWrites(t)
        PROVE  TypeOK' /\ Known'
    BY <1>2, TypeBegins, TypeWrites
  <1>3. ASSUME NEW c \in Claims \cup {NoClaim}, ResolveSettlement(c)
        PROVE  TypeOK' /\ Known'
    <2>1. RunsOK'
      BY <1>3 DEF ResolveSettlement, TypeOK, RunsOK
    <2>2. ClaimsOK' /\ PointsOK' /\ HandlersOK' /\ WorkerOK' /\ Known'
      BY <1>3 DEF ResolveSettlement, TypeOK, ClaimsOK, PointsOK, HandlersOK,
        WorkerOK, Known, Exists
    <2> QED
      BY <2>1, <2>2 DEF TypeOK
  <1>4. ASSUME NEW r \in Runs, InsertRun(r) PROVE TypeOK' /\ Known'
    <2>1. submission.claim \in Claims \cup {NoClaim}
      BY DEF TypeOK, RunsOK
    <2>2. RunsOK'
      BY <1>4, <2>1 DEF InsertRun, NoSubmit, TypeOK, RunsOK
    <2>3. ClaimsOK'
      BY <1>4, <2>1 DEF InsertRun, TypeOK, ClaimsOK
    <2>4. PointsOK' /\ HandlersOK' /\ WorkerOK'
      BY <1>4 DEF InsertRun, TypeOK, PointsOK, HandlersOK, WorkerOK
    <2>5. /\ \A c \in Claims : /\ claim'[c].status = claim[c].status
                              /\ claim'[c].run \in {claim[c].run, r}
                              /\ claim'[c].run # claim[c].run => claim[c].status = "open"
          /\ run'[r] = "submitted" /\ \A q \in Runs \ {r} : run'[q] = run[q]
      BY <1>4, <2>1 DEF InsertRun, TypeOK, ClaimsOK, RunsOK
    <2>6. Known'
      BY <1>4, <2>5 DEF InsertRun, Known, Exists, TypeOK, ClaimsOK, WorkerOK
    <2> QED
      BY <2>2, <2>3, <2>4, <2>6 DEF TypeOK
  <1>5. ASSUME NEW r \in Runs, JudgeRun(r) PROVE TypeOK' /\ Known'
    <2>1. RunsOK'
      BY <1>5 DEF JudgeRun, TypeOK, RunsOK
    <2>6. PICK v \in {"validated", "rejected"} :
            worker' = [WorkerIdle EXCEPT !.pc = "fetch", !.run = r, !.verdict = v]
      BY <1>5 DEF JudgeRun
    <2>2. WorkerOK'
      BY <1>5, <2>6 DEF JudgeRun, WorkerIdle, TypeOK, WorkerOK
    <2>3. ClaimsOK' /\ PointsOK' /\ HandlersOK'
      BY <1>5 DEF JudgeRun, TypeOK, ClaimsOK, PointsOK, HandlersOK
    <2>4. worker'.pc = "fetch" /\ \A q \in Runs : run[q] # "absent" => run'[q] # "absent"
      BY <1>5 DEF JudgeRun, WorkerIdle, TypeOK, RunsOK
    <2>5. Known'
      BY <1>5, <2>4 DEF JudgeRun, Known, Exists, TypeOK, ClaimsOK
    <2> QED
      BY <2>1, <2>2, <2>3, <2>5 DEF TypeOK
  <1>6. CASE FetchContext
    <2>1. CASE worker' = WorkerIdle
      BY <1>6, <2>1 DEF FetchContext, WorkerIdle, TypeOK, ClaimsOK, RunsOK, PointsOK,
        HandlersOK, WorkerOK, Known, Exists
    <2>2. ASSUME NEW c \in OpenBoundClaims(worker.run),
                 worker' = [worker EXCEPT !.pc = "complete", !.claim = c,
                              !.points = points[claim[c].claimant],
                              !.doubted = Margin(c) < 0]
          PROVE  WorkerOK' /\ Known'
      <3>1. c \in Claims /\ Exists(c) /\ points[claim[c].claimant] \in Nat
        BY DEF OpenBoundClaims, Exists, TypeOK, ClaimsOK, PointsOK
      <3>2. (Margin(c) < 0) \in BOOLEAN
        OBVIOUS
      <3>3. WorkerOK'
        BY <1>6, <2>2, <3>1, <3>2 DEF FetchContext, TypeOK, WorkerOK
      <3>4. worker'.claim = c
        BY <2>2 DEF TypeOK, WorkerOK
      <3>5. Known'
        BY <1>6, <3>1, <3>4 DEF FetchContext, Known, Exists
      <3> QED
        BY <3>3, <3>5
    <2>3. ClaimsOK' /\ RunsOK' /\ PointsOK' /\ HandlersOK'
      BY <1>6 DEF FetchContext, TypeOK, ClaimsOK, RunsOK, PointsOK, HandlersOK
    <2> QED
      BY <1>6, <2>1, <2>2, <2>3 DEF FetchContext, TypeOK
  <1>7. CASE CompleteSettlement
    <2>1. worker.claim \in Claims /\ worker.points \in Nat /\ Award \in Nat
      BY <1>7 DEF CompleteSettlement, TypeOK, WorkerOK, Award, BasePoints, BonusPoints
    <2>2. ClaimsOK'
      BY <1>7, <2>1 DEF CompleteSettlement, TypeOK, ClaimsOK
    <2> DEFINE u == claim[worker.claim].claimant
               total == worker.points + Award
    <2>7. /\ notices' = notices \cup {[claim |-> worker.claim, points |-> total]}
          /\ points' = [points EXCEPT ![u] = total]
          /\ ledger' = [ledger EXCEPT ![u] = ledger[u] + Award]
      BY <1>7 DEF CompleteSettlement
    <2>8. total \in Nat
      BY <2>1
    <2> HIDE DEF u, total
    <2>9. ledger' \in [Users -> Nat]
      <3>1. \A v \in Users : ledger[v] \in Nat /\ ledger[v] + Award \in Nat
        BY <2>1 DEF TypeOK, PointsOK
      <3> QED
        BY <2>7, <3>1 DEF TypeOK, PointsOK
    <2>3. PointsOK'
      BY <2>1, <2>7, <2>8, <2>9 DEF TypeOK, PointsOK
    <2>4. WorkerOK'
      BY <1>7 DEF CompleteSettlement, WorkerIdle, TypeOK, WorkerOK
    <2>5. RunsOK' /\ HandlersOK'
      BY <1>7 DEF CompleteSettlement, TypeOK, RunsOK, HandlersOK
    <2>6. Known'
      BY <1>7, <2>1 DEF CompleteSettlement, WorkerIdle, Known, Exists, TypeOK, ClaimsOK
    <2> QED
      BY <2>2, <2>3, <2>4, <2>5, <2>6 DEF TypeOK
  <1>8. CASE WorkerCrash
    BY <1>8 DEF WorkerCrash, WorkerIdle, TypeOK, ClaimsOK, RunsOK, PointsOK,
      HandlersOK, WorkerOK, Known, Exists
  <1>9. CASE UNCHANGED vars
    BY <1>9 DEF vars, TypeOK, ClaimsOK, RunsOK, PointsOK, HandlersOK, WorkerOK,
      Known, Exists
  <1> QED
    BY <1>1, <1>2, <1>3, <1>4, <1>5, <1>6, <1>7, <1>8, <1>9 DEF Next, Submit, Settle

LEMMA AlwaysKnown == Spec => [](TypeOK /\ Known)
  BY TypeInit, TypeStep, PTL DEF Spec

(* TypeOK is an invariant of the specification.                            *)
THEOREM TypeCorrect == Spec => []TypeOK
  BY AlwaysKnown, PTL

-----------------------------------------------------------------------------
(* What a step may do to a claim, and who writes what.                     *)

LEMMA ClaimMoves ==
  ASSUME TypeOK, Known, [Next]_vars, NEW c \in Claims
  PROVE  \/ claim'[c] = claim[c]
         \/ ~Exists(c) /\ claim'[c].status = "open" /\ claim'[c].run = NoRun
         \/ /\ Exists(c) /\ claim'[c].status \in {"retracted", "refuted"}
            /\ claim'[c].run = claim[c].run /\ claim'[c].claimant = claim[c].claimant
         \/ /\ CompleteSettlement /\ c = worker.claim /\ claim[c].status = "open"
            /\ claim'[c].status = "settled_verified"
            /\ claim'[c].run = claim[c].run /\ claim'[c].claimant = claim[c].claimant
         \/ /\ \E r \in Runs : InsertRun(r) /\ claim'[c].run = r
            /\ submission.claim = c /\ claim[c].run = NoRun
            /\ claim[c].status = "open" /\ claim'[c].status = "open"
            /\ claim'[c].claimant = claim[c].claimant
  <1> DEFINE Goal ==
         \/ claim'[c] = claim[c]
         \/ ~Exists(c) /\ claim'[c].status = "open" /\ claim'[c].run = NoRun
         \/ /\ Exists(c) /\ claim'[c].status \in {"retracted", "refuted"}
            /\ claim'[c].run = claim[c].run /\ claim'[c].claimant = claim[c].claimant
         \/ /\ CompleteSettlement /\ c = worker.claim /\ claim[c].status = "open"
            /\ claim'[c].status = "settled_verified"
            /\ claim'[c].run = claim[c].run /\ claim'[c].claimant = claim[c].claimant
         \/ /\ \E r \in Runs : InsertRun(r) /\ claim'[c].run = r
            /\ submission.claim = c /\ claim[c].run = NoRun
            /\ claim[c].status = "open" /\ claim'[c].status = "open"
            /\ claim'[c].claimant = claim[c].claimant
  <1>1. CASE UNCHANGED claim
    BY <1>1
  <1>2. ASSUME NEW u \in Users, NEW d \in Claims, CreateRunClaim(u, d) PROVE Goal
    BY <1>2 DEF CreateRunClaim, Exists, TypeOK, ClaimsOK
  <1>3. ASSUME NEW t \in Threads, WriteRetract(t) PROVE Goal
    BY <1>3 DEF WriteRetract, Known, Exists, TypeOK, ClaimsOK
  <1>4. ASSUME NEW t \in Threads, WriteConfirm(t) PROVE Goal
    <2> DEFINE x == report[call[t].target].target
    <2>1. call[t].target \in Reports /\ (x \in Claims => Exists(x))
      BY <1>4 DEF WriteConfirm, Known
    <2>2. claim' = IF x \in Claims THEN [claim EXCEPT ![x].status = "refuted"] ELSE claim
      BY <1>4 DEF WriteConfirm
    <2> HIDE DEF x
    <2> QED
      BY <2>1, <2>2 DEF Exists, TypeOK, ClaimsOK
  <1>5. ASSUME NEW r \in Runs, InsertRun(r) PROVE Goal
    <2> DEFINE d == submission.claim
    <2>1. claim' = IF d # NoClaim /\ claim[d].status = "open" /\ claim[d].run = NoRun
                  THEN [claim EXCEPT ![d].run = r] ELSE claim
      BY <1>5 DEF InsertRun
    <2>2. CASE c = d /\ claim' # claim
      <3>1. /\ claim[c].status = "open" /\ claim[c].run = NoRun
            /\ claim' = [claim EXCEPT ![c].run = r]
        BY <2>1, <2>2
      <3>2. claim'[c] = [claim[c] EXCEPT !.run = r]
        BY <3>1 DEF TypeOK, ClaimsOK
      <3> QED
        BY <1>5, <2>2, <3>1, <3>2 DEF TypeOK, ClaimsOK
    <2>3. CASE c # d \/ claim' = claim
      BY <2>1, <2>3 DEF TypeOK, ClaimsOK
    <2> QED
      BY <2>2, <2>3
  <1>6. CASE CompleteSettlement
    BY <1>6 DEF CompleteSettlement, TypeOK, ClaimsOK
  <1>7. UNCHANGED claim
        \/ (\E u \in Users, d \in Claims : CreateRunClaim(u, d))
        \/ (\E t \in Threads : WriteRetract(t) \/ WriteConfirm(t))
        \/ (\E r \in Runs : InsertRun(r))
        \/ CompleteSettlement
    BY DEF Next, vars, HandlerBegins, HandlerWrites, Submit, Settle, BeginVote,
      BeginRetract, BeginReport, BeginModerate, Begin, WriteVote, WriteReport,
      WriteDismiss, ResolveSettlement, JudgeRun, FetchContext, WorkerCrash
  <1> QED
    BY <1>1, <1>2, <1>3, <1>4, <1>5, <1>6, <1>7

LEMMA RunMoves ==
  ASSUME TypeOK, [Next]_vars
  PROVE  \/ UNCHANGED run
         \/ \E r \in Runs : InsertRun(r) /\ run[r] = "absent" /\ UNCHANGED worker
              /\ \A q \in Runs \ {r} : run'[q] = run[q]
         \/ \E r \in Runs : JudgeRun(r)
  <1>1. ASSUME NEW r \in Runs, InsertRun(r)
        PROVE  /\ run[r] = "absent" /\ UNCHANGED worker
               /\ \A q \in Runs \ {r} : run'[q] = run[q]
    BY <1>1 DEF InsertRun, intake, TypeOK, RunsOK
  <1>2. UNCHANGED run \/ (\E r \in Runs : InsertRun(r)) \/ \E r \in Runs : JudgeRun(r)
    BY DEF Next, vars, HandlerBegins, HandlerWrites, Submit, Settle, BeginVote,
      BeginRetract, BeginReport, BeginModerate, Begin, WriteVote, WriteRetract,
      WriteReport, WriteConfirm, WriteDismiss, CreateRunClaim, ResolveSettlement,
      FetchContext, CompleteSettlement, WorkerCrash
  <1> QED
    BY <1>1, <1>2

LEMMA WorkerMoves ==
  [Next]_vars => \/ UNCHANGED worker
                 \/ \E r \in Runs : JudgeRun(r)
                 \/ FetchContext
                 \/ worker' = WorkerIdle
  BY DEF Next, vars, HandlerBegins, HandlerWrites, Submit, Settle, BeginVote,
    BeginRetract, BeginReport, BeginModerate, Begin, WriteVote, WriteRetract,
    WriteReport, WriteConfirm, WriteDismiss, CreateRunClaim, ResolveSettlement,
    InsertRun, CompleteSettlement, WorkerCrash, intake

LEMMA PointsWriters ==
  [Next]_vars => UNCHANGED <<points, ledger, notices>> \/ CompleteSettlement
  BY DEF Next, vars, HandlerBegins, HandlerWrites, Submit, Settle, BeginVote,
    BeginRetract, BeginReport, BeginModerate, Begin, WriteVote, WriteRetract,
    WriteReport, WriteConfirm, WriteDismiss, CreateRunClaim, ResolveSettlement,
    InsertRun, JudgeRun, FetchContext, WorkerCrash

-----------------------------------------------------------------------------
(* The settlement the worker has in hand.                                  *)

Uncredited(c) == \A n \in notices : n.claim # c

(* A claim that was credited is not open, and never will be.               *)
CreditedIsClosed ==
  \A n \in notices : Exists(n.claim) /\ claim[n.claim].status # "open"

(* What the worker read is still so when it writes.                        *)
ContextIsCurrent ==
  /\ worker.pc # "idle" => worker.run \in Runs /\ run[worker.run] = worker.verdict
  /\ worker.pc = "complete" =>
       /\ worker.verdict = "validated"
       /\ claim[worker.claim].run = worker.run
       /\ worker.points = points[claim[worker.claim].claimant]
       /\ Uncredited(worker.claim)

InHand == CreditedIsClosed /\ ContextIsCurrent

LEMMA InHandInit == Init => InHand
  BY DEF Init, WorkerIdle, InHand, CreditedIsClosed, ContextIsCurrent

LEMMA CreditedIsClosedStep ==
  ASSUME TypeOK, Known, InHand, [Next]_vars
  PROVE  CreditedIsClosed'
  <1>1. \A c \in Claims : Exists(c) /\ claim[c].status # "open" =>
          Exists(c)' /\ claim'[c].status # "open"
    BY ClaimMoves DEF Exists
  <1>2. CASE UNCHANGED notices
    BY <1>1, <1>2 DEF InHand, CreditedIsClosed, TypeOK, PointsOK
  <1>3. CASE CompleteSettlement
    <2>1. worker.claim \in Claims /\ Exists(worker.claim)
      BY <1>3 DEF CompleteSettlement, Known, TypeOK, WorkerOK
    <2>2. claim'[worker.claim].status # "open" /\ claim'[worker.claim].status # "absent"
      <3>1. claim' = IF claim[worker.claim].status = "open"
                     THEN [claim EXCEPT ![worker.claim].status = "settled_verified"]
                     ELSE claim
        BY <1>3 DEF CompleteSettlement
      <3> QED
        BY <2>1, <3>1 DEF Exists, TypeOK, ClaimsOK
    <2>3. \A n \in notices' : n \in notices \/ n.claim = worker.claim
      BY <1>3 DEF CompleteSettlement
    <2>4. ASSUME NEW n \in notices'
          PROVE  claim'[n.claim].status # "open" /\ claim'[n.claim].status # "absent"
      <3>1. CASE n \in notices
        <4>1. n.claim \in Claims
          BY <3>1 DEF TypeOK, PointsOK
        <4>2. Exists(n.claim) /\ claim[n.claim].status # "open"
          BY <3>1 DEF InHand, CreditedIsClosed
        <4> QED
          BY <1>1, <4>1, <4>2 DEF Exists
      <3>2. CASE n.claim = worker.claim
        BY <3>2, <2>2
      <3> QED
        BY <2>3, <3>1, <3>2
    <2> QED
      BY <2>4 DEF CreditedIsClosed, Exists
  <1> QED
    BY <1>2, <1>3, PointsWriters

LEMMA ContextIsCurrentStep ==
  ASSUME TypeOK, Known, InHand, [Next]_vars
  PROVE  ContextIsCurrent'
  <1>1. CASE UNCHANGED worker
    <2>5. ~CompleteSettlement
      BY <1>1 DEF CompleteSettlement, WorkerIdle
    <2>6. ASSUME NEW r \in Runs PROVE ~JudgeRun(r)
      BY <1>1 DEF JudgeRun, WorkerIdle
    <2>1. ~CompleteSettlement /\ \A r \in Runs : ~JudgeRun(r)
      BY <2>5, <2>6
    <2>2. UNCHANGED <<points, notices>>
      BY <2>1, PointsWriters
    <2>3. worker.pc # "idle" => run'[worker.run] = run[worker.run]
      <3> SUFFICES ASSUME worker.pc # "idle" PROVE run'[worker.run] = run[worker.run]
        OBVIOUS
      <3>1. worker.run \in Runs /\ run[worker.run] # "absent"
        BY DEF InHand, ContextIsCurrent, TypeOK, WorkerOK
      <3> QED
        BY <2>1, <3>1, RunMoves
    <2>4. worker.pc = "complete" =>
            /\ claim'[worker.claim].run = claim[worker.claim].run
            /\ claim'[worker.claim].claimant = claim[worker.claim].claimant
      <3> SUFFICES ASSUME worker.pc = "complete"
                   PROVE  /\ claim'[worker.claim].run = claim[worker.claim].run
                          /\ claim'[worker.claim].claimant = claim[worker.claim].claimant
        OBVIOUS
      <3>1. /\ worker.claim \in Claims /\ Exists(worker.claim)
            /\ claim[worker.claim].run \in Runs /\ claim[worker.claim].run # NoRun
        BY SettlementAssumption DEF InHand, ContextIsCurrent, Known, TypeOK, WorkerOK
      <3> QED
        BY <3>1, ClaimMoves
    <2> QED
      BY <1>1, <2>2, <2>3, <2>4 DEF InHand, ContextIsCurrent, Uncredited
  <1>2. ASSUME NEW r \in Runs, JudgeRun(r) PROVE ContextIsCurrent'
    <2>1. PICK v \in {"validated", "rejected"} :
            /\ run' = [run EXCEPT ![r] = v]
            /\ worker' = [WorkerIdle EXCEPT !.pc = "fetch", !.run = r, !.verdict = v]
      BY <1>2 DEF JudgeRun
    <2> QED
      BY <2>1 DEF WorkerIdle, ContextIsCurrent, TypeOK, RunsOK
  <1>3. CASE FetchContext /\ worker' # WorkerIdle
    <2>1. PICK c \in OpenBoundClaims(worker.run) :
            /\ worker.pc = "fetch" /\ worker.verdict = "validated"
            /\ worker' = [worker EXCEPT !.pc = "complete", !.claim = c,
                            !.points = points[claim[c].claimant],
                            !.doubted = Margin(c) < 0]
      BY <1>3 DEF FetchContext
    <2>2. c \in Claims /\ claim[c].run = worker.run /\ claim[c].status = "open"
      BY DEF OpenBoundClaims
    <2>3. /\ worker'.pc = "complete" /\ worker'.run = worker.run
          /\ worker'.verdict = worker.verdict /\ worker'.claim = c
          /\ worker'.points = points[claim[c].claimant]
      BY <2>1 DEF TypeOK, WorkerOK
    <2>4. UNCHANGED <<claim, run, points, notices>>
      BY <1>3 DEF FetchContext
    <2>5. Uncredited(c)
      BY <2>2 DEF InHand, CreditedIsClosed, Uncredited
    <2> QED
      BY <2>1, <2>2, <2>3, <2>4, <2>5 DEF InHand, ContextIsCurrent, Uncredited
  <1>4. CASE worker' = WorkerIdle
    BY <1>4 DEF WorkerIdle, ContextIsCurrent
  <1> QED
    BY <1>1, <1>2, <1>3, <1>4, WorkerMoves

LEMMA AlwaysInHand == Spec => [](TypeOK /\ Known /\ InHand)
  <1>1. TypeOK /\ Known /\ InHand /\ [Next]_vars => InHand'
    BY CreditedIsClosedStep, ContextIsCurrentStep DEF InHand
  <1> QED
    BY <1>1, TypeInit, TypeStep, InHandInit, PTL DEF Spec

-----------------------------------------------------------------------------
(* Only the completion of a settlement credits, and its claim is not yet.  *)
LEMMA CreditedOnceStep ==
  TypeOK /\ Known /\ InHand /\ CreditedOnce /\ [Next]_vars => CreditedOnce'
  <1> SUFFICES ASSUME TypeOK, Known, InHand, CreditedOnce, [Next]_vars
               PROVE  CreditedOnce'
    OBVIOUS
  <1>1. CreditedIsClosed'
    BY CreditedIsClosedStep
  <1>2. CASE UNCHANGED notices
    BY <1>1, <1>2 DEF CreditedOnce, CreditedIsClosed
  <1>3. CASE CompleteSettlement
    <2> DEFINE new == [claim |-> worker.claim, points |-> worker.points + Award]
    <2>1. notices' = notices \cup {new} /\ new.claim = worker.claim
      BY <1>3 DEF CompleteSettlement
    <2> HIDE DEF new
    <2>2. \A n \in notices : n.claim # new.claim
      BY <1>3, <2>1
      DEF CompleteSettlement, InHand, ContextIsCurrent, Uncredited
    <2> QED
      BY <1>1, <2>1, <2>2 DEF CreditedOnce, CreditedIsClosed
  <1> QED
    BY <1>2, <1>3, PointsWriters

(* A claim is credited once, although its run may be delivered and judged  *)
(* again, the claim may be retracted or refuted between the worker's read  *)
(* and its write, and the worker may crash in between.                     *)
THEOREM SettlementIsCreditedOnce == Spec => []CreditedOnce
  <1>1. Init => CreditedOnce
    BY DEF Init, CreditedOnce
  <1> QED
    BY <1>1, CreditedOnceStep, AlwaysInHand, PTL DEF Spec

(* Only the worker settles a claim, an open one whose run it validated.    *)
THEOREM OnlyValidatedRunsSettle == Spec => SettledByValidatedRun
  <1>1. TypeOK /\ Known /\ InHand /\ [Next]_vars =>
          [\A c \in Claims :
             (claim'[c].status = "settled_verified" /\ claim[c].status # "settled_verified")
             => /\ claim[c].status = "open"
                /\ claim[c].run \in Runs /\ run[claim[c].run] = "validated"]_vars
    <2> SUFFICES ASSUME TypeOK, Known, InHand, [Next]_vars, NEW c \in Claims,
                        claim'[c].status = "settled_verified",
                        claim[c].status # "settled_verified"
                 PROVE  /\ claim[c].status = "open"
                        /\ claim[c].run \in Runs /\ run[claim[c].run] = "validated"
      OBVIOUS
    <2>1. CompleteSettlement /\ c = worker.claim /\ claim[c].status = "open"
      BY ClaimMoves
    <2> QED
      BY <2>1 DEF CompleteSettlement, InHand, ContextIsCurrent
  <1> QED
    BY <1>1, AlwaysInHand, PTL DEF Spec, SettledByValidatedRun

(* A claim keeps the run it was bound to and shares it with no other claim. *)
THEOREM BindingStays == Spec => BindingIsFinal
  <1>1. TypeOK /\ Known /\ [Next]_vars =>
          [\A c \in Claims :
             /\ claim[c].run # NoRun => claim'[c].run = claim[c].run
             /\ claim'[c].run # claim[c].run =>
                  \A d \in Claims \ {c} : claim'[d].run # claim'[c].run]_vars
    <2> SUFFICES ASSUME TypeOK, Known, [Next]_vars, NEW c \in Claims
                 PROVE  /\ claim[c].run # NoRun => claim'[c].run = claim[c].run
                        /\ claim'[c].run # claim[c].run =>
                             \A d \in Claims \ {c} : claim'[d].run # claim'[c].run
      OBVIOUS
    <2>1. claim[c].run # NoRun => claim'[c].run = claim[c].run
      BY ClaimMoves DEF Known
    <2>2. ASSUME claim'[c].run # claim[c].run, NEW d \in Claims \ {c}
          PROVE  claim'[d].run # claim'[c].run
      <3>1. PICK r \in Runs : InsertRun(r) /\ claim'[c].run = r /\ submission.claim = c
        BY <2>2, ClaimMoves DEF Known
      <3>2. claim'[d] = claim[d] /\ run[r] = "absent" /\ r # NoRun
        BY <3>1, SettlementAssumption DEF InsertRun, TypeOK, ClaimsOK
      <3> QED
        BY <3>1, <3>2 DEF Known
    <2> QED
      BY <2>1, <2>2
  <1> QED
    BY <1>1, AlwaysKnown, PTL DEF Spec, BindingIsFinal

-----------------------------------------------------------------------------
(* The two writes that make a report live respect the index.               *)
LEMMA OneLiveReportStep ==
  TypeOK /\ Known /\ OneLiveReport /\ [Next]_vars => OneLiveReport'
  <1> SUFFICES ASSUME TypeOK, Known, OneLiveReport, [Next]_vars
               PROVE  OneLiveReport'
    OBVIOUS
  <1>1. CASE UNCHANGED report
    BY <1>1 DEF OneLiveReport, Live
  <1>2. ASSUME NEW t \in Threads, NEW q \in Reports, WriteReport(t, q), ~UNCHANGED report
        PROVE  OneLiveReport'
    <2>1. /\ ~IndexTaken(q, call[t].user, call[t].target)
          /\ report' = [report EXCEPT ![q] =
                          [status |-> "open", reporter |-> call[t].user,
                           target |-> call[t].target]]
      BY <1>2 DEF WriteReport
    <2> QED
      BY <2>1 DEF IndexTaken, OneLiveReport, Live, TypeOK, HandlersOK
  <1>3. ASSUME NEW t \in Threads, WriteConfirm(t) PROVE OneLiveReport'
    <2>1. report' = [report EXCEPT ![call[t].target].status = "confirmed"]
      BY <1>3 DEF WriteConfirm
    <2> QED
      BY <2>1 DEF OneLiveReport, Live, TypeOK, HandlersOK
  <1>4. ASSUME NEW t \in Threads, WriteDismiss(t), ~UNCHANGED report
        PROVE  OneLiveReport'
    <2> DEFINE q == call[t].target
    <2>1. /\ ~IndexTaken(q, report[q].reporter, report[q].target)
          /\ report' = [report EXCEPT ![q].status = "dismissed"]
          /\ q \in Reports
      BY <1>4 DEF WriteDismiss, Known
    <2> HIDE DEF q
    <2> QED
      BY <2>1 DEF IndexTaken, OneLiveReport, Live, TypeOK, HandlersOK
  <1>5. \/ UNCHANGED report
        \/ \E t \in Threads : \/ \E q \in Reports : WriteReport(t, q)
                             \/ WriteConfirm(t) \/ WriteDismiss(t)
    BY DEF Next, vars, HandlerBegins, HandlerWrites, Submit, Settle, BeginVote,
      BeginRetract, BeginReport, BeginModerate, Begin, WriteVote, WriteRetract,
      CreateRunClaim, ResolveSettlement, InsertRun, JudgeRun, FetchContext,
      CompleteSettlement, WorkerCrash
  <1> QED
    BY <1>1, <1>2, <1>3, <1>4, <1>5

(* A reporter has one live report on a target: the index, not the handler's *)
(* check, sees to it, also when a dismissal brings a report back.          *)
THEOREM LiveReportsAreUnique == Spec => []OneLiveReport
  <1>1. Init => OneLiveReport
    BY DEF Init, OneLiveReport, Live
  <1> QED
    BY <1>1, OneLiveReportStep, AlwaysKnown, PTL DEF Spec

-----------------------------------------------------------------------------
(* The points of a user are explained by the settlements of their claims.  *)

Credited(u) == {c \in Claims : /\ claim[c].claimant = u
                               /\ \E m \in notices : m.claim = c}

Explained ==
  \A u \in Users :
    /\ IsFiniteSet(Credited(u)) /\ points[u] = ledger[u]
    /\ \E b \in 0 .. Cardinality(Credited(u)) :
         points[u] = StartPoints[u] + Cardinality(Credited(u)) * BasePoints
                       + b * BonusPoints

LEMMA ExplainedInit == Init => Explained
  <1> SUFFICES ASSUME Init, NEW u \in Users
               PROVE  /\ IsFiniteSet(Credited(u)) /\ points[u] = ledger[u]
                      /\ \E b \in 0 .. Cardinality(Credited(u)) :
                           points[u] = StartPoints[u]
                             + Cardinality(Credited(u)) * BasePoints + b * BonusPoints
    BY DEF Explained
  <1>1. Credited(u) = {} /\ points[u] = StartPoints[u] /\ points[u] = ledger[u]
        /\ StartPoints[u] \in Nat
    BY SettlementAssumption DEF Init, Credited
  <1>2. IsFiniteSet({}) /\ Cardinality({}) = 0
    BY FS_EmptySet
  <1> QED
    BY <1>1, <1>2 DEF BasePoints, BonusPoints

LEMMA ExplainedStep ==
  TypeOK /\ Known /\ InHand /\ Explained /\ [Next]_vars => Explained'
  <1> SUFFICES ASSUME TypeOK, Known, InHand, Explained, [Next]_vars, NEW u \in Users
               PROVE  /\ IsFiniteSet(Credited(u)') /\ points'[u] = ledger'[u]
                      /\ \E b \in 0 .. Cardinality(Credited(u)') :
                           points'[u] = StartPoints[u]
                             + Cardinality(Credited(u)') * BasePoints + b * BonusPoints
    BY DEF Explained
  <1>1. \A c \in Claims : Exists(c) => claim'[c].claimant = claim[c].claimant
    BY ClaimMoves DEF Exists
  <1>2. \A m \in notices : m.claim \in Claims /\ Exists(m.claim)
    BY DEF InHand, CreditedIsClosed, TypeOK, PointsOK
  <1>3. CASE UNCHANGED <<points, ledger, notices>>
    <2>1. Credited(u)' = Credited(u)
      <3>1. ASSUME NEW c \in Claims
            PROVE  (claim'[c].claimant = u /\ \E m \in notices : m.claim = c)
                     <=> (claim[c].claimant = u /\ \E m \in notices : m.claim = c)
        BY <1>1, <1>2
      <3> QED
        BY <1>3, <3>1 DEF Credited
    <2> QED
      BY <1>3, <2>1 DEF Explained
  <1>4. CASE CompleteSettlement
    <2> DEFINE w == worker.claim
    <2>1. /\ w \in Claims /\ Exists(w) /\ claim[w].claimant \in Users
          /\ worker.points = points[claim[w].claimant] /\ Uncredited(w)
      BY <1>4 DEF CompleteSettlement, InHand, ContextIsCurrent, Known, Exists, TypeOK,
        ClaimsOK, WorkerOK
    <2> DEFINE new == [claim |-> w, points |-> worker.points + Award]
    <2>2. notices' = notices \cup {new} /\ new.claim = w
      BY <1>4 DEF CompleteSettlement
    <2>3. /\ points' = [points EXCEPT ![claim[w].claimant] = worker.points + Award]
          /\ ledger' = [ledger EXCEPT ![claim[w].claimant] =
                          ledger[claim[w].claimant] + Award]
      BY <1>4 DEF CompleteSettlement
    <2> HIDE DEF w, new
    <2>4. ASSUME NEW c \in Claims
          PROVE  (claim'[c].claimant = u /\ \E m \in notices' : m.claim = c)
                   <=> \/ claim[c].claimant = u /\ \E m \in notices : m.claim = c
                       \/ c = w /\ claim[w].claimant = u
      BY <1>1, <1>2, <2>1, <2>2
    <2>5. CASE claim[w].claimant = u
      <3>1. Credited(u)' = Credited(u) \cup {w} /\ w \notin Credited(u)
        BY <2>1, <2>4, <2>5 DEF Credited, Uncredited
      <3>9. IsFiniteSet(Credited(u)) /\ points[u] = ledger[u]
        BY DEF Explained
      <3>10. PICK n \in Nat : Cardinality(Credited(u)) = n
        BY <3>9, FS_CardinalityType
      <3>2. PICK b \in 0 .. n :
              points[u] = StartPoints[u] + n * BasePoints + b * BonusPoints
        BY <3>10 DEF Explained
      <3>3. IsFiniteSet(Credited(u)') /\ Cardinality(Credited(u)') = n + 1
        BY <3>1, <3>9, <3>10, FS_AddElement
      <3>4. points'[u] = points[u] + Award /\ ledger'[u] = ledger[u] + Award
        BY <2>1, <2>3, <2>5 DEF TypeOK, PointsOK
      <3>5. Award = BasePoints \/ Award = BasePoints + BonusPoints
        BY DEF Award, BasePoints, BonusPoints
      <3>6. StartPoints[u] \in Nat
        BY SettlementAssumption
      <3>7. CASE Award = BasePoints
        <4>1. /\ b \in 0 .. n + 1
              /\ points'[u] = StartPoints[u] + (n + 1) * BasePoints + b * BonusPoints
          BY <3>2, <3>4, <3>6, <3>7 DEF BasePoints, BonusPoints
        <4> QED
          BY <3>3, <3>4, <3>9, <4>1
      <3>8. CASE Award = BasePoints + BonusPoints
        <4>1. /\ b + 1 \in 0 .. n + 1
              /\ points'[u] = StartPoints[u] + (n + 1) * BasePoints + (b + 1) * BonusPoints
          BY <3>2, <3>4, <3>6, <3>8 DEF BasePoints, BonusPoints
        <4> QED
          BY <3>3, <3>4, <3>9, <4>1
      <3> QED
        BY <3>5, <3>7, <3>8
    <2>6. CASE claim[w].claimant # u
      <3>1. Credited(u)' = Credited(u)
        BY <2>4, <2>6 DEF Credited
      <3>2. points'[u] = points[u] /\ ledger'[u] = ledger[u]
        BY <2>3, <2>6 DEF TypeOK, PointsOK
      <3> QED
        BY <3>1, <3>2 DEF Explained
    <2> QED
      BY <2>5, <2>6
  <1> QED
    BY <1>3, <1>4, PointsWriters

(* The total the worker writes, computed from what it read a transaction   *)
(* earlier, is what the events of all settlements add up to.               *)
THEOREM PointsAreExplained == Spec => []PointsExplained
  <1>1. Explained => PointsExplained
    BY DEF Explained, PointsExplained, Credited
  <1> QED
    BY <1>1, ExplainedInit, ExplainedStep, AlwaysInHand, PTL DEF Spec
=============================================================================
