---------------------------- MODULE RunLifecycle ----------------------------
(***************************************************************************)
(* What the intake of bestmodel promises about a benchmark run, with no    *)
(* queue, no worker and no crash: a run is accepted once per lookup key,   *)
(* receives one verdict, keeps it, and a token-generation dimension group  *)
(* never holds two runs that count.                                        *)
(***************************************************************************)
CONSTANTS Runs,        \* ids of benchmark_run rows
          Lookups,     \* the five-column lookup keys of a submission
          Groups,      \* the dimension groups of the worker
          GroupOf,     \* GroupOf[l]: the dimension group of lookup key l
          VideoGroups, \* groups of video scenarios, which carry no token columns
          NoKey        \* the key of a run that was never accepted

VARIABLES status, \* status[r]: "absent", "submitted" or a verdict
          key     \* key[r]: the lookup key run r was accepted under

vars == <<status, key>>

Verdicts == {"validated", "quarantined", "rejected"}
Blocking == {"validated", "quarantined"}

(* Two llm runs of one dimension group; a video run shares a group with no *)
(* other run.                                                              *)
Peers(r, s) ==
  /\ r # s
  /\ GroupOf[key[r]] = GroupOf[key[s]]
  /\ GroupOf[key[r]] \notin VideoGroups

Init == /\ status = [r \in Runs |-> "absent"]
        /\ key = [r \in Runs |-> NoKey]

(* A submission is accepted under a key no accepted run has.               *)
Accept(r, l) ==
  /\ status[r] = "absent"
  /\ \A s \in Runs : key[s] # l
  /\ status' = [status EXCEPT ![r] = "submitted"]
  /\ key' = [key EXCEPT ![r] = l]

(* The one verdict of a run; a verdict that counts needs a free group.     *)
Decide(r, v) ==
  /\ status[r] = "submitted"
  /\ v \in Blocking => \A s \in Runs :
       status[s] \in Blocking => ~Peers(r, s)
  /\ status' = [status EXCEPT ![r] = v]
  /\ UNCHANGED key

Next == \/ \E r \in Runs, l \in Lookups : Accept(r, l)
        \/ \E r \in Runs, v \in Verdicts : Decide(r, v)

Spec == Init /\ [][Next]_vars
=============================================================================
