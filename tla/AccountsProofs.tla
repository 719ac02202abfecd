---------------------------- MODULE AccountsProofs ----------------------------
(***************************************************************************)
(* Proofs about Accounts for any handles, authenticators, identities,      *)
(* challenges, tokens, threads and numbers of requests.  First the types   *)
(* and what a request names, then two summaries of a step: what only       *)
(* grows, and what a commit of one thread does to the requests of the      *)
(* others.  All that follows uses the summaries in place of the actions.   *)
(***************************************************************************)
EXTENDS Accounts, WellFoundedInduction, TLAPS

-----------------------------------------------------------------------------
(* Requests and rows                                                       *)

Ops == {"idle", "create", "check", "issue", "enrol", "assert", "link", "login",
        "revoke"}

Requests ==
  [op : Ops, user : Handles \cup {None}, by : Handles \cup {None},
   proof : Passkeys \cup Identities \cup SigningKeys \cup {None},
   challenge : Challenges \cup {None}, found : Handles \cup {None}, stale : BOOLEAN]

ChallengeRows ==
  [status : {"unused", "live", "gone"},
   purpose : {"none", "registration", "authentication"},
   user : Handles \cup {None}, passkey : Passkeys \cup {None},
   count : Nat, ground : BOOLEAN]

Domains ==
  /\ challenge \in [Challenges -> ChallengeRows]
  /\ request \in [Threads -> Requests]
  /\ agents \in [Revocable -> [user : Handles \cup {None}, live : BOOLEAN]]
  /\ enrolled \in [Passkeys -> Challenges \cup {None}]
  /\ spent \in [Challenges -> Nat] /\ answers \in [Revocable -> Nat]
  /\ held \in [Identities -> SUBSET Handles]

(* The challenge has been signed and handed out.                           *)
Issued(c) == challenge[c].status # "unused"

(* What a request in flight names is there.                                *)
Names(t) ==
  LET r == request[t]
  IN  /\ r.op # "idle" => r.user \in Handles
      /\ r.op \in {"check", "issue", "enrol", "assert", "link"} => r.user \in users
      /\ r.op \in {"enrol", "assert"} =>
           r.proof \in Passkeys /\ r.challenge \in Challenges /\ Issued(r.challenge)
      /\ r.op \in {"link", "login"} =>
           r.proof \in Identities /\ r.found \in users \cup {None}
      /\ r.op = "login" /\ r.found # None => r.user = r.found
      /\ r.op = "revoke" => r.proof \in SigningKeys

Typed == TypeOK /\ Domains /\ \A t \in Threads : Names(t)

(* What a step does to the request of a thread.                            *)
Same(s)     == request'[s] = request[s]
Overtook(s) ==
  LET r == request[s]
      q == request'[s]
  IN  /\ q.stale
      /\ q.op = r.op /\ q.user = r.user /\ q.by = r.by /\ q.proof = r.proof
      /\ q.challenge = r.challenge /\ q.found = r.found
Answered(s) == request'[s] = Idle

LEMMA IdleIsRequest == Idle \in Requests /\ Idle.op = "idle" /\ Idle.stale = FALSE
BY DEF Idle, Requests, Ops

LEMMA UnusedIsRow == Unused \in ChallengeRows
BY DEF Unused, ChallengeRows

(* Rows of users, bindings and credentials never hold None.                *)
LEMMA NoneIsNobody == ASSUME TypeOK PROVE None \notin users
BY AccountsAssumption DEF TypeOK

(* The requests after a commit that overtakes the others.                  *)
LEMMA OvertakenIs ==
  ASSUME Domains, NEW others, NEW s \in Threads
  PROVE  LET r == request[s]
             q == Overtaken(others)[s]
         IN  /\ q \in Requests
             /\ q.op = r.op /\ q.user = r.user /\ q.by = r.by /\ q.proof = r.proof
             /\ q.challenge = r.challenge /\ q.found = r.found
             /\ (s \in others /\ r.op # "idle") => q.stale
             /\ (s \notin others \/ r.op = "idle") => q = r
<1>1. request[s] \in Requests
  BY DEF Domains
<1> DEFINE r == request[s]
<1>2. [r EXCEPT !.stale = TRUE] \in Requests
  BY <1>1 DEF Requests
<1> QED BY <1>1, <1>2 DEF Overtaken, Requests

LEMMA OvertakenIsFunction ==
  ASSUME Domains, NEW others
  PROVE  Overtaken(others) \in [Threads -> Requests]
<1>1. \A s \in Threads : Overtaken(others)[s] \in Requests
  BY OvertakenIs
<1> QED BY <1>1 DEF Overtaken

LEMMA CommitMoves ==
  ASSUME Domains, NEW t \in Threads, Commit(t)
  PROVE  /\ request' \in [Threads -> Requests]
         /\ Answered(t)
         /\ \A s \in Threads \ {t} : Overtook(s) \/ (Same(s) /\ request[s].op = "idle")
         /\ raced \subseteq raced'
         /\ LET r == request[t]
            IN  r.stale => {r.user, r.proof, r.challenge} \subseteq raced'
<1>1. request' = [Overtaken(Threads \ {t}) EXCEPT ![t] = Idle]
  BY DEF Commit
<1>2. request' \in [Threads -> Requests] /\ Answered(t)
  BY <1>1, OvertakenIsFunction, IdleIsRequest DEF Answered
<1>3. \A s \in Threads \ {t} : request'[s] = Overtaken(Threads \ {t})[s]
  BY <1>1, OvertakenIsFunction
<1>4. ASSUME NEW s \in Threads \ {t}
      PROVE  Overtook(s) \/ (Same(s) /\ request[s].op = "idle")
  <2> DEFINE others == Threads \ {t}
  <2>1. s \in others /\ s \in Threads /\ request'[s] = Overtaken(others)[s]
    BY <1>3
  <2> HIDE DEF others
  <2> QED BY <2>1, OvertakenIs DEF Overtook, Same
<1> QED BY <1>2, <1>4 DEF Commit

LEMMA AtOnceMoves ==
  ASSUME Domains, AtOnce
  PROVE  /\ request' \in [Threads -> Requests]
         /\ \A s \in Threads : Overtook(s) \/ (Same(s) /\ request[s].op = "idle")
<1>1. request' = Overtaken(Threads)
  BY DEF AtOnce
<1>2. ASSUME NEW s \in Threads
      PROVE  Overtook(s) \/ (Same(s) /\ request[s].op = "idle")
  BY <1>1, OvertakenIs DEF Overtook, Same
<1> QED BY <1>1, <1>2, OvertakenIsFunction

LEMMA BeginMoves ==
  ASSUME Domains, NEW t \in Threads, NEW r \in Requests, Begin(t, r)
  PROVE  /\ request' \in [Threads -> Requests]
         /\ request'[t] = r /\ request[t].op = "idle"
         /\ \A s \in Threads \ {t} : Same(s)
BY DEF Begin, Domains, Same

LEMMA FailMoves ==
  ASSUME Domains, NEW t \in Threads, Fail(t)
  PROVE  /\ request' \in [Threads -> Requests]
         /\ Answered(t)
         /\ \A s \in Threads \ {t} : Same(s)
         /\ UNCHANGED <<tables, device, challenge, links, sessions, history, raced>>
BY IdleIsRequest DEF Fail, Domains, Same, Answered

(* Who was named is still there.                                           *)
LEMMA NamesStay ==
  ASSUME Domains, users \subseteq users', NEW s \in Threads,
         \A c \in Challenges : Issued(c) => Issued(c)',
         \/ Answered(s)
         \/ Names(s) /\ (Same(s) \/ Overtook(s))
  PROVE  Names(s)'
<1>1. request[s] \in Requests
  BY DEF Domains
<1>2. CASE Answered(s)
  BY <1>2, IdleIsRequest DEF Answered, Names
<1>3. CASE Names(s) /\ Same(s)
  BY <1>3 DEF Same, Names, Issued
<1>4. CASE Names(s) /\ Overtook(s)
  BY <1>1, <1>4 DEF Overtook, Names, Requests
<1> QED BY <1>2, <1>3, <1>4

LEMMA LeastNumber ==
  ASSUME NEW S \in SUBSET Nat, S # {}
  PROVE  \E n \in S : \A m \in S : n <= m
<1> DEFINE Below == OpToRel(<, Nat)
<1>1. IsWellFoundedOn(Below, Nat)
  BY NatLessThanWellFounded
<1>2. \A m, n \in Nat : <<m, n>> \in Below <=> m < n
  BY DEF OpToRel
<1> HIDE DEF Below
<1>3. PICK n \in S : \A m \in S : ~(<<m, n>> \in Below)
  BY <1>1, WFMin
<1>4. \A m \in S : ~(m < n)
  BY <1>2, <1>3
<1> QED BY <1>4

LEMMA HandlesAreTried ==
  ASSUME NEW i \in Identities
  PROVE  HandleFor(i) \in Handles
<1> DEFINE seq  == Candidates[i]
           free == {n \in DOMAIN seq : seq[n] \notin users}
<1>1. seq \in Seq(Handles) /\ seq # <<>>
  BY AccountsAssumption
<1>2. DOMAIN seq = 1..Len(seq) /\ Len(seq) \in Nat \ {0} /\ \A n \in DOMAIN seq : seq[n] \in Handles
  BY <1>1
<1>3. CASE free = {}
  BY <1>2, <1>3 DEF HandleFor, Last
<1>4. CASE free # {}
  <2>1. free \in SUBSET Nat
    BY <1>2
  <2>2. \E n \in free : \A m \in free : n <= m
    <3> HIDE DEF free
    <3> QED BY <1>4, <2>1, LeastNumber
  <2>3. (CHOOSE n \in free : \A m \in free : n <= m) \in free
    BY <2>2
  <2> QED BY <1>2, <1>4, <2>3 DEF HandleFor
<1> QED BY <1>3, <1>4

-----------------------------------------------------------------------------
LEMMA TypedInit == Init => Typed
<1> SUFFICES ASSUME Init PROVE Typed
  OBVIOUS
<1>1. Domains
  <2>1. challenge \in [Challenges -> ChallengeRows] /\ request \in [Threads -> Requests]
    BY IdleIsRequest, UnusedIsRow DEF Init
  <2> QED BY <2>1 DEF Init, Domains
<1>2. TypeOK
  <2>1. \A c \in Challenges : challenge[c].status = "unused"
    BY DEF Init, Unused
  <2>2. \A t \in Threads : request[t].op = "idle"
    BY IdleIsRequest DEF Init
  <2> QED BY <2>1, <2>2 DEF Init, TypeOK
<1>3. \A t \in Threads : Names(t)
  BY IdleIsRequest DEF Init, Names
<1> QED BY <1>1, <1>2, <1>3 DEF Typed

(* A step that touches the requests only.                                  *)
LEMMA TypedRequests ==
  ASSUME Typed, request' \in [Threads -> Requests], \A t \in Threads : Names(t)',
         UNCHANGED <<tables, device, challenge, links, sessions, history>>
  PROVE  Typed'
<1>1. Domains'
  BY DEF Typed, Domains, tables, history
<1>2. TypeOK'
  BY DEF Typed, TypeOK, tables, history, Requests, Ops, Revocable
<1> QED BY <1>1, <1>2 DEF Typed

LEMMA TypedFail ==
  ASSUME Typed, NEW t \in Threads, Fail(t)
  PROVE  Typed'
<1>1. /\ request' \in [Threads -> Requests] /\ Answered(t)
      /\ \A s \in Threads \ {t} : Same(s)
      /\ UNCHANGED <<tables, device, challenge, links, sessions, history, raced>>
  BY FailMoves DEF Typed
<1>2. \A s \in Threads : Names(s)'
  BY <1>1, NamesStay DEF Typed, tables, Issued
<1> QED BY <1>1, <1>2, TypedRequests

(* A request begins, and names what is there.                              *)
LEMMA TypedBegins ==
  ASSUME Typed, NEW t \in Threads, NEW r \in Requests, Begin(t, r),
         UNCHANGED <<tables, device, challenge, links, sessions, history>>,
         r.op # "idle" => r.user \in Handles,
         r.op \in {"check", "issue", "enrol", "assert", "link"} => r.user \in users,
         r.op \in {"enrol", "assert"} =>
           r.proof \in Passkeys /\ r.challenge \in Challenges /\ Issued(r.challenge),
         r.op \in {"link", "login"} =>
           r.proof \in Identities /\ r.found \in users \cup {None},
         r.op = "login" /\ r.found # None => r.user = r.found,
         r.op = "revoke" => r.proof \in SigningKeys
  PROVE  Typed'
<1>1. /\ request' \in [Threads -> Requests] /\ request'[t] = r
      /\ \A s \in Threads \ {t} : Same(s)
  BY BeginMoves DEF Typed
<1>2. \A s \in Threads \ {t} : Names(s)'
  BY <1>1, NamesStay DEF Typed, tables, Issued
<1>3. Names(t)'
  BY <1>1 DEF Names, Issued, tables
<1>4. \A s \in Threads : Names(s)'
  BY <1>2, <1>3
<1> QED BY <1>1, <1>4, TypedRequests

LEMMA TypedBegin ==
  ASSUME Typed, NEW t \in Threads,
         \/ \E u \in Handles, by \in users \cup {None} : BeginOptions(t, u, by)
         \/ \E u \in Handles, c \in Challenges, p \in Passkeys : BeginEnrol(t, u, c, p)
         \/ \E u \in Handles, c \in Challenges : BeginAssert(t, u, c)
         \/ \E i \in Identities : BeginLogin(t, i)
         \/ \E u \in users, i \in Identities : BeginLink(t, u, i)
         \/ \E u \in users, k \in SigningKeys : BeginRevokeKey(t, u, k)
  PROVE  Typed'
<1>1. TypeOK /\ Domains /\ users \subseteq Handles
  BY DEF Typed, TypeOK
<1>2. ASSUME NEW u \in Handles, NEW by \in users \cup {None}, BeginOptions(t, u, by)
      PROVE  Typed'
  <2> DEFINE r == [Idle EXCEPT !.op = IF u \in users THEN "check" ELSE "create",
                               !.user = u, !.by = by]
  <2>1. /\ r \in Requests /\ r.user = u
        /\ r.op \in {"check", "create"} /\ (r.op = "check" => u \in users)
    BY <1>1 DEF Idle, Requests, Ops
  <2>2. Begin(t, r) /\ UNCHANGED <<tables, device, challenge, links, sessions, history>>
    BY <1>2 DEF BeginOptions
  <2> HIDE DEF r
  <2> QED BY <2>1, <2>2, TypedBegins
<1>3. ASSUME NEW u \in Handles, NEW c \in Challenges, NEW p \in Passkeys,
             BeginEnrol(t, u, c, p)
      PROVE  Typed'
  <2> DEFINE r == [Idle EXCEPT !.op = "enrol", !.user = u, !.proof = p, !.challenge = c]
  <2>1. /\ r \in Requests /\ r.user = u /\ u \in users
        /\ r.op = "enrol" /\ r.proof = p /\ r.challenge = c /\ Issued(c)
    BY <1>1, <1>3 DEF Idle, Requests, Ops, BeginEnrol, Answers, Issued
  <2>2. Begin(t, r) /\ UNCHANGED <<tables, device, challenge, links, sessions, history>>
    BY <1>3 DEF BeginEnrol
  <2> HIDE DEF r
  <2> QED BY <2>1, <2>2, TypedBegins
<1>4. ASSUME NEW u \in Handles, NEW c \in Challenges, BeginAssert(t, u, c)
      PROVE  Typed'
  <2> DEFINE p == challenge[c].passkey
             r == [Idle EXCEPT !.op = "assert", !.user = u, !.proof = p, !.challenge = c]
  <2>1. p \in Passkeys /\ u \in users /\ Issued(c)
    BY <1>4 DEF BeginAssert, PasskeysOf, Answers, Issued
  <2>2. /\ r \in Requests /\ r.user = u /\ r.op = "assert" /\ r.proof = p
        /\ r.challenge = c
    BY <1>1, <2>1 DEF Idle, Requests, Ops
  <2>3. Begin(t, r) /\ UNCHANGED <<tables, device, challenge, links, sessions, history>>
    BY <1>4 DEF BeginAssert
  <2> HIDE DEF r, p
  <2> QED BY <2>1, <2>2, <2>3, TypedBegins
<1>5. ASSUME NEW i \in Identities, BeginLogin(t, i)
      PROVE  Typed'
  <2> DEFINE u == IF account[i] # None THEN account[i] ELSE HandleFor(i)
             r == [Idle EXCEPT !.op = "login", !.proof = i, !.found = account[i],
                               !.user = u]
  <2>1. /\ account[i] \in users \cup {None} /\ u \in Handles
        /\ (account[i] # None => u = account[i])
    BY <1>1, HandlesAreTried DEF TypeOK
  <2> HIDE DEF u
  <2>2. /\ r \in Requests /\ r.user = u /\ r.op = "login" /\ r.proof = i
        /\ r.found = account[i]
    BY <1>1, <2>1 DEF Idle, Requests, Ops
  <2>3. Begin(t, r) /\ UNCHANGED <<tables, device, challenge, links, sessions, history>>
    BY <1>5 DEF BeginLogin, u
  <2> HIDE DEF r
  <2> QED BY <2>1, <2>2, <2>3, TypedBegins
<1>6. ASSUME NEW u \in users, NEW i \in Identities, BeginLink(t, u, i)
      PROVE  Typed'
  <2> DEFINE r == [Idle EXCEPT !.op = "link", !.user = u, !.proof = i,
                               !.found = account[i]]
  <2>1. account[i] \in users \cup {None}
    BY <1>1 DEF TypeOK
  <2>2. /\ r \in Requests /\ r.user = u /\ r.op = "link" /\ r.proof = i
        /\ r.found = account[i]
    BY <1>1, <2>1 DEF Idle, Requests, Ops
  <2>3. Begin(t, r) /\ UNCHANGED <<tables, device, challenge, links, sessions, history>>
    BY <1>6 DEF BeginLink
  <2> HIDE DEF r
  <2> QED BY <1>1, <2>1, <2>2, <2>3, TypedBegins
<1>7. ASSUME NEW u \in users, NEW k \in SigningKeys, BeginRevokeKey(t, u, k)
      PROVE  Typed'
  <2> DEFINE r == [Idle EXCEPT !.op = "revoke", !.user = u, !.proof = k]
  <2>1. r \in Requests /\ r.user = u /\ r.op = "revoke" /\ r.proof = k
    BY <1>1 DEF Idle, Requests, Ops
  <2>2. Begin(t, r) /\ UNCHANGED <<tables, device, challenge, links, sessions, history>>
    BY <1>7 DEF BeginRevokeKey
  <2> HIDE DEF r
  <2> QED BY <1>1, <2>1, <2>2, TypedBegins
<1> QED BY <1>2, <1>3, <1>4, <1>5, <1>6, <1>7

(* The requests after a commit, and after a request of one step.           *)
LEMMA TypedCommit ==
  ASSUME Typed, users \subseteq users',
         \A c \in Challenges : Issued(c) => Issued(c)', NEW t \in Threads, Commit(t)
  PROVE  request' \in [Threads -> Requests] /\ \A s \in Threads : Names(s)'
<1>1. /\ request' \in [Threads -> Requests] /\ Answered(t)
      /\ \A s \in Threads \ {t} : Overtook(s) \/ (Same(s) /\ request[s].op = "idle")
  BY CommitMoves DEF Typed
<1> QED BY <1>1, NamesStay DEF Typed

LEMMA TypedAtOnce ==
  ASSUME Typed, users \subseteq users',
         \A c \in Challenges : Issued(c) => Issued(c)', AtOnce
  PROVE  request' \in [Threads -> Requests] /\ \A s \in Threads : Names(s)'
<1>1. /\ request' \in [Threads -> Requests]
      /\ \A s \in Threads : Overtook(s) \/ (Same(s) /\ request[s].op = "idle")
  BY AtOnceMoves DEF Typed
<1> QED BY <1>1, NamesStay DEF Typed

(* The steps of passkey_registration_options.                              *)
LEMMA TypedOptions ==
  ASSUME Typed, NEW t \in Threads,
         \/ CreateUser(t) \/ CheckOwner(t)
         \/ \E c \in Challenges : IssueRegistration(t, c)
  PROVE  Typed'
<1> DEFINE r == request[t]
<1>1. TypeOK /\ Domains /\ users \subseteq Handles /\ r \in Requests /\ Names(t)
  BY DEF Typed, TypeOK, Domains
<1>2. CASE CreateUser(t)
  <2>1. CASE r.user \in users
    BY <1>2, <2>1, TypedFail DEF CreateUser
  <2>2. CASE r.user \notin users
    <3> DEFINE over == Overtaken(Threads \ {t})
    <3>1. /\ users' = users \cup {r.user} /\ request' = [over EXCEPT ![t].op = "check"]
          /\ r.op = "create"
          /\ UNCHANGED <<owner, count, account, agents, device, challenge, links,
                         sessions, history>>
      BY <1>2, <2>2 DEF CreateUser
    <3>2. r.user \in Handles
      BY <1>1, <3>1 DEF Names
    <3>3. over \in [Threads -> Requests] /\ over[t] = r
      BY <1>1, OvertakenIs, OvertakenIsFunction
    <3>4. \A s \in Threads \ {t} : Names(s)'
      <4> SUFFICES ASSUME NEW s \in Threads \ {t} PROVE Names(s)'
        OBVIOUS
      <4>1. request'[s] = over[s]
        BY <3>1, <3>3
      <4>2. Overtook(s) \/ Same(s)
        BY <1>1, <4>1, OvertakenIs DEF Overtook, Same
      <4> QED BY <1>1, <3>1, <4>2, NamesStay DEF Typed, Issued
    <3> HIDE DEF over
    <3>5. [r EXCEPT !.op = "check"] \in Requests
      BY <1>1 DEF Requests, Ops
    <3>6. request' \in [Threads -> Requests] /\ request'[t] = [r EXCEPT !.op = "check"]
      BY <3>1, <3>3, <3>5
    <3>7. Names(t)'
      BY <1>1, <3>1, <3>6 DEF Names, Requests, Issued
    <3>8. \A s \in Threads : Names(s)'
      BY <3>4, <3>7
    <3>9. Domains'
      BY <1>1, <3>1, <3>6 DEF Domains, history
    <3>10. TypeOK'
      BY <1>1, <3>1, <3>2, <3>6 DEF TypeOK, history, Requests, Ops
    <3> QED BY <3>8, <3>9, <3>10 DEF Typed
  <2> QED BY <2>1, <2>2
<1>3. CASE CheckOwner(t)
  <2>1. CASE ~MayEnrol(r.user, r.by)
    BY <1>3, <2>1, TypedFail DEF CheckOwner
  <2>2. CASE MayEnrol(r.user, r.by)
    <3> DEFINE found == IF r.by = r.user \/ Open(r.user) THEN r.user ELSE None
               q == [r EXCEPT !.op = "issue", !.found = found]
    <3>1. /\ r.op = "check" /\ request' = [request EXCEPT ![t].op = "issue", ![t].found = found]
          /\ UNCHANGED <<tables, device, challenge, links, sessions, history>>
      BY <1>3, <2>2 DEF CheckOwner
    <3>2. found \in Handles \cup {None}
      BY <1>1, <3>1 DEF Names
    <3> HIDE DEF found
    <3>3. q \in Requests /\ q.op = "issue" /\ q.user = r.user
      BY <1>1, <3>2 DEF Requests, Ops
    <3>4. /\ request' \in [Threads -> Requests] /\ request'[t] = q
          /\ \A s \in Threads \ {t} : Same(s)
      BY <1>1, <3>1, <3>3 DEF Domains, Same
    <3>5. \A s \in Threads \ {t} : Names(s)'
      BY <1>1, <3>1, <3>4, NamesStay DEF Typed, tables, Issued
    <3>6. Names(t)'
      BY <1>1, <3>1, <3>3, <3>4 DEF Names, tables, Issued
    <3> QED BY <3>1, <3>4, <3>5, <3>6, TypedRequests
  <2> QED BY <2>1, <2>2
<1>4. ASSUME NEW c \in Challenges, IssueRegistration(t, c)
      PROVE  Typed'
  <2> DEFINE row == [Unused EXCEPT !.status = "live", !.purpose = "registration",
                                   !.user = r.user, !.ground = r.found = r.user]
  <2>1. /\ r.op = "issue" /\ challenge' = [challenge EXCEPT ![c] = row] /\ Commit(t)
        /\ UNCHANGED <<tables, device, links, sessions, history>>
    BY <1>4 DEF IssueRegistration
  <2>2. r.user \in users
    BY <1>1, <2>1 DEF Names
  <2>3. row \in ChallengeRows /\ row.user = r.user /\ row.status = "live"
    BY <1>1, <2>2 DEF Unused, ChallengeRows
  <2> HIDE DEF row
  <2>4. request' \in [Threads -> Requests] /\ \A s \in Threads : Names(s)'
    <3>1. \A d \in Challenges : Issued(d) => Issued(d)'
      BY <1>1, <2>1, <2>3 DEF Domains, Issued
    <3> QED BY <2>1, <3>1, TypedCommit DEF tables
  <2>5. Domains'
    BY <1>1, <2>1, <2>3, <2>4 DEF Domains, tables, history
  <2>6. \A d \in Challenges : /\ challenge'[d].status \in {"unused", "live", "gone"}
                              /\ challenge'[d].status # "unused" => challenge'[d].user \in users
    BY <1>1, <2>1, <2>2, <2>3 DEF Domains, TypeOK, ChallengeRows
  <2>7. TypeOK'
    BY <1>1, <2>1, <2>4, <2>6 DEF TypeOK, tables, history, Requests, Ops, Revocable
  <2> QED BY <2>4, <2>5, <2>7 DEF Typed
<1> QED BY <1>2, <1>3, <1>4

(* A challenge that was answered or is too old keeps all but its status.   *)
LEMMA DeletedIs ==
  ASSUME Typed, NEW c \in Challenges, Issued(c), Deleted(c)
  PROVE  /\ challenge' \in [Challenges -> ChallengeRows]
         /\ \A d \in Challenges : LET row == challenge[d]
                                     new == challenge'[d]
                                 IN  /\ new.status = IF d = c THEN "gone" ELSE row.status
                                     /\ new.purpose = row.purpose /\ new.user = row.user
                                     /\ new.passkey = row.passkey /\ new.count = row.count
                                     /\ new.ground = row.ground
         /\ \A d \in Challenges : Issued(d)' <=> Issued(d)
         /\ \A d \in Challenges :
              /\ challenge'[d].status \in {"unused", "live", "gone"}
              /\ challenge'[d].status # "unused" => challenge'[d].user \in users
<1> DEFINE row == [challenge[c] EXCEPT !.status = "gone"]
<1>1. challenge \in [Challenges -> ChallengeRows]
  BY DEF Typed, Domains
<1>2. /\ row \in ChallengeRows /\ row.status = "gone" /\ row.purpose = challenge[c].purpose
      /\ row.user = challenge[c].user /\ row.passkey = challenge[c].passkey
      /\ row.count = challenge[c].count /\ row.ground = challenge[c].ground
  BY <1>1 DEF ChallengeRows
<1>3. challenge' = [challenge EXCEPT ![c] = row]
  BY DEF Deleted
<1> HIDE DEF row
<1>4. \A d \in Challenges : Issued(d) => challenge[d].user \in users
  BY DEF Typed, TypeOK, Issued
<1> QED BY <1>1, <1>2, <1>3, <1>4 DEF Issued, ChallengeRows

(* The passkey ceremonies.                                                 *)
LEMMA TypedPasskey ==
  ASSUME Typed, NEW t \in Threads, CommitEnrol(t) \/ CommitAssert(t)
  PROVE  Typed'
<1> DEFINE r == request[t]
<1>1. TypeOK /\ Domains /\ r \in Requests /\ Names(t)
  BY DEF Typed, Domains
<1>2. CASE CommitEnrol(t) /\ owner[r.proof] # None
  BY <1>2, TypedFail DEF CommitEnrol
<1>3. CASE CommitEnrol(t) /\ owner[r.proof] = None
  <2>1. PICK n \in {0, 1} : device' = [device EXCEPT ![r.proof] = n]
                           /\ count' = [count EXCEPT ![r.proof] = n]
    BY <1>3 DEF CommitEnrol
  <2>2. /\ r.op = "enrol" /\ owner' = [owner EXCEPT ![r.proof] = r.user]
        /\ enrolled' = [enrolled EXCEPT ![r.proof] = r.challenge]
        /\ spent' = [spent EXCEPT ![r.challenge] = @ + 1]
        /\ broken' \subseteq broken \cup {"enrol"}
        /\ Deleted(r.challenge) /\ Commit(t)
        /\ UNCHANGED <<users, account, agents, links, sessions, held, asked, answers>>
    BY <1>3 DEF CommitEnrol
  <2>3. /\ r.user \in users /\ r.proof \in Passkeys /\ r.challenge \in Challenges
        /\ Issued(r.challenge)
    BY <1>1, <2>2 DEF Names
  <2>4. /\ challenge' \in [Challenges -> ChallengeRows]
        /\ \A d \in Challenges : Issued(d)' <=> Issued(d)
        /\ \A d \in Challenges :
             /\ challenge'[d].status \in {"unused", "live", "gone"}
             /\ challenge'[d].status # "unused" => challenge'[d].user \in users
    BY <2>2, <2>3, DeletedIs
  <2>5. request' \in [Threads -> Requests] /\ \A s \in Threads : Names(s)'
    BY <2>2, <2>4, TypedCommit
  <2>6. Domains'
    <3>1. spent' \in [Challenges -> Nat]
      BY <1>1, <2>2, <2>3 DEF Domains
    <3>2. enrolled' \in [Passkeys -> Challenges \cup {None}]
      BY <1>1, <2>2, <2>3 DEF Domains
    <3> QED BY <1>1, <2>2, <2>4, <2>5, <3>1, <3>2 DEF Domains
  <2>7. TypeOK'
    BY <1>1, <2>1, <2>2, <2>3, <2>4, <2>5 DEF TypeOK, Requests, Ops
  <2> QED BY <2>5, <2>6, <2>7 DEF Typed
<1>4. CASE CommitAssert(t)
  <2>1. /\ r.op = "assert"
        /\ count' = [count EXCEPT ![r.proof] = challenge[r.challenge].count]
        /\ sessions' = sessions \cup {[user |-> r.user, via |-> r.proof]}
        /\ spent' = [spent EXCEPT ![r.challenge] = @ + 1]
        /\ Deleted(r.challenge) /\ Commit(t)
        /\ UNCHANGED <<users, owner, account, agents, device, links, enrolled, held, asked,
                       answers, broken>>
    BY <1>4 DEF CommitAssert
  <2>2. /\ r.user \in users /\ r.proof \in Passkeys /\ r.challenge \in Challenges
        /\ Issued(r.challenge)
    BY <1>1, <2>1 DEF Names
  <2>3. /\ challenge' \in [Challenges -> ChallengeRows]
        /\ \A d \in Challenges : Issued(d)' <=> Issued(d)
        /\ \A d \in Challenges :
             /\ challenge'[d].status \in {"unused", "live", "gone"}
             /\ challenge'[d].status # "unused" => challenge'[d].user \in users
    BY <2>1, <2>2, DeletedIs
  <2>4. request' \in [Threads -> Requests] /\ \A s \in Threads : Names(s)'
    BY <2>1, <2>3, TypedCommit
  <2>5. challenge[r.challenge].count \in Nat
    BY <1>1, <2>2 DEF Domains, ChallengeRows
  <2>6. Domains'
    <3>1. spent' \in [Challenges -> Nat]
      BY <1>1, <2>1, <2>2 DEF Domains
    <3> QED BY <1>1, <2>1, <2>3, <2>4, <3>1 DEF Domains
  <2>7. TypeOK'
    BY <1>1, <2>1, <2>2, <2>3, <2>4, <2>5 DEF TypeOK, Requests, Ops
  <2> QED BY <2>4, <2>6, <2>7 DEF Typed
<1> QED BY <1>2, <1>3, <1>4

(* The login ceremony begins.                                              *)
LEMMA TypedLogin ==
  ASSUME Typed, NEW u \in users, NEW c \in Challenges, NEW p \in Passkeys,
         LoginOptions(u, c, p)
  PROVE  Typed'
<1> DEFINE n   == IF device[p] = 0 THEN 0 ELSE device[p] + 1
           row == [Unused EXCEPT !.status = "live", !.purpose = "authentication",
                                 !.user = u, !.passkey = p, !.count = n]
<1>1. TypeOK /\ Domains /\ users \subseteq Handles /\ device \in [Passkeys -> Nat]
  BY DEF Typed, TypeOK
<1>2. n \in Nat /\ device' = [device EXCEPT ![p] = n] /\ device'[p] = n
  BY <1>1 DEF LoginOptions
<1>3. /\ challenge' = [challenge EXCEPT ![c] = row] /\ AtOnce
      /\ UNCHANGED <<tables, links, sessions, history>>
  BY <1>2 DEF LoginOptions
<1> HIDE DEF n
<1>4. row \in ChallengeRows /\ row.user = u /\ row.status = "live"
  BY <1>1, <1>2 DEF Unused, ChallengeRows
<1> HIDE DEF row
<1>5. \A d \in Challenges : Issued(d) => Issued(d)'
  BY <1>1, <1>3, <1>4 DEF Domains, Issued
<1>6. request' \in [Threads -> Requests] /\ \A s \in Threads : Names(s)'
  BY <1>3, <1>5, TypedAtOnce DEF tables
<1>7. Domains'
  BY <1>1, <1>3, <1>4, <1>6 DEF Domains, tables, history
<1>8. \A d \in Challenges : /\ challenge'[d].status \in {"unused", "live", "gone"}
                            /\ challenge'[d].status # "unused" => challenge'[d].user \in users
  BY <1>1, <1>3, <1>4 DEF Domains, TypeOK, ChallengeRows
<1>9. device' \in [Passkeys -> Nat]
  BY <1>1, <1>2
<1>10. TypeOK'
  BY <1>1, <1>3, <1>6, <1>8, <1>9 DEF TypeOK, tables, history, Requests, Ops, Revocable
<1> QED BY <1>6, <1>7, <1>10 DEF Typed

(* Links with a provider, and sign-in with an identity.                    *)
LEMMA TypedOAuth ==
  ASSUME Typed, NEW t \in Threads, CommitLink(t) \/ CommitLogin(t)
  PROVE  Typed'
<1> DEFINE r == request[t]
<1>1. TypeOK /\ Domains /\ r \in Requests /\ Names(t) /\ users \subseteq Handles
  BY DEF Typed, Domains, TypeOK
<1>2. CASE CommitLink(t) /\ (r.found = None /\ account[r.proof] # None)
  BY <1>2, TypedFail DEF CommitLink
<1>3. CASE CommitLink(t) /\ ~(r.found = None /\ account[r.proof] # None)
  <2>1. /\ r.op = "link" /\ account' = [account EXCEPT ![r.proof] = r.user]
        /\ held' = [held EXCEPT ![r.proof] = @ \cup {r.user}] /\ Commit(t)
        /\ UNCHANGED <<users, owner, count, agents, device, challenge, links,
                       sessions, enrolled, spent, asked, answers, broken>>
    BY <1>3 DEF CommitLink
  <2>2. r.user \in users /\ r.proof \in Identities
    BY <1>1, <2>1 DEF Names
  <2>3. request' \in [Threads -> Requests] /\ \A s \in Threads : Names(s)'
    BY <2>1, TypedCommit DEF Issued
  <2>4. held' \in [Identities -> SUBSET Handles]
    BY <1>1, <2>1, <2>2 DEF Domains
  <2>5. Domains'
    BY <1>1, <2>1, <2>3, <2>4 DEF Domains
  <2>6. TypeOK'
    BY <1>1, <2>1, <2>2, <2>3 DEF TypeOK, Requests, Ops
  <2> QED BY <2>3, <2>5, <2>6 DEF Typed
<1>4. CASE CommitLogin(t) /\ (r.found = None /\ LoginTaken(r))
  BY <1>4, TypedFail DEF CommitLogin
<1>5. CASE CommitLogin(t) /\ ~(r.found = None /\ LoginTaken(r))
  <2>1. /\ r.op = "login" /\ users' = users \cup {r.user}
        /\ account' = [account EXCEPT ![r.proof] = IF r.found = None THEN r.user ELSE @]
        /\ held' = IF r.found = None
                   THEN [held EXCEPT ![r.proof] = @ \cup {r.user}] ELSE held
        /\ sessions' = sessions \cup {[user |-> r.user, via |-> r.proof]}
        /\ Commit(t)
        /\ UNCHANGED <<owner, count, agents, device, challenge, links, enrolled,
                       spent, asked, answers, broken>>
    BY <1>5 DEF CommitLogin
  <2>2. r.user \in Handles /\ r.proof \in Identities
    BY <1>1, <2>1 DEF Names
  <2>3. request' \in [Threads -> Requests] /\ \A s \in Threads : Names(s)'
    BY <2>1, TypedCommit DEF Issued
  <2>4. held' \in [Identities -> SUBSET Handles]
    BY <1>1, <2>1, <2>2 DEF Domains
  <2>5. Domains'
    BY <1>1, <2>1, <2>3, <2>4 DEF Domains
  <2>6. account' \in [Identities -> users' \cup {None}]
    BY <1>1, <2>1, <2>2 DEF TypeOK
  <2>7. owner \in [Passkeys -> users' \cup {None}]
    BY <1>1, <2>1 DEF TypeOK
  <2>8. TypeOK'
    BY <1>1, <2>1, <2>2, <2>3, <2>6, <2>7 DEF TypeOK, Requests, Ops
  <2> QED BY <2>3, <2>5, <2>8 DEF Typed
<1> QED BY <1>2, <1>3, <1>4, <1>5

LEMMA TypedLinking ==
  ASSUME Typed, NEW u \in users, NEW pr, BeginLinking(u, pr)
  PROVE  Typed'
<1>1. /\ broken' \subseteq broken \cup {"link"}
      /\ UNCHANGED <<tables, device, challenge, sessions, request, enrolled, spent, held,
                     answers, raced>>
  BY DEF BeginLinking
<1>2. \A s \in Threads : Names(s)'
  BY <1>1 DEF Typed, Names, Issued, tables
<1>3. Domains'
  BY <1>1 DEF Typed, Domains, tables
<1>4. TypeOK'
  BY <1>1 DEF Typed, TypeOK, tables
<1> QED BY <1>2, <1>3, <1>4 DEF Typed

LEMMA TypedTokens ==
  ASSUME Typed,
         \/ \E u \in users, a \in Revocable : Create(u, a)
         \/ \E u \in users, a \in AgentTokens : RevokeAgentToken(u, a)
         \/ \E t \in Threads : CommitRevokeKey(t)
  PROVE  Typed'
<1>1. TypeOK /\ Domains /\ users \subseteq Handles
  BY DEF Typed, TypeOK
<1>2. ASSUME NEW u \in users, NEW a \in Revocable, Create(u, a)
      PROVE  Typed'
  <2>1. /\ agents' = [agents EXCEPT ![a] = [user |-> u, live |-> TRUE]] /\ AtOnce
        /\ UNCHANGED <<users, owner, count, account, device, challenge, links, sessions,
                       history>>
    BY <1>2 DEF Create
  <2>2. request' \in [Threads -> Requests] /\ \A s \in Threads : Names(s)'
    BY <2>1, TypedAtOnce DEF Issued
  <2>3. agents' \in [Revocable -> [user : Handles \cup {None}, live : BOOLEAN]]
    BY <1>1, <2>1 DEF Domains
  <2>4. \A b \in Revocable : agents'[b].user \in users \cup {None}
    BY <1>1, <2>1 DEF Domains, TypeOK
  <2>5. Domains'
    BY <1>1, <2>1, <2>2, <2>3 DEF Domains, history
  <2>6. TypeOK'
    BY <1>1, <2>1, <2>2, <2>4 DEF TypeOK, history, Requests, Ops
  <2> QED BY <2>2, <2>5, <2>6 DEF Typed
<1>3. ASSUME NEW a \in Revocable, Revoked(a), \A s \in Threads : Names(s)',
             request' \in [Threads -> Requests]
      PROVE  Typed'
  <2> DEFINE row == [agents[a] EXCEPT !.live = FALSE]
  <2>1. row.user = agents[a].user /\ row \in [user : Handles \cup {None}, live : BOOLEAN]
    BY <1>1 DEF Domains
  <2>2. agents' = [agents EXCEPT ![a] = row]
    BY <1>3 DEF Revoked
  <2> HIDE DEF row
  <2>3. answers' \in [Revocable -> Nat]
    BY <1>1, <1>3 DEF Revoked, Domains
  <2>4. agents' \in [Revocable -> [user : Handles \cup {None}, live : BOOLEAN]]
    BY <1>1, <2>1, <2>2 DEF Domains
  <2>5. \A b \in Revocable : agents'[b].user \in users \cup {None}
    BY <1>1, <2>1, <2>2 DEF Domains, TypeOK
  <2>6. Domains'
    BY <1>1, <1>3, <2>3, <2>4 DEF Domains, Revoked
  <2>7. TypeOK'
    BY <1>1, <1>3, <2>5 DEF TypeOK, Revoked, Requests, Ops
  <2> QED BY <1>3, <2>6, <2>7 DEF Typed
<1>4. ASSUME NEW u \in users, NEW a \in AgentTokens, RevokeAgentToken(u, a)
      PROVE  Typed'
  <2>1. AtOnce /\ Revoked(a) /\ a \in Revocable
    BY <1>4 DEF RevokeAgentToken, Revocable
  <2>2. UNCHANGED <<users, challenge>>
    BY <2>1 DEF Revoked
  <2>3. request' \in [Threads -> Requests] /\ \A s \in Threads : Names(s)'
    BY <2>1, <2>2, TypedAtOnce DEF Issued
  <2> QED BY <1>3, <2>1, <2>3
<1>5. ASSUME NEW t \in Threads, CommitRevokeKey(t)
      PROVE  Typed'
  <2> DEFINE k == request[t].proof
  <2>1. Commit(t) /\ Revoked(k) /\ k \in Revocable
    BY <1>5 DEF CommitRevokeKey, Typed, Names, Revocable
  <2>2. UNCHANGED <<users, challenge>>
    BY <2>1 DEF Revoked
  <2>3. request' \in [Threads -> Requests] /\ \A s \in Threads : Names(s)'
    BY <2>1, <2>2, TypedCommit DEF Issued
  <2> QED BY <1>3, <2>1, <2>3
<1> QED BY <1>2, <1>4, <1>5

LEMMA TypedExpire ==
  ASSUME Typed, Expire
  PROVE  Typed'
<1>1. /\ UNCHANGED <<tables, device, request, history, raced>>
      /\ sessions' \subseteq sessions
      /\ \/ UNCHANGED challenge
         \/ \E c \in Challenges : challenge[c].status = "live" /\ Deleted(c)
  BY DEF Expire
<1>2. /\ challenge' \in [Challenges -> ChallengeRows]
      /\ \A d \in Challenges : Issued(d)' <=> Issued(d)
      /\ \A d \in Challenges :
           /\ challenge'[d].status \in {"unused", "live", "gone"}
           /\ challenge'[d].status # "unused" => challenge'[d].user \in users
  <2>1. CASE UNCHANGED challenge
    BY <2>1 DEF Typed, TypeOK, Domains, Issued
  <2>2. ASSUME NEW c \in Challenges, challenge[c].status = "live", Deleted(c)
        PROVE  <1>2!:
    BY <2>2, DeletedIs DEF Issued
  <2> QED BY <1>1, <2>1, <2>2
<1>3. \A s \in Threads : Names(s)'
  BY <1>1, <1>2 DEF Typed, Names, tables
<1>4. Domains'
  BY <1>1, <1>2 DEF Typed, Domains, tables, history
<1>5. TypeOK'
  BY <1>1, <1>2 DEF Typed, TypeOK, tables, history
<1> QED BY <1>3, <1>4, <1>5 DEF Typed

(* The requests that only read so far, and the commits, for one thread.    *)
Begins(t) ==
  \/ \E u \in Handles, by \in users \cup {None} : BeginOptions(t, u, by)
  \/ \E u \in Handles, c \in Challenges, p \in Passkeys : BeginEnrol(t, u, c, p)
  \/ \E u \in Handles, c \in Challenges : BeginAssert(t, u, c)
  \/ \E i \in Identities : BeginLogin(t, i)
  \/ \E u \in users, i \in Identities : BeginLink(t, u, i)
  \/ \E u \in users, k \in SigningKeys : BeginRevokeKey(t, u, k)

Continues(t) ==
  CreateUser(t) \/ CheckOwner(t) \/ \E c \in Challenges : IssueRegistration(t, c)

LEMMA NextIs ==
  ASSUME Next
  PROVE  \/ \E t \in Threads : \/ Begins(t) \/ Continues(t)
                               \/ CommitEnrol(t) \/ CommitAssert(t)
                               \/ CommitLink(t) \/ CommitLogin(t) \/ CommitRevokeKey(t)
         \/ \E u \in users, c \in Challenges, p \in Passkeys : LoginOptions(u, c, p)
         \/ \E u \in users : \E pr \in {Provider[i] : i \in Identities} : BeginLinking(u, pr)
         \/ \E u \in users, a \in Revocable : Create(u, a)
         \/ \E u \in users, a \in AgentTokens : RevokeAgentToken(u, a)
         \/ Expire
<1>1. ASSUME NEW t \in Threads, Passkey(t) \/ OAuth(t)
      PROVE  \/ Begins(t) \/ Continues(t) \/ CommitEnrol(t) \/ CommitAssert(t)
             \/ CommitLink(t) \/ CommitLogin(t)
  BY <1>1 DEF Passkey, OAuth, Begins, Continues
<1> QED BY <1>1 DEF Next, Begins

LEMMA TypedNext == Typed /\ [Next]_vars => Typed'
<1> SUFFICES ASSUME Typed, [Next]_vars PROVE Typed'
  OBVIOUS
<1>1. CASE UNCHANGED vars
  <2>1. Domains'
    BY <1>1 DEF Typed, Domains, vars, tables, history
  <2>2. TypeOK'
    BY <1>1 DEF Typed, TypeOK, vars, tables, history
  <2>3. \A t \in Threads : Names(t)'
    BY <1>1 DEF Typed, Names, Issued, vars, tables
  <2> QED BY <2>1, <2>2, <2>3 DEF Typed
<1>2. CASE Next
  BY <1>2, NextIs, TypedBegin, TypedOptions, TypedPasskey, TypedLogin, TypedOAuth,
     TypedLinking, TypedTokens, TypedExpire DEF Begins, Continues
<1> QED BY <1>1, <1>2

(* Every row, request and counter has its type, what a request in flight   *)
(* names exists, and a bound identity belongs to a user.                   *)
THEOREM TypeInvariant == Spec => []Typed
<1> QED BY TypedInit, TypedNext, PTL DEF Spec

(* Type correctness, with the references between rows.                     *)
THEOREM TypeCorrect == Spec => []TypeOK
<1>1. Typed => TypeOK
  BY DEF Typed
<1> QED BY <1>1, TypeInvariant, PTL

-----------------------------------------------------------------------------
(* Steps in summary                                                        *)

(* What no step takes back.                                                *)
Grows ==
  /\ users \subseteq users' /\ raced \subseteq raced' /\ asked \subseteq asked'
  /\ \A i \in Identities : held[i] \subseteq held'[i]
  /\ \A p \in Passkeys : owner[p] # None => owner'[p] = owner[p] /\ enrolled'[p] = enrolled[p]
  /\ \A c \in Challenges :
       Issued(c) => /\ Issued(c)' /\ challenge'[c].purpose = challenge[c].purpose
                    /\ challenge'[c].user = challenge[c].user
                    /\ challenge'[c].ground = challenge[c].ground
  /\ \A a \in Revocable : agents[a].user # None => agents'[a].user = agents[a].user

(* No row that a request has read is written.                              *)
Quiet ==
  /\ UNCHANGED <<owner, account, agents, enrolled, spent, held, answers>>
  /\ sessions' \subseteq sessions
  /\ \/ UNCHANGED challenge
     \/ \E c \in Challenges : challenge[c].status = "live" /\ Deleted(c)

(* The steps that write such a row, when they do not fail.                 *)
Enrolls(t) == CommitEnrol(t) /\ owner[request[t].proof] = None
Links(t)   == CommitLink(t) /\ ~(request[t].found = None /\ account[request[t].proof] # None)
LogsIn(t)  == CommitLogin(t) /\ ~(request[t].found = None /\ LoginTaken(request[t]))
Writes ==
  \/ \E t \in Threads : \/ Enrolls(t) \/ CommitAssert(t) \/ Links(t) \/ LogsIn(t)
                        \/ CommitRevokeKey(t)
                        \/ \E c \in Challenges : IssueRegistration(t, c)
  \/ \E u \in users, c \in Challenges, p \in Passkeys : LoginOptions(u, c, p)
  \/ \E u \in users, a \in Revocable : Create(u, a)
  \/ \E u \in users, a \in AgentTokens : RevokeAgentToken(u, a)

LEMMA BeginsIs ==
  ASSUME Typed, NEW t \in Threads, Begins(t)
  PROVE  /\ UNCHANGED <<tables, device, challenge, links, sessions, history, raced>>
         /\ \A s \in Threads \ {t} : Same(s)
BY DEF Begins, BeginOptions, BeginEnrol, BeginAssert, BeginLogin, BeginLink, BeginRevokeKey,
       Begin, Typed, Domains, Same

LEMMA QuietOrWrites ==
  ASSUME Typed, [Next]_vars
  PROVE  Quiet \/ Writes
<1>1. CASE UNCHANGED vars
  BY <1>1 DEF vars, tables, history, Quiet
<1>2. ASSUME NEW t \in Threads, Fail(t)
      PROVE  Quiet
  BY <1>2 DEF Fail, Quiet, tables, history
<1>3. ASSUME NEW t \in Threads, Begins(t)
      PROVE  Quiet
  BY <1>3, BeginsIs DEF Quiet, tables, history
<1>4. ASSUME NEW t \in Threads, Continues(t)
      PROVE  Quiet \/ \E c \in Challenges : IssueRegistration(t, c)
  <2>1. CASE CreateUser(t)
    BY <1>2, <2>1 DEF CreateUser, Quiet, history
  <2>2. CASE CheckOwner(t)
    BY <1>2, <2>2 DEF CheckOwner, Quiet, tables, history
  <2> QED BY <1>4, <2>1, <2>2 DEF Continues
<1>5. ASSUME NEW t \in Threads, CommitEnrol(t) \/ CommitLink(t) \/ CommitLogin(t)
      PROVE  Quiet \/ Enrolls(t) \/ Links(t) \/ LogsIn(t)
  <2>1. CASE CommitEnrol(t)
    BY <1>2, <2>1 DEF CommitEnrol, Enrolls
  <2>2. CASE CommitLink(t)
    BY <1>2, <2>2 DEF CommitLink, Links
  <2>3. CASE CommitLogin(t)
    BY <1>2, <2>3 DEF CommitLogin, LogsIn
  <2> QED BY <1>5, <2>1, <2>2, <2>3
<1>6. ASSUME NEW u \in users, NEW pr, BeginLinking(u, pr)
      PROVE  Quiet
  BY <1>6 DEF BeginLinking, Quiet, tables
<1>7. CASE Expire
  BY <1>7 DEF Expire, Quiet, tables, history
<1> QED BY <1>1, <1>3, <1>4, <1>5, <1>6, <1>7, NextIs DEF Writes

(* What the writing steps do, row by row.                                  *)
LEMMA EnrollsIs ==
  ASSUME Typed, NEW t \in Threads, Enrolls(t)
  PROVE  LET r == request[t]
         IN  /\ r.op = "enrol" /\ r.user \in users /\ r.proof \in Passkeys
             /\ r.challenge \in Challenges /\ Issued(r.challenge)
             /\ owner[r.proof] = None
             /\ owner' = [owner EXCEPT ![r.proof] = r.user]
             /\ enrolled' = [enrolled EXCEPT ![r.proof] = r.challenge]
             /\ spent' = [spent EXCEPT ![r.challenge] = @ + 1]
             /\ Deleted(r.challenge) /\ Commit(t)
             /\ UNCHANGED <<users, account, agents, links, sessions, held, asked, answers>>
BY DEF Enrolls, CommitEnrol, Typed, Names

LEMMA AssertsIs ==
  ASSUME Typed, NEW t \in Threads, CommitAssert(t)
  PROVE  LET r == request[t]
         IN  /\ r.op = "assert" /\ r.user \in users /\ r.proof \in Passkeys
             /\ r.challenge \in Challenges /\ Issued(r.challenge)
             /\ sessions' = sessions \cup {[user |-> r.user, via |-> r.proof]}
             /\ spent' = [spent EXCEPT ![r.challenge] = @ + 1]
             /\ Deleted(r.challenge) /\ Commit(t)
             /\ UNCHANGED <<users, owner, account, agents, links, enrolled, held, asked,
                            answers>>
BY DEF CommitAssert, Typed, Names

LEMMA LinksIs ==
  ASSUME Typed, NEW t \in Threads, Links(t)
  PROVE  LET r == request[t]
         IN  /\ r.op = "link" /\ r.user \in users /\ r.proof \in Identities
             /\ account' = [account EXCEPT ![r.proof] = r.user]
             /\ held' = [held EXCEPT ![r.proof] = @ \cup {r.user}]
             /\ Commit(t)
             /\ UNCHANGED <<users, owner, agents, challenge, links, sessions, enrolled,
                            spent, asked, answers>>
BY DEF Links, CommitLink, Typed, Names

LEMMA LogsInIs ==
  ASSUME Typed, NEW t \in Threads, LogsIn(t)
  PROVE  LET r == request[t]
         IN  /\ r.op = "login" /\ r.user \in Handles /\ r.proof \in Identities
             /\ users' = users \cup {r.user}
             /\ sessions' = sessions \cup {[user |-> r.user, via |-> r.proof]}
             /\ \/ /\ r.found = None /\ r.user \notin users /\ account[r.proof] = None
                   /\ account' = [account EXCEPT ![r.proof] = r.user]
                   /\ held' = [held EXCEPT ![r.proof] = @ \cup {r.user}]
                \/ /\ r.found # None /\ r.user = r.found
                   /\ UNCHANGED <<account, held>>
             /\ Commit(t)
             /\ UNCHANGED <<owner, agents, challenge, links, enrolled, spent, asked, answers>>
<1> DEFINE r == request[t]
<1>1. /\ r.op = "login" /\ r.user \in Handles /\ r.proof \in Identities
      /\ r.found # None => r.user = r.found
  BY DEF LogsIn, CommitLogin, Typed, Names
<1>2. CASE r.found = None
  BY <1>1, <1>2 DEF LogsIn, CommitLogin, LoginTaken
<1>3. CASE r.found # None
  BY <1>1, <1>3 DEF LogsIn, CommitLogin, Typed, TypeOK
<1> QED BY <1>2, <1>3

LEMMA RevokesIs ==
  ASSUME Typed,
         \/ \E t \in Threads : CommitRevokeKey(t)
         \/ \E u \in users, a \in AgentTokens : RevokeAgentToken(u, a)
  PROVE  \E a \in Revocable :
           /\ \/ \E t \in Threads : Commit(t) /\ request[t].op = "revoke" /\ request[t].proof = a
              \/ agents[a].live /\ agents[a].user \in users /\ AtOnce
           /\ answers' = [answers EXCEPT ![a] = @ + 1]
           /\ \A b \in Revocable : /\ agents'[b].user = agents[b].user
                                   /\ agents'[b].live = (b # a /\ agents[b].live)
           /\ UNCHANGED <<users, owner, account, challenge, links, sessions, enrolled,
                          spent, held, asked>>
<1>1. ASSUME NEW a \in Revocable, Revoked(a)
      PROVE  /\ answers' = [answers EXCEPT ![a] = @ + 1]
             /\ \A b \in Revocable : /\ agents'[b].user = agents[b].user
                                     /\ agents'[b].live = (b # a /\ agents[b].live)
             /\ UNCHANGED <<users, owner, account, challenge, links, sessions, enrolled,
                            spent, held, asked>>
  <2> DEFINE row == [agents[a] EXCEPT !.live = FALSE]
  <2>1. row.user = agents[a].user /\ row.live = FALSE
    BY DEF Typed, Domains
  <2>2. agents' = [agents EXCEPT ![a] = row]
    BY <1>1 DEF Revoked
  <2> HIDE DEF row
  <2>3. \A b \in Revocable : agents[b].live \in BOOLEAN
    BY DEF Typed, Domains
  <2>4. \A b \in Revocable : /\ agents'[b].user = agents[b].user
                             /\ agents'[b].live = (b # a /\ agents[b].live)
    BY <2>1, <2>2, <2>3 DEF Typed, Domains
  <2> QED BY <1>1, <2>4 DEF Revoked
<1>2. ASSUME NEW t \in Threads, CommitRevokeKey(t)
      PROVE  /\ request[t].proof \in Revocable /\ request[t].op = "revoke"
             /\ Commit(t) /\ Revoked(request[t].proof)
  BY <1>2 DEF CommitRevokeKey, Typed, Names, Revocable
<1>3. ASSUME NEW u \in users, NEW a \in AgentTokens, RevokeAgentToken(u, a)
      PROVE  /\ a \in Revocable /\ agents[a].live /\ agents[a].user \in users
             /\ AtOnce /\ Revoked(a)
  BY <1>3 DEF RevokeAgentToken, RevocableBy, Revocable
<1> QED BY <1>1, <1>2, <1>3

LEMMA CreatesIs ==
  ASSUME Typed, NEW u \in users, NEW a \in Revocable, Create(u, a)
  PROVE  /\ agents[a].user = None /\ agents'[a].user = u /\ AtOnce
         /\ \A b \in Revocable \ {a} : agents'[b] = agents[b]
         /\ UNCHANGED <<users, owner, account, challenge, links, sessions, history>>
BY DEF Create, Typed, Domains

LEMMA IssuesIs ==
  ASSUME Typed,
         \/ \E t \in Threads, c \in Challenges : IssueRegistration(t, c)
         \/ \E u \in users, c \in Challenges, p \in Passkeys : LoginOptions(u, c, p)
  PROVE  \E c \in Challenges :
           /\ challenge[c].status = "unused" /\ challenge'[c].status = "live"
           /\ \A d \in Challenges : Issued(d) => d # c
           /\ \A d \in Challenges \ {c} : challenge'[d] = challenge[d]
           /\ \/ challenge'[c].purpose = "authentication" /\ AtOnce
              \/ \E t \in Threads :
                   /\ request[t].op = "issue" /\ Commit(t)
                   /\ challenge'[c].ground = (request[t].found = request[t].user)
           /\ UNCHANGED <<tables, links, sessions, history>>
<1>1. ASSUME NEW t \in Threads, NEW c \in Challenges, IssueRegistration(t, c)
      PROVE  /\ challenge[c].status = "unused" /\ challenge'[c].status = "live"
             /\ \A d \in Challenges : Issued(d) => d # c
             /\ \A d \in Challenges \ {c} : challenge'[d] = challenge[d]
             /\ request[t].op = "issue" /\ Commit(t)
             /\ challenge'[c].ground = (request[t].found = request[t].user)
             /\ UNCHANGED <<tables, links, sessions, history>>
  <2> DEFINE r   == request[t]
             row == [Unused EXCEPT !.status = "live", !.purpose = "registration",
                                   !.user = r.user, !.ground = r.found = r.user]
  <2>1. row.status = "live" /\ row.ground = (r.found = r.user)
    BY DEF Unused
  <2>2. challenge' = [challenge EXCEPT ![c] = row] /\ challenge[c].status = "unused"
    BY <1>1 DEF IssueRegistration
  <2> HIDE DEF row
  <2>3. /\ challenge'[c] = row
        /\ \A d \in Challenges \ {c} : challenge'[d] = challenge[d]
    BY <2>2 DEF Typed, Domains
  <2> QED BY <1>1, <2>1, <2>2, <2>3 DEF IssueRegistration, Issued
<1>2. ASSUME NEW u \in users, NEW c \in Challenges, NEW p \in Passkeys, LoginOptions(u, c, p)
      PROVE  /\ challenge[c].status = "unused" /\ challenge'[c].status = "live"
             /\ \A d \in Challenges : Issued(d) => d # c
             /\ \A d \in Challenges \ {c} : challenge'[d] = challenge[d]
             /\ challenge'[c].purpose = "authentication" /\ AtOnce
             /\ UNCHANGED <<tables, links, sessions, history>>
  <2> DEFINE n == device'[p]
  <2> HIDE DEF n
  <2> DEFINE row == [Unused EXCEPT !.status = "live", !.purpose = "authentication",
                                   !.user = u, !.passkey = p, !.count = n]
  <2>1. row.status = "live" /\ row.purpose = "authentication"
    BY DEF Unused
  <2>2. challenge' = [challenge EXCEPT ![c] = row] /\ challenge[c].status = "unused"
    BY <1>2 DEF LoginOptions, n
  <2> HIDE DEF row
  <2>3. /\ challenge'[c] = row
        /\ \A d \in Challenges \ {c} : challenge'[d] = challenge[d]
    BY <2>2 DEF Typed, Domains
  <2> QED BY <1>2, <2>1, <2>2, <2>3 DEF LoginOptions, Issued
<1> QED BY <1>1, <1>2

LEMMA DeletedKeeps ==
  ASSUME Typed, NEW c \in Challenges, Issued(c), Deleted(c)
  PROVE  \A d \in Challenges :
           Issued(d) => /\ Issued(d)' /\ challenge'[d].purpose = challenge[d].purpose
                        /\ challenge'[d].user = challenge[d].user
                        /\ challenge'[d].ground = challenge[d].ground
BY DeletedIs

LEMMA StepGrows ==
  ASSUME Typed, [Next]_vars
  PROVE  Grows
<1>1. CASE UNCHANGED vars
  BY <1>1 DEF vars, tables, history, Grows, Issued
<1>2. ASSUME NEW t \in Threads, Fail(t)
      PROVE  Grows
  BY <1>2 DEF Fail, Grows, tables, history, Issued
<1>3. ASSUME NEW t \in Threads, Commit(t)
      PROVE  raced \subseteq raced'
  BY <1>3 DEF Commit
<1>4. ASSUME NEW t \in Threads, Begins(t)
      PROVE  Grows
  BY <1>4, BeginsIs DEF Grows, tables, history, Issued
<1>5. ASSUME NEW t \in Threads, CreateUser(t) \/ CheckOwner(t)
      PROVE  Grows
  <2>1. CASE CreateUser(t)
    BY <1>2, <2>1 DEF CreateUser, Grows, history, Issued
  <2>2. CASE CheckOwner(t)
    BY <1>2, <2>2 DEF CheckOwner, Grows, tables, history, Issued
  <2> QED BY <1>5, <2>1, <2>2
<1>6. ASSUME NEW t \in Threads, Enrolls(t)
      PROVE  Grows
  <2> DEFINE r == request[t]
  <2>1. /\ r.proof \in Passkeys /\ owner[r.proof] = None
        /\ r.challenge \in Challenges /\ Issued(r.challenge) /\ Deleted(r.challenge)
        /\ owner' = [owner EXCEPT ![r.proof] = r.user]
        /\ enrolled' = [enrolled EXCEPT ![r.proof] = r.challenge] /\ Commit(t)
        /\ UNCHANGED <<users, account, agents, links, sessions, held, asked, answers>>
    BY <1>6, EnrollsIs
  <2>2. \A p \in Passkeys : owner[p] # None => owner'[p] = owner[p] /\ enrolled'[p] = enrolled[p]
    BY <2>1 DEF Typed, TypeOK, Domains
  <2> QED BY <1>3, <2>1, <2>2, DeletedKeeps DEF Grows
<1>7. ASSUME NEW t \in Threads, CommitAssert(t)
      PROVE  Grows
  BY <1>3, <1>7, AssertsIs, DeletedKeeps DEF Grows
<1>8. ASSUME NEW t \in Threads, Links(t)
      PROVE  Grows
  BY <1>3, <1>8, LinksIs DEF Grows, Issued, Typed, Domains
<1>9. ASSUME NEW t \in Threads, LogsIn(t)
      PROVE  Grows
  BY <1>3, <1>9, LogsInIs DEF Grows, Issued, Typed, Domains
<1>10. ASSUME \/ \E t \in Threads : CommitRevokeKey(t)
              \/ \E u \in users, a \in AgentTokens : RevokeAgentToken(u, a)
       PROVE  Grows
  BY <1>3, <1>10, RevokesIs DEF Grows, Issued, AtOnce
<1>11. ASSUME NEW u \in users, NEW a \in Revocable, Create(u, a)
       PROVE  Grows
  BY <1>11, CreatesIs DEF Grows, Issued, AtOnce, history
<1>12. ASSUME \/ \E t \in Threads, c \in Challenges : IssueRegistration(t, c)
              \/ \E u \in users, c \in Challenges, p \in Passkeys : LoginOptions(u, c, p)
       PROVE  Grows
  <2>1. PICK c \in Challenges :
           /\ challenge'[c].status = "live"
           /\ \A d \in Challenges : Issued(d) => d # c
           /\ \A d \in Challenges \ {c} : challenge'[d] = challenge[d]
           /\ AtOnce \/ \E t \in Threads : Commit(t)
           /\ UNCHANGED <<tables, links, sessions, history>>
    BY <1>12, IssuesIs
  <2> QED BY <1>3, <2>1 DEF Grows, Issued, AtOnce, tables, history
<1>13. ASSUME NEW u \in users, NEW pr, BeginLinking(u, pr)
       PROVE  Grows
  BY <1>13 DEF BeginLinking, Grows, tables, Issued
<1>14. CASE Expire
  <2>1. /\ UNCHANGED <<tables, device, request, history, raced>>
        /\ \/ UNCHANGED challenge
           \/ \E c \in Challenges : Issued(c) /\ Deleted(c)
    BY <1>14 DEF Expire, Issued
  <2> QED BY <2>1, DeletedKeeps DEF Grows, tables, history, Issued
<1>15. ASSUME NEW t \in Threads, CommitEnrol(t) \/ CommitLink(t) \/ CommitLogin(t)
       PROVE  Grows
  <2>1. CASE CommitEnrol(t)
    BY <1>2, <1>6, <2>1 DEF CommitEnrol, Enrolls
  <2>2. CASE CommitLink(t)
    BY <1>2, <1>8, <2>2 DEF CommitLink, Links
  <2>3. CASE CommitLogin(t)
    BY <1>2, <1>9, <2>3 DEF CommitLogin, LogsIn
  <2> QED BY <1>15, <2>1, <2>2, <2>3
<1> QED BY <1>1, <1>4, <1>5, <1>7, <1>10, <1>11, <1>12, <1>13, <1>14, <1>15, NextIs
        DEF Continues

(* What a step is to the request of one thread: it ends there or is idle,  *)
(* it is overtaken, it stays and the rows it has read are unchanged, it    *)
(* begins, or it goes on towards its challenge.                            *)
Rests(s)   == request'[s].op = "idle"
Stays(s)   == Same(s) /\ UNCHANGED <<owner, account, agents, spent, answers>>
Created(s) == request'[s].op = "check"
Checked(s) == request'[s].op = "issue" /\ request'[s].found = request'[s].user

LEMMA Moves ==
  ASSUME Typed, [Next]_vars, NEW s \in Threads
  PROVE  \/ Rests(s) \/ Overtook(s) \/ Stays(s) \/ Begins(s) \/ Created(s) \/ Checked(s)
<1> DEFINE Done == Rests(s) \/ Overtook(s) \/ Stays(s) \/ Begins(s) \/ Created(s) \/ Checked(s)
<1> SUFFICES Done
  OBVIOUS
<1>1. CASE UNCHANGED vars
  BY <1>1 DEF vars, tables, history, Stays, Same
<1>2. ASSUME NEW t \in Threads, Fail(t)
      PROVE  Done
  BY <1>2, FailMoves, IdleIsRequest DEF tables, history, Stays, Typed, Answered, Rests
<1>3. ASSUME NEW t \in Threads, Commit(t)
      PROVE  Done
  BY <1>3, CommitMoves, IdleIsRequest DEF Typed, Answered, Rests, Same
<1>4. CASE AtOnce
  BY <1>4, AtOnceMoves DEF Typed, Rests, Same
<1>5. ASSUME NEW t \in Threads, Begins(t)
      PROVE  Done
  BY <1>5, BeginsIs DEF tables, history, Stays
<1>6. ASSUME NEW t \in Threads, CreateUser(t)
      PROVE  Done
  <2> DEFINE r    == request[t]
             over == Overtaken(Threads \ {t})
             next == [over[t] EXCEPT !.op = "check"]
  <2>1. CASE r.user \in users
    BY <1>2, <1>6, <2>1 DEF CreateUser
  <2>2. CASE r.user \notin users
    <3>1. request' = [over EXCEPT ![t].op = "check"]
      BY <1>6, <2>2 DEF CreateUser
    <3>2. over \in [Threads -> Requests]
      BY OvertakenIsFunction DEF Typed
    <3>3. s # t => request'[s] = over[s]
      BY <3>1, <3>2
    <3>4. s # t => Overtook(s) \/ (Same(s) /\ request[s].op = "idle")
      BY <3>3, OvertakenIs DEF Typed, Overtook, Same
    <3> HIDE DEF over
    <3>5. next.op = "check"
      BY <3>2 DEF Requests
    <3>6. request'[t] = next
      BY <3>1, <3>2
    <3> QED BY <3>4, <3>5, <3>6 DEF Created, Rests, Same
  <2> QED BY <2>1, <2>2
<1>7. ASSUME NEW t \in Threads, CheckOwner(t)
      PROVE  Done
  <2> DEFINE r     == request[t]
             found == IF r.by = r.user \/ Open(r.user) THEN r.user ELSE None
  <2>1. CASE ~MayEnrol(r.user, r.by)
    BY <1>2, <1>7, <2>1 DEF CheckOwner
  <2>2. CASE MayEnrol(r.user, r.by)
    <3>1. found = r.user
      BY <2>2 DEF MayEnrol
    <3>2. /\ request' = [request EXCEPT ![t].op = "issue", ![t].found = found]
          /\ UNCHANGED <<tables, history>>
      BY <1>7, <2>2 DEF CheckOwner
    <3> HIDE DEF found
    <3> DEFINE q == [r EXCEPT !.op = "issue", !.found = found]
    <3>3. request'[t] = q /\ (s # t => Same(s))
      BY <3>2 DEF Typed, Domains, Same
    <3>4. q.op = "issue" /\ q.found = found /\ q.user = r.user
      BY DEF Typed, Domains, Requests
    <3> QED BY <3>1, <3>2, <3>3, <3>4 DEF Checked, Stays, tables, history
  <2> QED BY <2>1, <2>2
<1>8. ASSUME NEW t \in Threads, CommitEnrol(t) \/ CommitLink(t) \/ CommitLogin(t)
      PROVE  Done
  BY <1>2, <1>3, <1>8 DEF CommitEnrol, CommitLink, CommitLogin
<1>9. ASSUME NEW t \in Threads,
             \/ CommitAssert(t) \/ CommitRevokeKey(t)
             \/ \E c \in Challenges : IssueRegistration(t, c)
      PROVE  Done
  BY <1>3, <1>9 DEF CommitAssert, CommitRevokeKey, IssueRegistration
<1>10. ASSUME NEW u \in users, NEW pr, BeginLinking(u, pr)
       PROVE  Done
  BY <1>10 DEF BeginLinking, Stays, Same, tables
<1>11. CASE Expire
  BY <1>11 DEF Expire, Stays, Same, tables, history
<1>12. ASSUME \/ \E u \in users, c \in Challenges, p \in Passkeys : LoginOptions(u, c, p)
              \/ \E u \in users, a \in Revocable : Create(u, a)
              \/ \E u \in users, a \in AgentTokens : RevokeAgentToken(u, a)
       PROVE  Done
  BY <1>4, <1>12 DEF LoginOptions, Create, RevokeAgentToken
<1> HIDE DEF Done
<1> QED BY <1>1, <1>5, <1>6, <1>7, <1>8, <1>9, <1>10, <1>11, <1>12, NextIs DEF Continues

(* What a request that begins has read.                                    *)
LEMMA BeginsWith ==
  ASSUME Typed, NEW s \in Threads, Begins(s)
  PROVE  LET r == request'[s]
         IN  /\ r \in Requests /\ ~r.stale /\ r.op # "idle"
             /\ r.op # "issue"
             /\ r.op = "enrol" => Answers(r.challenge, "registration", r.user)
             /\ r.op = "assert" => /\ challenge[r.challenge].status = "live"
                                   /\ owner[r.proof] = r.user
             /\ r.op = "link" => /\ <<r.user, Provider[r.proof]>> \in links
                                 /\ ~HasAnother(r.user, r.proof)
                                 /\ r.found = account[r.proof]
                                 /\ r.found \notin {None, r.user} => BareBut(r.found, r.proof)
             /\ r.op = "login" => r.found = account[r.proof]
             /\ r.op = "revoke" => agents[r.proof].live
<1>1. TypeOK /\ Domains /\ users \subseteq Handles
  BY DEF Typed, TypeOK
<1>2. ASSUME NEW u \in Handles, NEW by \in users \cup {None}, BeginOptions(s, u, by)
      PROVE  LET r == request'[s] IN r \in Requests /\ ~r.stale /\ r.op \in {"check", "create"}
  <2> DEFINE r == [Idle EXCEPT !.op = IF u \in users THEN "check" ELSE "create",
                               !.user = u, !.by = by]
  <2>1. r \in Requests /\ ~r.stale /\ r.op \in {"check", "create"}
    BY <1>1 DEF Idle, Requests, Ops
  <2>2. Begin(s, r)
    BY <1>2 DEF BeginOptions
  <2> HIDE DEF r
  <2> QED BY <1>1, <2>1, <2>2, BeginMoves
<1>3. ASSUME NEW u \in Handles, NEW c \in Challenges, NEW p \in Passkeys,
             BeginEnrol(s, u, c, p)
      PROVE  LET r == request'[s] IN r \in Requests /\ ~r.stale /\ r.op = "enrol"
                                     /\ Answers(r.challenge, "registration", r.user)
  <2> DEFINE r == [Idle EXCEPT !.op = "enrol", !.user = u, !.proof = p, !.challenge = c]
  <2>1. r \in Requests /\ ~r.stale /\ r.op = "enrol" /\ r.user = u /\ r.challenge = c
    BY <1>1 DEF Idle, Requests, Ops
  <2>2. Begin(s, r) /\ Answers(c, "registration", u)
    BY <1>3 DEF BeginEnrol
  <2> HIDE DEF r
  <2> QED BY <1>1, <2>1, <2>2, BeginMoves
<1>4. ASSUME NEW u \in Handles, NEW c \in Challenges, BeginAssert(s, u, c)
      PROVE  LET r == request'[s] IN r \in Requests /\ ~r.stale /\ r.op = "assert"
                                     /\ challenge[r.challenge].status = "live"
                                     /\ owner[r.proof] = r.user
  <2> DEFINE p == challenge[c].passkey
             r == [Idle EXCEPT !.op = "assert", !.user = u, !.proof = p, !.challenge = c]
  <2>1. p \in Passkeys /\ owner[p] = u /\ challenge[c].status = "live" /\ Begin(s, r)
    BY <1>4 DEF BeginAssert, PasskeysOf, Answers
  <2> HIDE DEF p
  <2>2. /\ r \in Requests /\ ~r.stale /\ r.op = "assert" /\ r.user = u
        /\ r.challenge = c /\ r.proof = p
    BY <1>1, <2>1 DEF Idle, Requests, Ops
  <2> HIDE DEF r
  <2> QED BY <1>1, <2>1, <2>2, BeginMoves
<1>5. ASSUME NEW i \in Identities, BeginLogin(s, i)
      PROVE  LET r == request'[s] IN r \in Requests /\ ~r.stale /\ r.op = "login"
                                     /\ r.found = account[r.proof]
  <2> DEFINE u == IF account[i] # None THEN account[i] ELSE HandleFor(i)
  <2>1. account[i] \in users \cup {None} /\ u \in Handles
    BY <1>1, HandlesAreTried DEF TypeOK
  <2>2. Begin(s, [Idle EXCEPT !.op = "login", !.proof = i, !.found = account[i], !.user = u])
    BY <1>5 DEF BeginLogin
  <2> HIDE DEF u
  <2> DEFINE r == [Idle EXCEPT !.op = "login", !.proof = i, !.found = account[i], !.user = u]
  <2>3. r \in Requests /\ ~r.stale /\ r.op = "login" /\ r.proof = i /\ r.found = account[i]
    BY <1>1, <2>1 DEF Idle, Requests, Ops
  <2> HIDE DEF r
  <2>4. Begin(s, r)
    BY <2>2 DEF r
  <2> QED BY <1>1, <2>3, <2>4, BeginMoves
<1>6. ASSUME NEW u \in users, NEW i \in Identities, BeginLink(s, u, i)
      PROVE  LET r == request'[s] IN r \in Requests /\ ~r.stale /\ r.op = "link"
                                     /\ <<r.user, Provider[r.proof]>> \in links
                                     /\ ~HasAnother(r.user, r.proof)
                                     /\ r.found = account[r.proof]
                                     /\ (r.found \notin {None, r.user}
                                           => BareBut(r.found, r.proof))
  <2> DEFINE r == [Idle EXCEPT !.op = "link", !.user = u, !.proof = i, !.found = account[i]]
  <2>1. account[i] \in users \cup {None}
    BY <1>1 DEF TypeOK
  <2>2. /\ r \in Requests /\ ~r.stale /\ r.op = "link" /\ r.user = u /\ r.proof = i
        /\ r.found = account[i]
    BY <1>1, <2>1 DEF Idle, Requests, Ops
  <2>3. /\ Begin(s, r) /\ <<u, Provider[i]>> \in links /\ ~HasAnother(u, i)
        /\ account[i] \notin {None, u} => BareBut(account[i], i)
    BY <1>6 DEF BeginLink
  <2> HIDE DEF r
  <2> QED BY <1>1, <2>2, <2>3, BeginMoves
<1>7. ASSUME NEW u \in users, NEW k \in SigningKeys, BeginRevokeKey(s, u, k)
      PROVE  LET r == request'[s] IN r \in Requests /\ ~r.stale /\ r.op = "revoke"
                                     /\ agents[r.proof].live
  <2> DEFINE r == [Idle EXCEPT !.op = "revoke", !.user = u, !.proof = k]
  <2>1. r \in Requests /\ ~r.stale /\ r.op = "revoke" /\ r.proof = k
    BY <1>1 DEF Idle, Requests, Ops
  <2>2. Begin(s, r) /\ agents[k].live
    BY <1>7 DEF BeginRevokeKey, RevocableBy
  <2> HIDE DEF r
  <2> QED BY <1>1, <2>1, <2>2, BeginMoves
<1> QED BY <1>2, <1>3, <1>4, <1>5, <1>6, <1>7 DEF Begins

-----------------------------------------------------------------------------
(* Sessions.  While a login is in flight its identity may be moved, and    *)
(* what the session rests on is that it was bound when the login began.    *)
Proven(t) ==
  LET r == request[t]
  IN  /\ r.op = "assert" => owner[r.proof] = r.user
      /\ r.op = "login" /\ r.found # None => r.user \in held[r.proof]

SessionsInv ==
  /\ SessionsAreBacked
  /\ \A i \in Identities : account[i] # None => account[i] \in held[i]
  /\ \A t \in Threads : Proven(t)

LEMMA SessionsInit == Init => SessionsInv
<1> SUFFICES ASSUME Init PROVE SessionsInv
  OBVIOUS
<1>1. \A t \in Threads : request[t].op = "idle"
  BY IdleIsRequest DEF Init
<1> QED BY <1>1 DEF Init, SessionsInv, SessionsAreBacked, Proven

LEMMA SessionsNext ==
  ASSUME Typed, SessionsInv, [Next]_vars
  PROVE  SessionsInv'
<1>1. Grows /\ TypeOK /\ Typed'
  BY StepGrows, TypedNext DEF Typed
<1>2. \A t \in Threads : Proven(t)'
  <2> SUFFICES ASSUME NEW t \in Threads PROVE Proven(t)'
    OBVIOUS
  <2>1. Names(t) /\ Names(t)' /\ None \notin users /\ Proven(t)
    BY <1>1, NoneIsNobody DEF Typed, SessionsInv
  <2>2. CASE Rests(t) \/ Created(t) \/ Checked(t)
    BY <2>2 DEF Rests, Created, Checked, Proven
  <2>3. CASE Same(t)
    BY <1>1, <2>1, <2>3 DEF Same, Proven, Names, Grows
  <2>4. CASE Overtook(t)
    BY <1>1, <2>1, <2>4 DEF Overtook, Proven, Names, Grows
  <2>5. CASE Begins(t)
    BY <1>1, <2>1, <2>5, BeginsIs, BeginsWith DEF tables, history, Proven, Names, SessionsInv
  <2> QED BY <2>2, <2>3, <2>4, <2>5, Moves DEF Stays
<1>3. \A i \in Identities : account'[i] # None => account'[i] \in held'[i]
  <2>1. CASE UNCHANGED account
    BY <1>1, <2>1 DEF Grows, SessionsInv
  <2>2. ASSUME NEW t \in Threads, Links(t)
        PROVE  <1>3
    BY <2>2, LinksIs DEF Typed, TypeOK, Domains, SessionsInv
  <2>3. ASSUME NEW t \in Threads, LogsIn(t)
        PROVE  <1>3
    <3> DEFINE r == request[t]
               w == held[r.proof] \cup {r.user}
    <3>1. \/ /\ account' = [account EXCEPT ![r.proof] = r.user]
             /\ held' = [held EXCEPT ![r.proof] = @ \cup {r.user}]
          \/ account' = account /\ held' = held
      BY <2>3, LogsInIs
    <3>2. r.proof \in Identities /\ account \in [Identities -> users \cup {None}]
      BY <2>3, LogsInIs DEF Typed, TypeOK
    <3>3. \A i \in Identities : account[i] # None => account[i] \in held[i]
      BY DEF SessionsInv
    <3>4. held \in [Identities -> SUBSET Handles]
      BY DEF Typed, Domains
    <3>5. CASE /\ account' = [account EXCEPT ![r.proof] = r.user]
               /\ held' = [held EXCEPT ![r.proof] = @ \cup {r.user}]
      <4>1. held' = [held EXCEPT ![r.proof] = w] /\ r.user \in w
        BY <3>5
      <4> HIDE DEF r, w
      <4>2. \A i \in Identities : /\ account'[i] = IF i = r.proof THEN r.user ELSE account[i]
                                  /\ held'[i] = IF i = r.proof THEN w ELSE held[i]
        BY <3>2, <3>4, <3>5, <4>1
      <4> QED BY <3>3, <4>1, <4>2
    <3>6. CASE account' = account /\ held' = held
      BY <3>3, <3>6
    <3> QED BY <3>1, <3>5, <3>6
  <2> QED BY <2>1, <2>2, <2>3, QuietOrWrites, EnrollsIs, AssertsIs, RevokesIs, CreatesIs, IssuesIs
          DEF Quiet, Writes, tables
<1>4. SessionsAreBacked'
  <2>1. ASSUME NEW s \in sessions
        PROVE  IF s.via \in Passkeys THEN owner'[s.via] = s.user ELSE s.user \in held'[s.via]
    <3>1. s.user \in users /\ s.via \in Passkeys \cup Identities /\ s.user # None
      BY <1>1, NoneIsNobody DEF TypeOK
    <3> QED BY <1>1, <3>1 DEF Grows, SessionsInv, SessionsAreBacked
  <2>2. CASE sessions' \subseteq sessions
    BY <2>1, <2>2 DEF SessionsAreBacked
  <2>3. ASSUME NEW t \in Threads, CommitAssert(t)
        PROVE  SessionsAreBacked'
    <3> DEFINE r == request[t]
               s == [user |-> r.user, via |-> r.proof]
    <3>1. /\ r.op = "assert" /\ r.proof \in Passkeys /\ owner' = owner
          /\ sessions' = sessions \cup {s}
      BY <2>3, AssertsIs
    <3>2. s.via \in Passkeys /\ owner'[s.via] = s.user
      BY <3>1 DEF SessionsInv, Proven
    <3> HIDE DEF s
    <3> QED BY <2>1, <3>1, <3>2 DEF SessionsAreBacked
  <2>4. ASSUME NEW t \in Threads, LogsIn(t)
        PROVE  SessionsAreBacked'
    <3> DEFINE r == request[t]
               s == [user |-> r.user, via |-> r.proof]
    <3>1. /\ r.op = "login" /\ r.proof \in Identities
          /\ sessions' = sessions \cup {s}
      BY <2>4, LogsInIs
    <3>2. r.user \in held'[r.proof]
      BY <2>4, <3>1, LogsInIs DEF SessionsInv, Proven, Typed, Domains
    <3>3. s.via \notin Passkeys /\ s.user \in held'[s.via]
      BY <3>1, <3>2, AccountsAssumption
    <3> HIDE DEF s
    <3> QED BY <2>1, <3>1, <3>3 DEF SessionsAreBacked
  <2> QED BY <2>2, <2>3, <2>4, QuietOrWrites, EnrollsIs, LinksIs, RevokesIs, CreatesIs, IssuesIs
          DEF Quiet, Writes
<1> QED BY <1>2, <1>3, <1>4 DEF SessionsInv

(* Every live session was opened with a passkey of its user, or with an    *)
(* identity that was bound to the user, whatever happened in between.      *)
THEOREM SessionsRest == Spec => []SessionsAreBacked
<1>1. Typed /\ SessionsInv /\ [Next]_vars => SessionsInv'
  BY SessionsNext
<1>2. SessionsInv => SessionsAreBacked
  BY DEF SessionsInv
<1> QED BY <1>1, <1>2, SessionsInit, TypeInvariant, PTL DEF Spec

-----------------------------------------------------------------------------
(* Enrolments.  The ground of a challenge is what CheckOwner found.        *)
Granted(t) ==
  LET r == request[t]
  IN  /\ r.op = "issue" => r.found = r.user
      /\ r.op = "enrol" =>
           /\ challenge[r.challenge].purpose = "registration"
           /\ challenge[r.challenge].user = r.user

(* A passkey with an owner has a registration challenge of the owner.      *)
Registered(p, c) ==
  /\ c \in Challenges /\ challenge[c].status # "unused"
  /\ challenge[c].purpose = "registration" /\ challenge[c].user = owner[p]

EnrolmentsInv ==
  /\ \A p \in Passkeys : owner[p] # None => Registered(p, enrolled[p])
  /\ \A c \in Challenges :
       Issued(c) /\ challenge[c].purpose = "registration" => challenge[c].ground
  /\ \A t \in Threads : Granted(t)

LEMMA EnrolmentsInit == Init => EnrolmentsInv
<1> SUFFICES ASSUME Init PROVE EnrolmentsInv
  OBVIOUS
<1>1. \A t \in Threads : request[t].op = "idle"
  BY IdleIsRequest DEF Init
<1>2. \A c \in Challenges : ~Issued(c)
  BY DEF Init, Issued, Unused
<1> QED BY <1>1, <1>2 DEF Init, EnrolmentsInv, Granted

LEMMA EnrolmentsNext ==
  ASSUME Typed, EnrolmentsInv, [Next]_vars
  PROVE  EnrolmentsInv'
<1>1. Grows /\ TypeOK /\ Typed'
  BY StepGrows, TypedNext DEF Typed
<1>2. \A t \in Threads : Granted(t)'
  <2> SUFFICES ASSUME NEW t \in Threads PROVE Granted(t)'
    OBVIOUS
  <2>1. Names(t) /\ Names(t)' /\ Granted(t)
    BY <1>1 DEF Typed, EnrolmentsInv
  <2>2. CASE Rests(t) \/ Created(t) \/ Checked(t)
    BY <2>2 DEF Rests, Created, Checked, Granted
  <2>3. CASE Same(t)
    BY <1>1, <2>1, <2>3 DEF Same, Granted, Names, Grows
  <2>4. CASE Overtook(t)
    BY <1>1, <2>1, <2>4 DEF Overtook, Granted, Names, Grows
  <2>5. CASE Begins(t)
    BY <1>1, <2>1, <2>5, BeginsIs, BeginsWith DEF tables, history, Granted, Names, Answers
  <2> QED BY <2>2, <2>3, <2>4, <2>5, Moves DEF Stays
<1>3. \A c \in Challenges :
        Issued(c)' /\ challenge'[c].purpose = "registration" => challenge'[c].ground
  <2>1. CASE \A c \in Challenges : Issued(c)' => Issued(c)
    BY <1>1, <2>1 DEF Grows, EnrolmentsInv
  <2>2. ASSUME \/ \E t \in Threads, c \in Challenges : IssueRegistration(t, c)
               \/ \E u \in users, c \in Challenges, p \in Passkeys : LoginOptions(u, c, p)
        PROVE  <1>3
    <3>1. PICK c \in Challenges :
           /\ \A d \in Challenges \ {c} : challenge'[d] = challenge[d]
           /\ \/ challenge'[c].purpose = "authentication"
              \/ \E t \in Threads :
                   /\ request[t].op = "issue"
                   /\ challenge'[c].ground = (request[t].found = request[t].user)
      BY <2>2, IssuesIs
    <3> QED BY <3>1 DEF EnrolmentsInv, Granted, Issued
  <2>3. CASE Quiet
    BY <2>1, <2>3, DeletedIs DEF Quiet, Issued
  <2> QED BY <2>1, <2>2, <2>3, QuietOrWrites, EnrollsIs, AssertsIs, LinksIs, LogsInIs, RevokesIs,
             CreatesIs, DeletedIs DEF Writes, Issued
<1>4. \A p \in Passkeys : owner'[p] # None => Registered(p, enrolled[p])'
  <2>1. ASSUME NEW p \in Passkeys, owner[p] # None
        PROVE  Registered(p, enrolled[p])'
    BY <1>1, <2>1 DEF Grows, EnrolmentsInv, Registered, Issued
  <2>2. ASSUME NEW t \in Threads, Enrolls(t), NEW p \in Passkeys, owner[p] = None,
               owner'[p] # None
        PROVE  Registered(p, enrolled[p])'
    <3> DEFINE r == request[t]
    <3>1. /\ r.op = "enrol" /\ r.challenge \in Challenges /\ Issued(r.challenge)
          /\ owner' = [owner EXCEPT ![r.proof] = r.user] /\ r.proof \in Passkeys
          /\ enrolled' = [enrolled EXCEPT ![r.proof] = r.challenge]
      BY <2>2, EnrollsIs
    <3>2. p = r.proof /\ owner'[p] = r.user /\ enrolled'[p] = r.challenge
      BY <2>2, <3>1 DEF Typed, TypeOK, Domains
    <3>3. /\ challenge[r.challenge].purpose = "registration"
          /\ challenge[r.challenge].user = r.user
      BY <3>1 DEF EnrolmentsInv, Granted
    <3> QED BY <1>1, <3>1, <3>2, <3>3 DEF Grows, Registered, Issued
  <2>3. CASE UNCHANGED owner
    BY <2>1, <2>3
  <2> QED BY <2>1, <2>2, <2>3, QuietOrWrites, AssertsIs, LinksIs, LogsInIs, RevokesIs,
             CreatesIs, IssuesIs DEF Quiet, Writes, tables
<1> QED BY <1>2, <1>3, <1>4 DEF EnrolmentsInv

(* Rule H6: a passkey was enrolled by its user or while nobody owned the   *)
(* account, as its options were asked for, however late it is enrolled.    *)
THEOREM EnrolmentsRest == Spec => []EnrolmentsAreGranted
<1>1. Typed /\ EnrolmentsInv /\ [Next]_vars => EnrolmentsInv'
  BY EnrolmentsNext
<1>2. EnrolmentsInv => EnrolmentsAreGranted
  BY DEF EnrolmentsInv, EnrolmentsAreGranted, Registered, Issued
<1> QED BY <1>1, <1>2, EnrolmentsInit, TypeInvariant, PTL DEF Spec

-----------------------------------------------------------------------------
(* Done once.  A request that no commit has overtaken still sees what it   *)
(* checked: an open challenge, no second identity, a live token.           *)
Fresh(t) ==
  LET r == request[t]
  IN  ~r.stale =>
        /\ r.op \in {"enrol", "assert"} => spent[r.challenge] = 0
        /\ r.op = "link" => ~HasAnother(r.user, r.proof)
        /\ r.op = "revoke" => answers[r.proof] = 0

OnceInv ==
  /\ OnceUnlessRaced
  /\ \A c \in Challenges : challenge[c].status # "gone" => spent[c] = 0
  /\ \A a \in Revocable :
       /\ agents[a].live => answers[a] = 0
       /\ agents[a].user = None => answers[a] = 0 /\ ~agents[a].live
  /\ \A t \in Threads : Fresh(t) /\ (request[t].op = "revoke" =>
                                       agents[request[t].proof].user # None)

LEMMA OnceInit == Init => OnceInv
<1> SUFFICES ASSUME Init PROVE OnceInv
  OBVIOUS
<1>1. \A t \in Threads : request[t].op = "idle"
  BY IdleIsRequest DEF Init
<1> QED BY <1>1 DEF Init, OnceInv, OnceUnlessRaced, ChallengesServeOnce,
                   OneIdentityPerProvider, RevocationsAnswerOnce, Fresh

LEMMA FreshNext ==
  ASSUME Typed, OnceInv, [Next]_vars, NEW t \in Threads
  PROVE  Fresh(t)' /\ (request'[t].op = "revoke" => agents'[request'[t].proof].user # None)
<1>1. Grows /\ TypeOK /\ Domains /\ Typed' /\ SigningKeys \subseteq Revocable
  BY StepGrows, TypedNext DEF Typed, Revocable
<1>2. Names(t) /\ Names(t)' /\ request[t] \in Requests /\ request'[t] \in Requests
  BY <1>1 DEF Typed, Domains
<1>3. /\ Fresh(t) /\ (request[t].op = "revoke" => agents[request[t].proof].user # None)
      /\ \A c \in Challenges : challenge[c].status # "gone" => spent[c] = 0
      /\ \A a \in Revocable : /\ agents[a].live => answers[a] = 0
                              /\ agents[a].user = None => ~agents[a].live
  BY DEF OnceInv
<1>4. CASE Rests(t) \/ Created(t) \/ Checked(t)
  BY <1>4 DEF Rests, Created, Checked, Fresh
<1>5. CASE Stays(t)
  BY <1>1, <1>2, <1>3, <1>5 DEF Stays, Same, Fresh, Names, HasAnother, IdentitiesOf
<1>6. CASE Overtook(t)
  BY <1>1, <1>2, <1>3, <1>6 DEF Overtook, Fresh, Names, Grows
<1>7. CASE Begins(t)
  <2> DEFINE q == request'[t]
  <2>1. /\ UNCHANGED <<account, agents, challenge, spent, answers>>
        /\ q.op = "enrol" => challenge[q.challenge].status = "live"
        /\ q.op = "assert" => challenge[q.challenge].status = "live"
        /\ q.op = "link" => ~HasAnother(q.user, q.proof)
        /\ q.op = "revoke" => agents[q.proof].live
    BY <1>7, BeginsIs, BeginsWith DEF tables, history, Answers
  <2>2. q.op = "link" => ~HasAnother(request[t].user, request[t].proof)'
    BY <2>1 DEF HasAnother, IdentitiesOf
  <2>3. q.op \in {"enrol", "assert"} => q.challenge \in Challenges
    BY <1>2 DEF Names
  <2>4. q.op = "revoke" => q.proof \in Revocable
    BY <1>1, <1>2 DEF Names
  <2> QED BY <1>3, <2>1, <2>2, <2>3, <2>4 DEF Fresh
<1> QED BY <1>4, <1>5, <1>6, <1>7, Moves

LEMMA ChallengesOnceNext ==
  ASSUME Typed, OnceInv, [Next]_vars
  PROVE  ChallengesServeOnce' /\ \A c \in Challenges : challenge'[c].status # "gone" => spent'[c] = 0
<1> DEFINE Open0(c) == challenge[c].status # "gone" => spent[c] = 0
<1>1. Grows /\ Domains
  BY StepGrows DEF Typed
<1>2. /\ \A c \in Challenges : spent[c] \in Nat /\ (spent[c] <= 1 \/ c \in raced) /\ Open0(c)
      /\ \A t \in Threads : Fresh(t)
  BY <1>1 DEF OnceInv, OnceUnlessRaced, ChallengesServeOnce, Domains
<1>3. ASSUME UNCHANGED spent, \A c \in Challenges : challenge'[c].status # "gone" =>
                                  challenge[c].status # "gone"
      PROVE  ChallengesServeOnce' /\ \A c \in Challenges : Open0(c)'
  BY <1>1, <1>2, <1>3 DEF Grows, ChallengesServeOnce
<1>4. ASSUME NEW t \in Threads, NEW r, r = request[t], r.op \in {"enrol", "assert"},
             r.challenge \in Challenges, Issued(r.challenge),
             spent' = [spent EXCEPT ![r.challenge] = @ + 1], Deleted(r.challenge), Commit(t)
      PROVE  ChallengesServeOnce' /\ \A c \in Challenges : Open0(c)'
  <2>1. /\ \A d \in Challenges : challenge'[d].status =
                                   IF d = r.challenge THEN "gone" ELSE challenge[d].status
    BY <1>4, DeletedIs
  <2>2. \A d \in Challenges : spent'[d] = IF d = r.challenge THEN spent[d] + 1 ELSE spent[d]
    BY <1>1, <1>4 DEF Domains
  <2>3. r.stale => r.challenge \in raced'
    BY <1>1, <1>4, CommitMoves
  <2>4. ~r.stale => spent[r.challenge] = 0
    BY <1>2, <1>4 DEF Fresh
  <2> QED BY <1>1, <1>2, <2>1, <2>2, <2>3, <2>4 DEF Grows, ChallengesServeOnce
<1>5. ASSUME NEW t \in Threads, Enrolls(t)
      PROVE  ChallengesServeOnce' /\ \A c \in Challenges : Open0(c)'
  BY <1>4, <1>5, EnrollsIs
<1>6. ASSUME NEW t \in Threads, CommitAssert(t)
      PROVE  ChallengesServeOnce' /\ \A c \in Challenges : Open0(c)'
  BY <1>4, <1>6, AssertsIs
<1>7. CASE Quiet
  BY <1>3, <1>7, DeletedIs DEF Quiet, Issued
<1>8. ASSUME \/ \E t \in Threads, c \in Challenges : IssueRegistration(t, c)
             \/ \E u \in users, c \in Challenges, p \in Passkeys : LoginOptions(u, c, p)
      PROVE  ChallengesServeOnce' /\ \A c \in Challenges : Open0(c)'
  <2>1. PICK c \in Challenges :
          /\ challenge[c].status = "unused"
          /\ \A d \in Challenges \ {c} : challenge'[d] = challenge[d]
          /\ UNCHANGED <<tables, links, sessions, history>>
    BY <1>8, IssuesIs
  <2> QED BY <1>3, <2>1 DEF history
<1> QED BY <1>3, <1>5, <1>6, <1>7, <1>8, QuietOrWrites, LinksIs, LogsInIs, RevokesIs, CreatesIs
        DEF Writes, history

LEMMA IdentitiesOnceNext ==
  ASSUME Typed, OnceInv, [Next]_vars
  PROVE  OneIdentityPerProvider'
<1>1. Grows /\ Domains /\ TypeOK /\ None \notin users
  BY StepGrows, NoneIsNobody DEF Typed
<1>2. OneIdentityPerProvider /\ \A t \in Threads : Fresh(t)
  BY DEF OnceInv, OnceUnlessRaced
<1>3. CASE UNCHANGED account
  BY <1>1, <1>2, <1>3 DEF Grows, OneIdentityPerProvider
<1>4. ASSUME NEW t \in Threads, Links(t)
      PROVE  OneIdentityPerProvider'
  <2> DEFINE r == request[t]
  <2>1. /\ r.op = "link" /\ r.user \in users /\ r.proof \in Identities
        /\ account' = [account EXCEPT ![r.proof] = r.user] /\ Commit(t)
    BY <1>4, LinksIs
  <2>2. r.stale => r.user \in raced'
    BY <1>1, <2>1, CommitMoves
  <2>3. ~r.stale => ~HasAnother(r.user, r.proof)
    BY <1>2, <2>1 DEF Fresh
  <2>4. \A i \in Identities : account'[i] = IF i = r.proof THEN r.user ELSE account[i]
    BY <1>1, <2>1 DEF TypeOK
  <2> HIDE DEF r
  <2>5. ASSUME NEW i \in Identities, NEW j \in Identities, account'[i] # None,
               account'[i] = account'[j], Provider[i] = Provider[j], i # j
        PROVE  account'[i] \in raced'
    <3>1. CASE i # r.proof /\ j # r.proof
      BY <1>1, <1>2, <2>4, <2>5, <3>1 DEF Grows, OneIdentityPerProvider
    <3>2. ASSUME NEW k \in Identities, k # r.proof, account[k] = r.user,
                 Provider[k] = Provider[r.proof], ~r.stale
          PROVE  r.user \in raced'
      <4>1. account[r.proof] = r.user
        BY <2>3, <3>2 DEF HasAnother, IdentitiesOf
      <4> QED BY <1>1, <1>2, <2>1, <3>2, <4>1 DEF Grows, OneIdentityPerProvider
    <3> QED BY <2>2, <2>4, <2>5, <3>1, <3>2
  <2> QED BY <2>5 DEF OneIdentityPerProvider
<1>5. ASSUME NEW t \in Threads, LogsIn(t)
      PROVE  OneIdentityPerProvider'
  <2> DEFINE r == request[t]
  <2>1. CASE r.found # None
    BY <1>3, <1>5, <2>1, LogsInIs
  <2>2. CASE r.found = None
    <3>1. /\ r.user \notin users /\ r.proof \in Identities /\ r.user # None
          /\ account' = [account EXCEPT ![r.proof] = r.user]
      BY <1>5, <2>2, LogsInIs, AccountsAssumption
    <3>2. \A i \in Identities : account'[i] = IF i = r.proof THEN r.user ELSE account[i]
      BY <1>1, <3>1 DEF TypeOK
    <3>3. \A i \in Identities : account[i] # r.user
      BY <1>1, <3>1 DEF TypeOK
    <3> QED BY <1>1, <1>2, <3>2, <3>3 DEF Grows, OneIdentityPerProvider
  <2> QED BY <2>1, <2>2
<1> QED BY <1>3, <1>4, <1>5, QuietOrWrites, EnrollsIs, AssertsIs, RevokesIs, CreatesIs, IssuesIs
        DEF Quiet, Writes, tables

LEMMA RevocationsOnceNext ==
  ASSUME Typed, OnceInv, [Next]_vars
  PROVE  /\ RevocationsAnswerOnce'
         /\ \A a \in Revocable :
              /\ agents'[a].live => answers'[a] = 0
              /\ agents'[a].user = None => answers'[a] = 0 /\ ~agents'[a].live
<1> DEFINE Kept == /\ RevocationsAnswerOnce'
                   /\ \A a \in Revocable :
                        /\ agents'[a].live => answers'[a] = 0
                        /\ agents'[a].user = None => answers'[a] = 0 /\ ~agents'[a].live
<1> SUFFICES Kept
  OBVIOUS
<1>1. Grows /\ Domains /\ TypeOK /\ None \notin users
  BY StepGrows, NoneIsNobody DEF Typed
<1>2. /\ \A a \in Revocable : /\ answers[a] \in Nat /\ (answers[a] <= 1 \/ a \in raced)
                              /\ agents[a].live => answers[a] = 0
                              /\ agents[a].user = None => answers[a] = 0 /\ ~agents[a].live
      /\ \A t \in Threads : Fresh(t) /\ (request[t].op = "revoke" =>
                                           agents[request[t].proof].user # None)
  BY <1>1 DEF OnceInv, OnceUnlessRaced, RevocationsAnswerOnce, Domains
<1>3. CASE UNCHANGED <<agents, answers>>
  BY <1>1, <1>2, <1>3 DEF Grows, RevocationsAnswerOnce
<1>4. ASSUME \/ \E t \in Threads : CommitRevokeKey(t)
             \/ \E u \in users, a \in AgentTokens : RevokeAgentToken(u, a)
      PROVE  Kept
  <2>1. PICK a \in Revocable :
           /\ \/ \E t \in Threads : Commit(t) /\ request[t].op = "revoke" /\ request[t].proof = a
              \/ agents[a].live /\ agents[a].user \in users /\ AtOnce
           /\ answers' = [answers EXCEPT ![a] = @ + 1]
           /\ \A b \in Revocable : /\ agents'[b].user = agents[b].user
                                   /\ agents'[b].live = (b # a /\ agents[b].live)
    BY <1>4, RevokesIs
  <2>2. (answers[a] = 0 \/ a \in raced') /\ agents[a].user # None
    <3>1. CASE agents[a].live /\ agents[a].user \in users
      BY <1>1, <1>2, <3>1
    <3>2. ASSUME NEW t \in Threads, Commit(t), request[t].op = "revoke", request[t].proof = a
          PROVE  (answers[a] = 0 \/ a \in raced') /\ agents[a].user # None
      BY <1>1, <1>2, <3>2, CommitMoves DEF Fresh
    <3> QED BY <2>1, <3>1, <3>2
  <2>3. \A b \in Revocable : answers'[b] = IF b = a THEN answers[b] + 1 ELSE answers[b]
    BY <1>1, <2>1 DEF Domains
  <2>4. RevocationsAnswerOnce'
    BY <1>1, <1>2, <2>2, <2>3 DEF Grows, RevocationsAnswerOnce
  <2>5. ASSUME NEW b \in Revocable
        PROVE  /\ agents'[b].live => answers'[b] = 0
               /\ agents'[b].user = None => answers'[b] = 0 /\ ~agents'[b].live
    <3>1. (agents'[b].live => b # a /\ agents[b].live) /\ agents'[b].user = agents[b].user
      BY <2>1, Zenon
    <3> QED BY <1>2, <2>2, <2>3, <3>1
  <2> QED BY <2>4, <2>5
<1>5. ASSUME NEW u \in users, NEW a \in Revocable, Create(u, a)
      PROVE  Kept
  BY <1>1, <1>2, <1>5, CreatesIs DEF Grows, RevocationsAnswerOnce, history
<1> QED BY <1>3, <1>4, <1>5, QuietOrWrites, EnrollsIs, AssertsIs, LinksIs, LogsInIs, IssuesIs
        DEF Quiet, Writes, tables, history

LEMMA OnceNext ==
  ASSUME Typed, OnceInv, [Next]_vars
  PROVE  OnceInv'
BY FreshNext, ChallengesOnceNext, IdentitiesOnceNext, RevocationsOnceNext
   DEF OnceInv, OnceUnlessRaced

(* A challenge, a revocation and an identity of a provider serve once, and *)
(* whoever got a second one had been overtaken between check and commit.   *)
THEOREM OnceRest == Spec => []OnceUnlessRaced
<1>1. Typed /\ OnceInv /\ [Next]_vars => OnceInv'
  BY OnceNext
<1>2. OnceInv => OnceUnlessRaced
  BY DEF OnceInv
<1> QED BY <1>1, <1>2, OnceInit, TypeInvariant, PTL DEF Spec

-----------------------------------------------------------------------------
(* Identities that move.  What a link in flight has checked holds until a  *)
(* commit overtakes it, and its user has asked for it in any case.         *)
Rightful(t) ==
  LET r == request[t]
  IN  r.op = "link" =>
        /\ <<r.user, Provider[r.proof]>> \in asked
        /\ ~r.stale /\ account[r.proof] \notin {None, r.user} =>
             BareBut(account[r.proof], r.proof)

LinksInv == links \subseteq asked /\ \A t \in Threads : Rightful(t)

LEMMA LinksInit == Init => LinksInv
BY IdleIsRequest DEF Init, LinksInv, Rightful

LEMMA LinksAreAsked ==
  ASSUME Typed, LinksInv, [Next]_vars
  PROVE  (links \subseteq asked)'
<1>1. Grows /\ links \subseteq asked
  BY StepGrows DEF LinksInv
<1>2. ASSUME UNCHANGED links
      PROVE  (links \subseteq asked)'
  BY <1>1, <1>2 DEF Grows
<1>3. ASSUME NEW t \in Threads, Fail(t)
      PROVE  UNCHANGED links
  BY <1>3 DEF Fail
<1>4. ASSUME NEW t \in Threads,
             \/ Begins(t) \/ Continues(t) \/ CommitEnrol(t) \/ CommitAssert(t)
             \/ CommitLink(t) \/ CommitLogin(t) \/ CommitRevokeKey(t)
      PROVE  UNCHANGED links
  <2>1. CASE Begins(t)
    BY <2>1, BeginsIs
  <2>2. CASE Continues(t)
    BY <1>3, <2>2 DEF Continues, CreateUser, CheckOwner, IssueRegistration
  <2>3. CASE CommitEnrol(t) \/ CommitLink(t) \/ CommitLogin(t)
    BY <1>3, <2>3 DEF CommitEnrol, CommitLink, CommitLogin
  <2>4. CASE CommitAssert(t) \/ CommitRevokeKey(t)
    BY <2>4 DEF CommitAssert, CommitRevokeKey, Revoked
  <2> QED BY <1>4, <2>1, <2>2, <2>3, <2>4
<1>5. ASSUME NEW u \in users, NEW pr, BeginLinking(u, pr)
      PROVE  (links \subseteq asked)'
  BY <1>1, <1>5 DEF BeginLinking
<1>6. CASE Expire
  BY <1>1, <1>6 DEF Expire, history
<1>7. CASE UNCHANGED vars
  BY <1>1, <1>7 DEF vars, history
<1> QED BY <1>2, <1>4, <1>5, <1>6, <1>7, NextIs DEF LoginOptions, Create, RevokeAgentToken, Revoked

LEMMA LinksNext ==
  ASSUME Typed, LinksInv, [Next]_vars
  PROVE  LinksInv'
<1>1. Grows /\ Domains /\ TypeOK
  BY StepGrows DEF Typed
<1>2. ASSUME NEW t \in Threads
      PROVE  Rightful(t)'
  <2>1. Rightful(t) /\ links \subseteq asked
    BY DEF LinksInv
  <2>2. CASE Rests(t) \/ Created(t) \/ Checked(t)
    BY <2>2 DEF Rests, Created, Checked, Rightful
  <2>3. CASE Stays(t)
    BY <1>1, <2>1, <2>3 DEF Stays, Same, Rightful, Grows, BareBut, PasskeysOf, IdentitiesOf
  <2>4. CASE Overtook(t)
    BY <1>1, <2>1, <2>4 DEF Overtook, Rightful, Grows
  <2>5. CASE Begins(t)
    <3> DEFINE q == request'[t]
    <3>1. /\ UNCHANGED <<account, owner, asked>>
          /\ q.op = "link" => /\ <<q.user, Provider[q.proof]>> \in links
                              /\ account[q.proof] \notin {None, q.user} =>
                                   BareBut(account[q.proof], q.proof)
      BY <2>5, BeginsIs, BeginsWith DEF tables, history
    <3> QED BY <2>1, <3>1 DEF Rightful, BareBut, PasskeysOf, IdentitiesOf
  <2> QED BY <2>2, <2>3, <2>4, <2>5, Moves
<1> QED BY <1>2, LinksAreAsked DEF LinksInv

(* An identity is bound to a new user, or to one who asked for the link.   *)
THEOREM BoundRest == Spec => BoundByItsUser
<1> DEFINE Bound == \A i \in Identities : account'[i] # account[i] =>
                      \/ account'[i] \notin users
                      \/ <<account'[i], Provider[i]>> \in asked
<1>1. Typed /\ LinksInv /\ [Next]_vars => LinksInv'
  BY LinksNext
<1>2. Typed /\ LinksInv /\ [Next]_vars => [Bound]_vars
  <2> SUFFICES ASSUME Typed, LinksInv, [Next]_vars PROVE Bound
    OBVIOUS
  <2>1. CASE UNCHANGED account
    BY <2>1
  <2>2. ASSUME NEW t \in Threads, Links(t)
        PROVE  Bound
    BY <2>2, LinksIs DEF LinksInv, Rightful, Typed, TypeOK
  <2>3. ASSUME NEW t \in Threads, LogsIn(t)
        PROVE  Bound
    BY <2>3, LogsInIs DEF Typed, TypeOK
  <2> QED BY <2>1, <2>2, <2>3, QuietOrWrites, EnrollsIs, AssertsIs, RevokesIs, CreatesIs,
             IssuesIs DEF Quiet, Writes, tables
<1> QED BY <1>1, <1>2, LinksInit, TypeInvariant, PTL DEF Spec, BoundByItsUser

(* A link takes an identity only from an account that nothing else opens,  *)
(* unless a commit came between the check and the move.                    *)
THEOREM MovesRest == Spec => MovesLeaveNoOwner
<1> DEFINE Moved == \A i \in Identities, u \in Handles :
                      account[i] = u /\ account'[i] # u => Open(u)' \/ i \in raced'
<1>1. Typed /\ LinksInv /\ [Next]_vars => LinksInv'
  BY LinksNext
<1>2. Typed /\ LinksInv /\ [Next]_vars => [Moved]_vars
  <2> SUFFICES ASSUME Typed, LinksInv, [Next]_vars PROVE Moved
    OBVIOUS
  <2>1. CASE UNCHANGED account
    BY <2>1
  <2>2. ASSUME NEW t \in Threads, Links(t)
        PROVE  Moved
    <3> DEFINE r == request[t]
    <3>1. /\ r.op = "link" /\ r.user \in users /\ r.proof \in Identities
          /\ account' = [account EXCEPT ![r.proof] = r.user] /\ Commit(t) /\ owner' = owner
      BY <2>2, LinksIs
    <3>2. r.stale => r.proof \in raced'
      BY <3>1, CommitMoves DEF Typed
    <3>3. \A i \in Identities : account'[i] = IF i = r.proof THEN r.user ELSE account[i]
      BY <3>1 DEF Typed, TypeOK
    <3>4. ASSUME ~r.stale, NEW u \in Handles, account[r.proof] = u, u # r.user
          PROVE  Open(u)'
      <4>1. BareBut(u, r.proof)
        BY <3>1, <3>4, AccountsAssumption DEF LinksInv, Rightful
      <4> QED BY <3>1, <3>3, <3>4, <4>1 DEF BareBut, Open, PasskeysOf, IdentitiesOf
    <3> QED BY <3>2, <3>3, <3>4
  <2>3. ASSUME NEW t \in Threads, LogsIn(t)
        PROVE  Moved
    <3> DEFINE r == request[t]
    <3>1. \/ account' = [account EXCEPT ![r.proof] = r.user] /\ account[r.proof] = None
          \/ account' = account
      BY <2>3, LogsInIs
    <3>2. r.proof \in Identities /\ account \in [Identities -> users \cup {None}]
      BY <2>3, LogsInIs DEF Typed, TypeOK
    <3>3. None \notin Handles
      BY AccountsAssumption
    <3>4. CASE account' = [account EXCEPT ![r.proof] = r.user] /\ account[r.proof] = None
      <4> HIDE DEF r
      <4>1. \A i \in Identities : i # r.proof => account'[i] = account[i]
        BY <3>2, <3>4
      <4> QED BY <3>3, <3>4, <4>1
    <3>5. CASE account' = account
      BY <3>5
    <3> QED BY <3>1, <3>4, <3>5
  <2> QED BY <2>1, <2>2, <2>3, QuietOrWrites, EnrollsIs, AssertsIs, RevokesIs, CreatesIs,
             IssuesIs DEF Quiet, Writes, tables
<1> QED BY <1>1, <1>2, LinksInit, TypeInvariant, PTL DEF Spec, MovesLeaveNoOwner

=============================================================================
