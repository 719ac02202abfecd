------------------------------ MODULE Accounts ------------------------------
(***************************************************************************)
(* Accounts of the public API: sign-up, passkeys, sign-in and linking with *)
(* an OAuth provider, session and agent tokens, and signing keys.          *)
(*                                                                         *)
(* The handlers are plain functions run in a pool of threads, each on a    *)
(* connection of its own: a handler reads, and what it read may be stale   *)
(* when it writes.  A request is its reads in one step and its writes and  *)
(* commit in another; a refused request changes nothing and is no step.    *)
(* A user is named by the handle, which is unique and never changes.       *)
(***************************************************************************)
EXTENDS Integers, Sequences, FiniteSets, SequencesExt

CONSTANTS
  Handles,
  Passkeys,                \* credentials of authenticators
  Identities, Provider,    \* accounts at the providers; Provider[i]
  Candidates,              \* Candidates[i]: handles tried for a new account
  Challenges, AgentTokens, SigningKeys, Threads,
  UuidRows,                \* rows hold UUID objects (psycopg), not strings
  None,
  MaxEvents                \* bound: requests that change state, and expiries

ASSUME AccountsAssumption ==
  /\ None \notin Handles /\ Passkeys \cap Identities = {}
  /\ Candidates \in [Identities -> Seq(Handles)]
  /\ \A i \in Identities : Candidates[i] # <<>>
  /\ UuidRows \in BOOLEAN /\ MaxEvents \in Nat

VARIABLES
  users,       \* app_user
  owner,       \* webauthn_credential.app_user_id, None for no row
  count,       \* webauthn_credential.sign_count
  device,      \* the authenticator's own counter, 0 if it has none
  account,     \* oauth_account.app_user_id, None for no row
  challenge,   \* auth_challenge, and what is remembered of it
  links,       \* link states that are signed and fresh: <<user, provider>>
  sessions,    \* live session tokens: [user, via]
  agents,      \* agent tokens and signing keys: [user, live]
  request,     \* the request of each thread
  \* history, read by the properties only:
  enrolled,    \* the challenge a passkey was enrolled with
  spent,       \* how often a challenge was answered with success
  held,        \* users an identity has been bound to
  asked,       \* links ever begun by their user
  answers,     \* successful revocations of a token or key
  raced,       \* whom a commit touched that another had overtaken
  broken,      \* handlers that raised a TypeError
  events

tables  == <<users, owner, count, account, agents>>
history == <<enrolled, spent, held, asked, answers, broken>>
vars    == <<tables, device, challenge, links, sessions, request, history, raced, events>>

Revocable == AgentTokens \cup SigningKeys
Idle      == [op |-> "idle", user |-> None, by |-> None, proof |-> None,
              challenge |-> None, found |-> None, stale |-> FALSE]
Unused    == [status |-> "unused", purpose |-> "none", user |-> None,
              passkey |-> None, count |-> 0, ground |-> FALSE]

PasskeysOf(u)   == {p \in Passkeys : owner[p] = u}
IdentitiesOf(u) == {i \in Identities : account[i] = u}

(* Nobody ever proved to own the account, as the handlers can tell.        *)
Open(u) == PasskeysOf(u) = {} /\ IdentitiesOf(u) = {}

(* get_current_user: some token of the user is neither expired nor revoked.*)
Caller(u) ==
  \/ \E s \in sessions : s.user = u
  \/ \E a \in AgentTokens : agents[a] = [user |-> u, live |-> TRUE]

-----------------------------------------------------------------------------
Init ==
  /\ users = {}
  /\ owner = [p \in Passkeys |-> None] /\ count = [p \in Passkeys |-> 0]
  /\ device = [p \in Passkeys |-> 0]
  /\ account = [i \in Identities |-> None]
  /\ challenge = [c \in Challenges |-> Unused]
  /\ links = {} /\ sessions = {}
  /\ agents = [a \in Revocable |-> [user |-> None, live |-> FALSE]]
  /\ request = [t \in Threads |-> Idle]
  /\ enrolled = [p \in Passkeys |-> None] /\ spent = [c \in Challenges |-> 0]
  /\ held = [i \in Identities |-> {}] /\ asked = {}
  /\ answers = [a \in Revocable |-> 0]
  /\ raced = {} /\ broken = {}
  /\ events = 0

Counted == events < MaxEvents /\ events' = events + 1

(* A request begins: it has read what the record says.                     *)
Begin(t, r) ==
  /\ Counted /\ request[t].op = "idle"
  /\ request' = [request EXCEPT ![t] = r]
  /\ UNCHANGED raced

(* The requests in flight are overtaken by a commit.                       *)
Overtaken(others) ==
  [t \in Threads |-> IF t \in others /\ request[t].op # "idle"
                     THEN [request[t] EXCEPT !.stale = TRUE] ELSE request[t]]

(* A request commits and ends.                                             *)
Commit(t) ==
  LET r == request[t] IN
  /\ request' = [Overtaken(Threads \ {t}) EXCEPT ![t] = Idle]
  /\ raced' = IF r.stale
              THEN raced \cup {r.user, r.proof, r.challenge, r.found} ELSE raced
  /\ UNCHANGED events

(* A unique index refuses the insert, or the handler raises: roll back.    *)
Fail(t) ==
  /\ request' = [request EXCEPT ![t] = Idle]
  /\ UNCHANGED <<tables, device, challenge, links, sessions, history, raced, events>>

(* A request of one statement, or of a check that cannot go stale.         *)
AtOnce ==
  /\ Counted
  /\ request' = Overtaken(Threads)
  /\ UNCHANGED raced

-----------------------------------------------------------------------------
(* Passkeys                                                                *)

(* passkey_registration_options, until it knows whether there is a user.   *)
BeginOptions(t, u, by) ==
  /\ by # None => Caller(by)
  /\ Begin(t, [Idle EXCEPT !.op = IF u \in users THEN "check" ELSE "create",
                           !.user = u, !.by = by])
  /\ UNCHANGED <<tables, device, challenge, links, sessions, history>>

(* An unknown handle: insert the user, commit, go on.                      *)
CreateUser(t) ==
  LET r == request[t] IN
  /\ r.op = "create"
  /\ IF r.user \in users THEN Fail(t)
     ELSE /\ users' = users \cup {r.user}
          /\ request' = [Overtaken(Threads \ {t}) EXCEPT ![t].op = "check"]
          /\ UNCHANGED <<owner, count, account, agents, device, challenge, links,
                         sessions, history, raced, events>>

(* Mutant: before rule H6, anybody enrolled on any handle.                 *)
MayEnrolAnybody(u, by) == TRUE

(* Rule H6: the caller's own account, or one that nobody owns.             *)
MayEnrol(u, by) == by = u \/ Open(u)

CheckOwner(t) ==
  LET r == request[t] IN
  /\ r.op = "check"
  /\ IF ~MayEnrol(r.user, r.by) THEN Fail(t)
     ELSE /\ request' = [request EXCEPT ![t].op = "issue", ![t].found =
                           IF r.by = r.user \/ Open(r.user) THEN r.user ELSE None]
          /\ UNCHANGED <<tables, device, challenge, links, sessions, history, raced,
                         events>>

IssueRegistration(t, c) ==
  LET r == request[t] IN
  /\ r.op = "issue" /\ challenge[c].status = "unused"
  /\ challenge' = [challenge EXCEPT ![c] =
       [Unused EXCEPT !.status = "live", !.purpose = "registration",
                      !.user = r.user, !.ground = r.found = r.user]]
  /\ Commit(t)
  /\ UNCHANGED <<tables, device, links, sessions, history>>

(* fetch_auth_challenge and the comparison of its row.                     *)
Answers(c, purpose, u) ==
  /\ challenge[c].status = "live"
  /\ challenge[c].purpose = purpose
  /\ challenge[c].user = u

(* verify_passkey_registration, up to the verified attestation.            *)
BeginEnrol(t, u, c, p) ==
  /\ u \in users /\ Answers(c, "registration", u)
  /\ Begin(t, [Idle EXCEPT !.op = "enrol", !.user = u, !.proof = p, !.challenge = c])
  /\ UNCHANGED <<tables, device, challenge, links, sessions, history>>

(* Mutant: the challenge stays until it expires.                           *)
DeletedOnExpiry(c) == UNCHANGED challenge

Deleted(c) == challenge' = [challenge EXCEPT ![c].status = "gone"]

(* credential_id is unique.  The first signature tells whether the device  *)
(* counts.  The answer of this handler names the user, as the row has it,  *)
(* in a body that json.dumps has to write.                                 *)
CommitEnrol(t) ==
  LET r == request[t] IN
  /\ r.op = "enrol"
  /\ IF owner[r.proof] # None THEN Fail(t)
     ELSE /\ owner' = [owner EXCEPT ![r.proof] = r.user]
          /\ \E n \in {0, 1} : /\ device' = [device EXCEPT ![r.proof] = n]
                              /\ count' = [count EXCEPT ![r.proof] = n]
          /\ enrolled' = [enrolled EXCEPT ![r.proof] = r.challenge]
          /\ spent' = [spent EXCEPT ![r.challenge] = @ + 1]
          /\ broken' = IF UuidRows THEN broken \cup {"enrol"} ELSE broken
          /\ Deleted(r.challenge) /\ Commit(t)
          /\ UNCHANGED <<users, account, agents, links, sessions, held, asked, answers>>

(* passkey_login_options; passkeys are never deleted.  The authenticator   *)
(* signs the challenge with its next count, to be posted now or later.     *)
LoginOptions(u, c, p) ==
  /\ p \in PasskeysOf(u) /\ challenge[c].status = "unused"
  /\ device' = [device EXCEPT ![p] = IF @ = 0 THEN 0 ELSE @ + 1]
  /\ challenge' = [challenge EXCEPT ![c] =
       [Unused EXCEPT !.status = "live", !.purpose = "authentication",
                      !.user = u, !.passkey = p, !.count = device'[p]]]
  /\ AtOnce
  /\ UNCHANGED <<tables, links, sessions, history>>

(* External: verify_authentication_response of the webauthn package.       *)
CountGrows(p, n) == n > count[p] \/ (n = 0 /\ count[p] = 0)

BeginAssert(t, u, c) ==
  LET p == challenge[c].passkey IN
  /\ u \in users /\ Answers(c, "authentication", u)
  /\ p \in PasskeysOf(u) /\ CountGrows(p, challenge[c].count)
  /\ Begin(t, [Idle EXCEPT !.op = "assert", !.user = u, !.proof = p, !.challenge = c])
  /\ UNCHANGED <<tables, device, challenge, links, sessions, history>>

CommitAssert(t) ==
  LET r == request[t] IN
  /\ r.op = "assert"
  /\ count' = [count EXCEPT ![r.proof] = challenge[r.challenge].count]
  /\ sessions' = sessions \cup {[user |-> r.user, via |-> r.proof]}
  /\ spent' = [spent EXCEPT ![r.challenge] = @ + 1]
  /\ Deleted(r.challenge) /\ Commit(t)
  /\ UNCHANGED <<users, owner, account, agents, device, links, enrolled, held, asked,
                 answers, broken>>

-----------------------------------------------------------------------------
(* OAuth.  A state is signed and not stored; it serves as often as the     *)
(* provider hands out codes until it is ten minutes old.                   *)

(* begin_oauth_link: the signature joins strings, a UUID object is none.   *)
BeginLinking(u, pr) ==
  /\ Caller(u) /\ Counted
  /\ IF UuidRows
     THEN broken' = broken \cup {"link"} /\ UNCHANGED <<links, asked>>
     ELSE /\ links' = links \cup {<<u, pr>>} /\ asked' = asked \cup {<<u, pr>>}
          /\ UNCHANGED broken
  /\ UNCHANGED <<tables, device, challenge, sessions, request, enrolled, spent, held,
                 answers, raced>>

(* The user has an identity of this provider, and it is not this one.      *)
HasAnother(u, i) ==
  account[i] # u /\ \E j \in IdentitiesOf(u) : Provider[j] = Provider[i]

(* Mutant: passkeys do not count.                                          *)
BareOfIdentities(u, i) == IdentitiesOf(u) = {i}

(* This identity is the only proof that somebody owns the account.         *)
BareBut(u, i) == PasskeysOf(u) = {} /\ IdentitiesOf(u) = {i}

(* oauth_link up to its writes, for the identity the provider answered.    *)
BeginLink(t, u, i) ==
  /\ <<u, Provider[i]>> \in links
  /\ ~HasAnother(u, i)
  /\ account[i] \notin {None, u} => BareBut(account[i], i)
  /\ Begin(t, [Idle EXCEPT !.op = "link", !.user = u, !.proof = i, !.found = account[i]])
  /\ UNCHANGED <<tables, device, challenge, links, sessions, history>>

(* Insert under the unique index, nothing, or an unconditional update.     *)
CommitLink(t) ==
  LET r == request[t] IN
  /\ r.op = "link"
  /\ IF r.found = None /\ account[r.proof] # None THEN Fail(t)
     ELSE /\ account' = [account EXCEPT ![r.proof] = r.user]
          /\ held' = [held EXCEPT ![r.proof] = @ \cup {r.user}]
          /\ Commit(t)
          /\ UNCHANGED <<users, owner, count, agents, device, challenge, links,
                         sessions, enrolled, spent, asked, answers, broken>>

(* _resolve_handle: the first candidate nobody has, else the last.         *)
HandleFor(i) ==
  LET free == {n \in DOMAIN Candidates[i] : Candidates[i][n] \notin users}
  IN  IF free = {} THEN Last(Candidates[i])
      ELSE Candidates[i][CHOOSE n \in free : \A m \in free : n <= m]

(* Mutant: the login name finds an account before the identity does.       *)
BeginLoginByName(t, i) ==
  LET name == Candidates[i][1]
      user == IF name \in users THEN name ELSE account[i]
  IN
  /\ Begin(t, [Idle EXCEPT !.op = "login", !.proof = i, !.found = user,
       !.user = IF user # None THEN user ELSE HandleFor(i)])
  /\ UNCHANGED <<tables, device, challenge, links, sessions, history>>

(* oauth_login up to its writes; found is the user of the identity.        *)
BeginLogin(t, i) ==
  /\ Begin(t, [Idle EXCEPT !.op = "login", !.proof = i, !.found = account[i],
       !.user = IF account[i] # None THEN account[i] ELSE HandleFor(i)])
  /\ UNCHANGED <<tables, device, challenge, links, sessions, history>>

(* Mutant: an account of that handle is taken for the person's own.        *)
LoginTakenOver(r) == account[r.proof] # None

(* The handle or the identity of a new account has been taken meanwhile.   *)
LoginTaken(r) == r.user \in users \/ account[r.proof] # None

(* User, identity and session in one transaction.                          *)
CommitLogin(t) ==
  LET r == request[t] IN
  /\ r.op = "login"
  /\ IF r.found = None /\ LoginTaken(r) THEN Fail(t)
     ELSE /\ users' = users \cup {r.user}
          /\ account' = [account EXCEPT ![r.proof] = IF r.found = None THEN r.user ELSE @]
          /\ held' = IF r.found = None
                     THEN [held EXCEPT ![r.proof] = @ \cup {r.user}] ELSE held
          /\ sessions' = sessions \cup {[user |-> r.user, via |-> r.proof]}
          /\ Commit(t)
          /\ UNCHANGED <<owner, count, agents, device, challenge, links, enrolled,
                         spent, asked, answers, broken>>

-----------------------------------------------------------------------------
(* Agent tokens and signing keys                                           *)

(* create_agent_token and register_signing_key, for the caller.            *)
Create(u, a) ==
  /\ Caller(u) /\ agents[a].user = None
  /\ agents' = [agents EXCEPT ![a] = [user |-> u, live |-> TRUE]]
  /\ AtOnce
  /\ UNCHANGED <<users, owner, count, account, device, challenge, links, sessions, history>>

(* The WHERE of revoke_owned_auth_token, and the check of a signing key.   *)
RevocableBy(u, a) == agents[a] = [user |-> u, live |-> TRUE]

Revoked(a) ==
  /\ agents' = [agents EXCEPT ![a].live = FALSE]
  /\ answers' = [answers EXCEPT ![a] = @ + 1]
  /\ UNCHANGED <<users, owner, count, account, device, challenge, links, sessions,
                 enrolled, spent, held, asked, broken>>

(* revoke_agent_token: one conditional statement.                          *)
RevokeAgentToken(u, a) ==
  /\ Caller(u) /\ RevocableBy(u, a)
  /\ AtOnce /\ Revoked(a)

(* revoke_signing_key: a check, then an unconditional update.              *)
BeginRevokeKey(t, u, k) ==
  /\ Caller(u) /\ RevocableBy(u, k)
  /\ Begin(t, [Idle EXCEPT !.op = "revoke", !.user = u, !.proof = k])
  /\ UNCHANGED <<tables, device, challenge, links, sessions, history>>

CommitRevokeKey(t) ==
  /\ request[t].op = "revoke"
  /\ Commit(t) /\ Revoked(request[t].proof)

-----------------------------------------------------------------------------
(* Time passes: a session, a challenge or a link state is too old.         *)
Expire ==
  /\ Counted
  /\ \/ \E s \in sessions : sessions' = sessions \ {s} /\ UNCHANGED <<challenge, links>>
     \/ \E c \in Challenges :
          challenge[c].status = "live" /\ Deleted(c) /\ UNCHANGED <<sessions, links>>
     \/ \E l \in links : links' = links \ {l} /\ UNCHANGED <<sessions, challenge>>
  /\ UNCHANGED <<tables, device, request, history, raced>>

Passkey(t) ==
  \/ \E u \in Handles :
       \/ \E by \in users \cup {None} : BeginOptions(t, u, by)
       \/ \E c \in Challenges :
            BeginAssert(t, u, c) \/ \E p \in Passkeys : BeginEnrol(t, u, c, p)
  \/ CreateUser(t) \/ CheckOwner(t) \/ CommitEnrol(t) \/ CommitAssert(t)
  \/ \E c \in Challenges : IssueRegistration(t, c)

OAuth(t) ==
  \/ \E i \in Identities : BeginLogin(t, i) \/ \E u \in users : BeginLink(t, u, i)
  \/ CommitLink(t) \/ CommitLogin(t)

Next ==
  \/ \E t \in Threads : Passkey(t) \/ OAuth(t)
  \/ \E t \in Threads, u \in users, k \in SigningKeys : BeginRevokeKey(t, u, k)
  \/ \E t \in Threads : CommitRevokeKey(t)
  \/ \E u \in users, c \in Challenges, p \in Passkeys : LoginOptions(u, c, p)
  \/ \E u \in users : \E pr \in {Provider[i] : i \in Identities} : BeginLinking(u, pr)
  \/ \E u \in users, a \in Revocable : Create(u, a)
  \/ \E u \in users, a \in AgentTokens : RevokeAgentToken(u, a)
  \/ Expire

Spec == Init /\ [][Next]_vars

-----------------------------------------------------------------------------
(* Type correctness, with the references between rows.                     *)
TypeOK ==
  /\ users \subseteq Handles
  /\ owner \in [Passkeys -> users \cup {None}]
  /\ account \in [Identities -> users \cup {None}]
  /\ count \in [Passkeys -> Nat] /\ device \in [Passkeys -> Nat]
  /\ \A c \in Challenges :
       /\ challenge[c].status \in {"unused", "live", "gone"}
       /\ challenge[c].status # "unused" => challenge[c].user \in users
  /\ \A s \in sessions : s.user \in users /\ s.via \in Passkeys \cup Identities
  /\ \A a \in Revocable : agents[a].user \in users \cup {None}
  /\ \A t \in Threads :
       request[t].op \in {"idle", "create", "check", "issue", "enrol", "assert",
                          "link", "login", "revoke"}
  /\ broken \subseteq {"enrol", "link"}

(* Every live session was opened with something that proved the account:   *)
(* a passkey of that very user, or an identity bound to the user at some   *)
(* time, however the bindings were moved while the login was in flight.    *)
SessionsAreBacked ==
  \A s \in sessions :
    IF s.via \in Passkeys THEN owner[s.via] = s.user ELSE s.user \in held[s.via]

(* A passkey was enrolled with a registration challenge of its own user,   *)
(* whose options were asked for by the user or while the account was open; *)
(* the two requests in between may be any time and any other request apart.*)
EnrolmentsAreGranted ==
  \A p \in Passkeys : owner[p] # None =>
    LET c == challenge[enrolled[p]] IN
    c.purpose = "registration" /\ c.user = owner[p] /\ c.ground

(* A challenge is answered with success once; only two answers in flight   *)
(* together can both be accepted, since the deletion is not checked.       *)
ChallengesServeOnce == \A c \in Challenges : spent[c] <= 1 \/ c \in raced

(* An account has one identity of a provider, unless two links to it were  *)
(* in flight together: no unique index stands behind the check.            *)
OneIdentityPerProvider ==
  \A i, j \in Identities :
    account[i] # None /\ account[i] = account[j] /\ Provider[i] = Provider[j]
      => i = j \/ account[i] \in raced

(* A token is revoked with success once, whoever asks at the same time; a  *)
(* signing key too, unless two revocations of it were in flight together.  *)
RevocationsAnswerOnce == \A a \in Revocable : answers[a] <= 1 \/ a \in raced

(* What no index guards is done once all the same, and where two requests  *)
(* in flight together can do it twice, the race is one of those named.     *)
OnceUnlessRaced ==
  ChallengesServeOnce /\ OneIdentityPerProvider /\ RevocationsAnswerOnce

(* An identity is bound only to the user created with it in the same       *)
(* commit, or to one who began that link with a session of their own.      *)
BoundByItsUser ==
  [][ \A i \in Identities : account'[i] # account[i] =>
        \/ account'[i] \notin users
        \/ <<account'[i], Provider[i]>> \in asked ]_vars

(* A link takes an identity from an account only if it was all that opened *)
(* the account, unless a commit came between the check and the move.       *)
MovesLeaveNoOwner ==
  [][ \A i \in Identities, u \in Handles :
        account[i] = u /\ account'[i] # u => Open(u)' \/ i \in raced' ]_vars

(* The handlers answer: no request ends in a TypeError.                    *)
HandlersAnswer == broken = {}

=============================================================================
