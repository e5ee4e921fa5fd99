---------------------------- MODULE UserAccounts ----------------------------
(***************************************************************************)
(* The local identity store and the handlers that write it: `login` with   *)
(* its failure counter and lockout (server_app/server_app.py), the         *)
(* SUPERADMIN section (server_sections/users_section.py) and the file      *)
(* store under both (auth/user_store.py).                                  *)
(*                                                                         *)
(* Every handler here is a plain `def`: it runs on a pool thread, and two  *)
(* of them overlap.  None holds a lock: each reads a whole record, works   *)
(* (a scrypt hash takes tens of milliseconds) and writes the whole record  *)
(* back.  So each handler is two or three actions, one for every read or   *)
(* write of the store.  One read and one write of the file are atomic.     *)
(*                                                                         *)
(* `since`, `overlapped` and `failures` are history: no action reads them. *)
(***************************************************************************)
EXTENDS Integers

CONSTANTS
  Identities,   \* record keys
  Tasks,        \* pool threads that run the handlers
  Passwords,    \* plain passwords; a record keeps the one its hash matches
  Bodies,       \* bodies the admin section receives: functions from field names
  MaxAttempts,  \* login(max_attempts=)
  Backoff,      \* login(backoff=), in ticks
  MaxNow, MaxCalls, MaxCrashes,   \* bounds of the instance
  None

ASSUME PolicyAssumption ==
  MaxAttempts \in Nat \ {0} /\ Backoff \in Nat \ {0}

\* The fields of a body that the section or login tells apart: the counter too,
\* which the section merges like any other field.
ASSUME BodiesAssumption ==
  \A b \in Bodies :
    /\ DOMAIN b \subseteq {"enabled", "password", "confirm", "failed", "last"}
    /\ "enabled" \in DOMAIN b => b["enabled"] \in BOOLEAN
    /\ "password" \in DOMAIN b => b["password"] \in Passwords
    /\ "failed" \in DOMAIN b => b["failed"] \in Nat
    /\ "last" \in DOMAIN b => b["last"] \in Nat

ASSUME BoundsAssumption == {MaxNow, MaxCalls, MaxCrashes} \subseteq Nat

VARIABLES
  store,        \* the record of each identity, or None
  clock,          \* the clock
  task,         \* what each thread is doing
  since,        \* the records its identity has held since a task read it
  overlapped,   \* identities two calls were ever at together
  failures,     \* refused passwords in a row, as the callers were told, on top
                \* of the count an operator last set
  calls, crashes

accountVars == <<store, clock, task, since, overlapped, failures, calls, crashes>>

Records == [pw: Passwords, enabled: BOOLEAN, failed: Nat, last: Nat]
ASSUME NoneAssumption == None \notin Passwords \cup Records

NoCall == [op |-> "idle"]
Busy(t) == task[t] # NoCall

\* _lock_seconds_remaining.
Window(r) ==
  IF r.failed < MaxAttempts THEN 0 ELSE Backoff * 2 ^ (r.failed - MaxAttempts)
Locked(r) == r # None /\ r.failed >= MaxAttempts /\ r.last + Window(r) > clock

\* Mutant of Verify: a disabled user passes.
VerifyIgnoringEnabled(r, pw) == IF r # None /\ r.pw = pw THEN r ELSE None

\* UserStore.verify: the record when the user is enabled and the password matches.
Verify(r, pw) == IF r # None /\ r.enabled /\ r.pw = pw THEN r ELSE None

\* metadata_of and matched_password of the users section.
MetadataOf(body) == [f \in DOMAIN body \ {"password", "confirm"} |-> body[f]]
MatchedPassword(body) ==
  IF {"password", "confirm"} \subseteq DOMAIN body /\ body.password = body.confirm
  THEN body.password ELSE None
Update(r, fields) == [f \in DOMAIN r |-> IF f \in DOMAIN fields THEN fields[f] ELSE r[f]]

(***************************************************************************)
(* One read begins a call, one write ends it.                              *)
(***************************************************************************)
Others(t, i) == {u \in Tasks \ {t} : Busy(u) /\ task[u].who = i}

Begins(t, i, doing) ==
  /\ ~Busy(t) /\ calls < MaxCalls
  /\ task' = [task EXCEPT ![t] = doing]
  /\ since' = [since EXCEPT ![t] = {store[i]}]
  /\ overlapped' = IF Others(t, i) = {} THEN overlapped ELSE overlapped \cup {i}
  /\ calls' = calls + 1
  /\ UNCHANGED <<store, clock, failures, crashes>>

\* FileUserStore.save and delete, and the end of the call: the record of the
\* task's identity becomes `record`, and `inARow` failures have been told or set.
Ends(t, record, inARow) ==
  LET i == task[t].who IN
  /\ store' = [store EXCEPT ![i] = record]
  /\ since' = [u \in Tasks |-> IF u = t THEN {}
                               ELSE IF u \in Others(t, i) THEN since[u] \cup {record}
                               ELSE since[u]]
  /\ failures' = [failures EXCEPT ![i] = inARow]
  /\ task' = [task EXCEPT ![t] = NoCall]
  /\ UNCHANGED <<clock, overlapped, calls, crashes>>

Leaves(t) == Ends(t, store[task[t].who], failures[task[t].who])

(***************************************************************************)
(* login                                                                   *)
(***************************************************************************)
\* The first read, with the lock judged on it: a refused attempt writes nothing.
LoginReads(t) ==
  \E i \in Identities, pw \in Passwords :
    /\ ~Locked(store[i])
    /\ Begins(t, i, [op |-> "login", who |-> i, seen |-> store[i], pw |-> pw,
                     found |-> None, step |-> "reads"])

\* verify reads the record a second time and hashes the password: what it
\* decides on is `found`, what a refusal will write back is `seen`.
LoginVerifies(t) ==
  /\ task[t].op = "login" /\ task[t].step = "reads"
  /\ task' = [task EXCEPT ![t].found = Verify(store[task[t].who], task[t].pw),
                          ![t].step = "verified"]
  /\ UNCHANGED <<store, clock, since, overlapped, failures, calls, crashes>>

Verified(t) == task[t].op = "login" /\ task[t].step = "verified"

\* A refused password is counted on the record of the first read.
LoginFails(t) ==
  /\ Verified(t) /\ task[t].found = None
  /\ IF task[t].seen = None THEN Leaves(t)
     ELSE Ends(t, Update(task[t].seen, [failed |-> task[t].seen.failed + 1, last |-> clock]),
               failures[task[t].who] + 1)

\* Mutant of LoginSucceeds: the counter outlives a success.
LoginSucceedsUncounted(t) ==
  /\ Verified(t) /\ task[t].found # None
  /\ Ends(t, store[task[t].who], 0)

\* A success writes only when there is a counter to reset.
LoginSucceeds(t) ==
  /\ Verified(t) /\ task[t].found # None
  /\ IF task[t].found.failed = 0 THEN Ends(t, store[task[t].who], 0)
     ELSE Ends(t, Update(task[t].found, [failed |-> 0, last |-> 0]), 0)

(***************************************************************************)
(* The users section                                                       *)
(***************************************************************************)

AdminReads(t) ==
  \E i \in Identities, b \in Bodies, op \in {"create_user", "save", "set_password"} :
    /\ op = "create_user" <=> store[i] = None
    /\ op # "save" => MatchedPassword(b) # None
    /\ Begins(t, i, [op |-> op, who |-> i, seen |-> store[i], body |-> b])

\* The count a body sets, or the one there was.
CountOf(body, before) == IF "failed" \in DOMAIN body THEN body["failed"] ELSE before

\* create_user: enabled and with no counter, unless the body says otherwise.
CreateUser(t) ==
  /\ task[t].op = "create_user"
  /\ Ends(t, Update([pw |-> MatchedPassword(task[t].body), enabled |-> TRUE,
                     failed |-> 0, last |-> 0], MetadataOf(task[t].body)),
          CountOf(task[t].body, 0))

Save(t) ==
  /\ task[t].op = "save"
  /\ Ends(t, Update(task[t].seen, MetadataOf(task[t].body)),
          CountOf(task[t].body, failures[task[t].who]))

\* Mutant of SetPassword: the record is built anew.
SetPasswordAnew(t) ==
  /\ task[t].op = "set_password"
  /\ Ends(t, [pw |-> MatchedPassword(task[t].body), enabled |-> TRUE, failed |-> 0, last |-> 0],
          failures[task[t].who])

SetPassword(t) ==
  /\ task[t].op = "set_password"
  /\ Ends(t, Update(task[t].seen, [pw |-> MatchedPassword(task[t].body)]),
          failures[task[t].who])

\* delete reads nothing it keeps: one action.
DeleteReads(t) ==
  \E i \in Identities :
    store[i] # None /\ Begins(t, i, [op |-> "delete", who |-> i, seen |-> store[i]])
Delete(t) == task[t].op = "delete" /\ Ends(t, None, 0)

(***************************************************************************)
(* The clock, and a crash of the process: the files stay, the calls do not *)
(***************************************************************************)
Tick ==
  /\ clock < MaxNow /\ clock' = clock + 1
  /\ UNCHANGED <<store, task, since, overlapped, failures, calls, crashes>>

Crash ==
  /\ crashes < MaxCrashes /\ crashes' = crashes + 1
  /\ \E t \in Tasks : Busy(t)
  /\ task' = [t \in Tasks |-> NoCall] /\ since' = [t \in Tasks |-> {}]
  /\ UNCHANGED <<store, clock, overlapped, failures, calls>>

AccountsInit ==
  /\ store \in [Identities -> {None} \cup [pw: Passwords, enabled: BOOLEAN, failed: {0}, last: {0}]]
  /\ clock = 0 /\ calls = 0 /\ crashes = 0
  /\ task = [t \in Tasks |-> NoCall] /\ since = [t \in Tasks |-> {}]
  /\ overlapped = {} /\ failures = [i \in Identities |-> 0]

AccountsNext ==
  \/ \E t \in Tasks :
       \/ LoginReads(t) \/ LoginVerifies(t) \/ LoginFails(t) \/ LoginSucceeds(t)
       \/ AdminReads(t) \/ CreateUser(t) \/ Save(t) \/ SetPassword(t)
       \/ DeleteReads(t) \/ Delete(t)
  \/ Tick
  \/ Crash

AccountsSpec == AccountsInit /\ [][AccountsNext]_accountVars

-----------------------------------------------------------------------------
(***************************************************************************)
(* Properties                                                              *)
(***************************************************************************)
\* Every variable stays in its type, and `since` follows exactly the calls in
\* progress.
AccountsTypeOK ==
  /\ store \in [Identities -> {None} \cup Records]
  /\ clock \in 0..MaxNow /\ calls \in 0..MaxCalls /\ crashes \in 0..MaxCrashes
  /\ overlapped \subseteq Identities /\ failures \in [Identities -> Nat]
  /\ \A t \in Tasks :
       /\ Busy(t) => /\ task[t].who \in Identities
                     /\ {task[t].seen, store[task[t].who]} \subseteq since[t]
       /\ ~Busy(t) => since[t] = {}

\* While no two calls were ever at an identity together the lockout is exact:
\* the counter on the record is the number of refusals told since the last
\* success, or on top of what an operator has set since, a restart included, and
\* no password is checked while the identity is locked, by refusals or by an
\* operator (login, _lock_seconds_remaining).
LockoutHolds ==
  \A i \in Identities \ overlapped :
    /\ store[i] # None => store[i].failed = failures[i]
    /\ \A t \in Tasks : task[t].op = "login" /\ task[t].who = i => ~Locked(store[i])

\* With the type of every variable.
AccountsHold == AccountsTypeOK /\ LockoutHolds

\* login answers with an identity only when, at some moment of that call, the
\* store held an enabled record with that password: a disabled, deleted or
\* re-keyed user is never let in by a call that began afterwards.
AuthenticatedWasValid ==
  [][\A t \in Tasks :
       Verified(t) /\ task[t].found # None /\ task'[t] = NoCall /\ crashes' = crashes
         => \E r \in since[t] : r # None /\ r.enabled /\ r.pw = task[t].pw]_accountVars

OwnFields(t) ==
  CASE task[t].op = "login" -> {"failed", "last"}
    [] task[t].op = "save" -> DOMAIN MetadataOf(task[t].body)
    [] task[t].op = "set_password" -> {"pw"}
    [] OTHER -> {"pw", "enabled", "failed", "last"}

\* A handler whose record nobody else wrote meanwhile changes only the fields
\* it owns, and neither removes nor revives a record unless that is its
\* operation: an undone password change, disable or delete takes an overlap.
LostUpdateNeedsOverlap ==
  [][\A i \in Identities : store'[i] # store[i] =>
       \E t \in Tasks :
         /\ Busy(t) /\ task'[t] = NoCall /\ task[t].who = i
         /\ \/ since[t] # {store[i]}
            \/ task[t].op = "create_user" /\ store[i] = None
            \/ task[t].op = "delete" /\ store'[i] = None
            \/ /\ None \notin {store[i], store'[i]}
               /\ \A f \in DOMAIN store[i] \ OwnFields(t) : store'[i][f] = store[i][f]]_accountVars

\* What the docstring of login promises of every execution: after max_attempts
\* refusals in a row the record says so.
CounterKeepsUp ==
  \A i \in Identities :
    store[i] # None /\ failures[i] >= MaxAttempts => store[i].failed >= MaxAttempts
=============================================================================
