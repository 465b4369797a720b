# DockerView in TLA+

Specifications of the DockerView backend (`src/backend`): who may sign in, who
may touch which container, how a shell in a container is opened and closed, how
a request travels to Docker, what is recorded, and how abuse is throttled.
`PROJECT.json` lists components, runs, mutants, hazards, findings and theorems, and
maps every definition to the lines it models.

## 1. The system

Two Go processes and a browser application. The **Server** (`cmd/server`) serves
the API and the pages, keeps one SQLite database and talks to the **Gateway**
(`cmd/gateway`), the only process with access to the Docker socket, over a
network of their own. Host commands (`bootstrap`, `reset-password`) open the same
database from a third process.

| component | state | operations | hard behaviour |
|---|---|---|---|
| accounts and sessions (`database.go`, `server.go`, `recovery.go`) | users, user_roles, sessions | login, logout, create/update user, revoke sessions, bootstrap, password recovery | handlers run several statements; other handlers and the host commands run in between; restarts |
| roles and permissions (`SaveRole`, `DeleteRole`, `seed`) | roles, role_permissions | create, edit, delete a role, seed on every `Open` | three separate statements per save, a failure or a cancelled request after the first |
| authorization (`policies.go`, `rbac.go`, `authorizeResource`) | policies, policy_rules and the tables above | decide a request on a container | user, policies and the rules of each policy are read in separate statements while administrators change them |
| login throttle, rate limiter (`ratelimit.go`) | in-memory maps | blocked, failed, clear, prune; allow | password verification between test and count, the borders of windows, maps at their capacity |
| exec tickets (`gateway/handler.go`) | in-memory map with expiry and flag | createExec, attach, cleanupTickets | two redemptions of a ticket, redemption against expiry and clean-up, a container name given to another container between check and use |
| terminal sessions (`createTerminal`, `terminalWS`) | terminal_sessions, sockets, three goroutines per connection | create, connect, copy, watchdog, end | two browsers on one terminal, disconnects at any moment, sign-out and denial during a session, a crash of the server |
| Gateway's end of a shell (`attach`) | a handler, a reader goroutine, the connection to the exec | attach, copy, close | the shell exits and nobody tells the Server; a write or a call to Docker that never returns; either process dies |
| restart, stats, logs, live logs | a request's progress in both processes, a copying goroutine, a pipe | call, time out, record, copy, cancel | Docker hangs, the client gives up first, the browser leaves, streams that never say anything |
| settings (`config.go`, `EnsureSettings`, `updateSettings`) and the masking of secrets | settings, the configuration of the process | load, ensure, update, read | unchecked values, restarts with another environment, a start that dies half-way |
| audit trail, timestamps | audit_events, columns of RFC3339Nano texts | append, trim; compare | insert and trim are separate statements; the order of the texts is not the order of time |
| HTTP plumbing, static files, browser pages | | | not modelled, see section 7 |

Interactions. Every handler goes through `requireSession` (Accounts) and
`requirePermission`; container handlers add `authorizeResource` (Authorize),
which reads what RoleStore and the policy handlers write. `createTerminal` makes
a row; `terminalWS` asks the Gateway for a ticket, upgrades the browser's
request, exchanges the ticket for a shell and copies messages both ways while
its watchdog repeats the checks of Accounts and Authorize every five seconds.
The other container handlers pass one request through to the Gateway and Docker.
Most handlers end with an event in the audit trail.

What makes it correct, per component:

* accounts: an enabled administrator always remains; a reset ends the sessions;
  what was refused stays refused;
* roles: built-in names are kept; deleting a role leaves nothing of it; edits last;
* authorization: a denial wins although the tables are read piecemeal; on
  quiet tables the decision is the documented rule;
* throttles: attempts per period are bounded, a refusal neither grows nor shrinks
  the period it belongs to;
* tickets: single use, bounded life and bounded map, no shell in a guarded container (for names, see section 6);
* terminals: no blocked goroutine, no shared shell, an end for every reason to
  end, recorded once, with everything released in both processes;
* operations: a recorded success is real, a restart does not go unrecorded,
  nothing of a stream stays behind;
* settings: what an administrator saved governs; limits hold for unchecked values;
  secrets go to the entitled only;
* audit trail and expiry: bounded, and right up to one second.

## 2. Modules

| module | models | proofs |
|---|---|---|
| `Accounts` | accounts, sessions, login, administration, host commands | `AccountsProofs` |
| `Authorize` | the decision on a request and the changes of what it reads | `AuthorizeProofs` |
| `RoleStore` | roles, permissions, seeding, the audit event of a role change | `RoleStoreProofs` |
| `TicketOffice` | abstract: single-use tickets | `GatewayProofs` (as what `Gateway` implements) |
| `Gateway` | the ticket map with time; implements `TicketOffice` | `GatewayProofs` |
| `Terminal` | terminal sessions in the Server; uses `TicketOffice` as its Gateway | `TerminalProofs` |
| `ShellSession` | `Terminal` composed with the Gateway's `attach`, its reader, the shell and the user | `TerminalProofs` |
| `Operations` | restart, stats, logs, live logs: Server, Gateway, copying goroutine, Docker | `OperationsProofs` |
| `Settings` | environment, table, readers; the inspection of a container | `OperationsProofs` |
| `Timestamps` | RFC3339Nano texts and their comparison | `AuditTrailProofs` |
| `AuditTrail` | insertion and retention of events, expiry of sessions and terminals, on `Timestamps` | `AuditTrailProofs` |
| `LoginThrottle`, `Limiter` | `ratelimit.go`, on `Clock` | `RateLimitsProofs` |

`MC*.tla` and `*.cfg` are the instances for TLC. `TicketOffice` joins Gateway and
Terminal: Gateway is shown to implement it, and Terminal's handlers take its
actions for the calls of `GatewayClient`. `ShellSession` extends `Terminal` and
replaces the peer that closes at will, and the messages that come from nowhere, by
the Gateway's handler and the shell. `MCClock` and `MCOperations` each hold
three modules that share no state (at most the clock): a behaviour exercises one of
them, chosen at the start. The proofs are about each module's own specification
(`RoleSpec`, `SettingsSpec`, `OperationsSpec`, `LimiterSpec`, `LoginSpec`,
`TrailSpec`), of which such a run is an instance.

**Steps.** The store has one SQLite connection (`SetMaxOpenConns(1)`), so a
statement, or a transaction, is one step; between two statements of a handler
anything else may happen. In memory, a section under a mutex is one step. A
request is a process with a `pc`; an error answer is a step that ends it.

**Abstractions.**

* A password hash is a version number. `HashPassword` draws a salt, so a new hash
  is a value that did not occur before. A session row carries the version its
  login verified and the version stored when it was inserted; both are history.
* A rule of a policy carries the set of containers its pattern or label matches.
  A container is its id; `Gateway` keeps the difference between id and name.
* Session expiry in `Accounts` is what the comparison of the texts says: valid, cut
  off while the clock is in the very second of `expires_at` (and then perhaps valid
  again), or past. That the second is the whole extent of the confusion is what
  `ExpiryWithinSecond` shows on `Timestamps`. The idle time is a flag in `Terminal`.
  `Gateway`, `LoginThrottle`, `Limiter` and `AuditTrail` have clocks, which do not go
  backwards.
* A timestamp is the sequence of the codes of its characters; date, hour, minute
  and second have a fixed width and are one leading code. Radix and number of the
  fraction's digits are constants.
* A text of a setting is the number it denotes, or `Junk`. `instance_name` and
  `environment` are only displayed and left out. The event of a settings update is
  an event of `AuditTrail` like any other.
* In `Operations` data has no content: a chunk is somewhere on its way. The request
  has passed `authorizeResource`. There is one, since requests share nothing.
  The closing of a connection and the cancellation of the context at its other end
  are the same fact, `Cancelled`, which each part notices in a step of its own.
* In `ShellSession` output of the shell is written and read in one step (both ends
  have a deadline of 10 s). The user's messages wait in the socket to the Gateway,
  which holds `Backlog` of them, while `attach` writes to the exec or calls Docker:
  these have no deadline and return or not. When the socket is full the Server's
  write fails at its deadline.
* `granted` of the Limiter, a history, holds for each instant the calls allowed up to
  it, so that the calls of a span are a difference.
* In `Terminal` the login is `signedIn`, the decision of `Evaluate` is `allowed`.
  A call to the Gateway may take effect and its answer be lost.

**Assumptions.** A SQL statement whose context is alive succeeds or fails as its
constraints say (disk failures are left out); where the code ignores the error
of `TouchTerminal` or of the audit insert, the statement is taken to succeed
unless its request was cancelled. (`AuditTrail`, `Operations` and `Settings` are
about the audit insert and let it fail.) Labels of a container do not change: Docker
fixes them at creation. `Evaluate` compares `subject_role_id` with role ids and
with role names; a role named like the id of another role is left out. The
description of a role is not modelled.

## 3. Runs

| run | question and answer | instance |
|---|---|---|
| `accounts` | Is an enabled administrator always left, does a reset end sessions, is a refusal final? Yes, a refusal by expiry once its second is over. How many sessions can outlive a reset through the gap between `Authenticate` and `CreateSession`? At most one per request in flight at the reset. | 2 requests; 2 users, 2 sessions, 2 roles, 2 hashes, or 1 user, 3 sessions, 4 hashes without expiry (`BoundedSpec` of `MCAccounts`) |
| `authorize` | Does a denial win over a piecemeal read, and is the decision the rule? Yes, for a policy that denies throughout. | 2 roles, 2 policies, 2 containers, 3 rule sets |
| `gateway` | Does the map implement single use; does it stay bounded; is no good ticket dropped? Yes. | 3 tickets, 2 calls, 2 containers, time 0..2 |
| `terminal` | Do goroutines block, are rows, shells and events consistent with two browsers on one terminal and a crash? Consistent. | 1 terminal, 2 connections, 2 tickets |
| `shell_session` | Do the loss of the login or of the permission, idleness, disconnects and the exit of the shell end the terminal, and is everything released in both processes? Yes, unless `attach` is in a call that Docker or the shell does not let return; the exit of a shell is noticed through the idle timeout only. | 1 connection with its shell and user, `Backlog` 1 |
| `clock` | How many wrong passwords between two cooldowns? At most the limit less one, plus the logins in flight when the first began. How many calls in any window's length? `2 * Calls - 1`. Do retries move a cooldown or a window? No. What does prune leave above the capacity? Young keys and running cooldowns. How wrong is expiry by text, how far may the trail exceed its limit, does it keep the newest? Less than a second; by inserts no trim has followed; up to a second. | 2 keys, 3 requests, limit 3; 2 users, 2 calls, window 2; 4 events, 2 writers, limit 2, 1 grant, two binary digits (a second is 4); time 1..7 |
| `operations` | Do the statements of concurrent saves and deletions of roles keep built-in names and leave no orphan permission, and is a permission lost through requests only? Yes. Do saved settings govern, do limits and masking hold; is a recorded restart real, is every restart recorded, are streams released when Docker hangs? Yes. | 2 roles, 2 names, 2 permissions, 2 requests; 4 durations, 3 numbers and junk; one request of any of the four kinds |
| `terminal_reopen`, `role_store_audit`, `role_store_seed`, `gateway_names`, `shell_session_hang` | five statements of the docs that the code does not keep, see section 6 | as `terminal`, the roles of `operations`, `gateway` and `shell_session` |

**Why the bounds are enough.** Two requests are what the races need: one holds a
value it read, the other changes it; the third login of `clock` lets two
late failures follow the one that starts a cooldown. A second user is the other
administrator of a mutual demotion. `MaxHash` 2 gives one reset after creation, 4
gives resets between resets. Three tickets let one be redeemed, one expire and
one be issued, which triggers clean-up. `TTL` 1 and `MaxTime` 2 contain the instants
before, at and after expiry. The limiter's clock covers three windows, and
`Capacity` 1 with two keys brings sweep and prune to work. `MaxCount` caps a
counter of the limiter above `Calls`, where its value no longer matters. Two binary
digits give a fraction of none, one and two digits, and seven instants nearly two
seconds: every case of the text comparison. Four events over a limit of two let
trims delete while another event is on its way. The durations are one that is not
positive, one too short and two good ones; the numbers one out of range and two
good ones. A `Backlog` of 1 has the socket empty and full, with `attach` busy or
not. Goroutines
of different connections share only the row, so one connection is enough for
liveness, and two for the row. Requests, sessions, keys, tickets, connections and
users are interchangeable: symmetry is used in runs without liveness properties
(in `clock` for events and writers only).

**Deadlock** is checked in every run but these: in `clock` the events of the
trail and the time are used up in the end, in `operations` the one request is.

**Fairness.** `shell_session`, `shell_session_hang`: the Go scheduler
runs a goroutine that can run; a closed socket makes `Read` and `ReadMessage` return;
the ticker fires every five seconds and the check has a context of four; the exit
of the shell ends a write to it; with nobody sending, the idle time is reached: weak
fairness for these steps, one condition per goroutine. `select` picks a ready case at
random, so the closed `watchdogStop` is taken in the end although ticks keep coming:
strong fairness for that one. Docker need not answer an attach or a resize (`attach`
has no deadline, and its context does not end with a hijacked connection), a running
shell need neither read nor write. `operations`:
weak fairness for the steps of the Server's handler, of the Gateway's handler and
of the goroutine, each as a whole; and for the end of a read whose context is
cancelled, since the transport ends it even if data keeps coming. Docker, the
browser, users and administrators are not obliged to act, and no process is obliged
to survive. (The timer of 15 seconds is a step of the Server.)

**Mutants.** For each property `PROJECT.json` names a mutant of a definition: an
operator beside it that changes it as a bug in the code would (a dropped guard, an
off-by-one, a missing reset). With the mutant in place TLC finds the property
violated.

## 4. What the properties say

*Accounts.* `LastAdmin` is the rule behind `ErrLastAdmin`: `UpdateUser` counts and
writes in one transaction, so two administrators who demote each other cannot both
succeed. `ResetEndsSessions`: a live row was inserted after the last reset.
It speaks of rows, on purpose: a login that verified the old password before the
reset and inserts its session after it gets a live session. `StaleLoginsBounded`
says how far that goes. `RefusalIsFinal`: a session refused because its user is
disabled works again when the user is enabled (disabling does not revoke), and one
refused in the very second of its `expires_at` may be accepted again before that
second is over, because texts are compared; nothing else brings a session back.

*Authorize.* `StandingDenyWins` follows a policy from the load of the user to the
decision. What it does not say is as important: a denial moved from one policy to
another between the reads of their rules, or a deny rule that goes away with its
role while the request still carries the role's permissions, may be missed.
`DecisionIsCurrent`: without such changes the pieces fit together.

*RoleStore.* `BuiltinKept`, `NoOrphanPermissions`: the check, the update and the
replacement of permissions are separate statements, and a deletion fits between
any two; the foreign key and the `builtin` flag, not the check, carry the rules.
`AdditionsLast`: `seed` runs on every `Open`, and takes nothing away: a permission is
lost through a request on its role only. A removal does not last (`EditsLast`,
section 6).

*Gateway.* `ImplementsOffice`: flag, expiry, clean-up and restart together give
single-use tickets. `MapSpansOneTTL`: only `createExec` cleans the map, yet at any
time all its entries were issued within one time to live of each other.
`KeptUntilExpiry`: clean-up and `attach` agree on the instant of expiry.
`GuardedNeverEntered` is not kept for names (section 6).

*Terminal, ShellSession.* `SendNeverBlocks`: the buffer of three has room for
everyone although the handler receives once. `AttachedIsLive`: an attached row has
a connection that will end it. `OwnShell`: connections never share a ticket.
`EndRecordedOnce`, `AccessLossEnds`, `IdleEnds`, `DisconnectEnds`: every reason to
end ends it, with one event. `AccessLossEnds` is stated for each of the two checks:
they are separate reads, so a login and a grant that alternate, never there together,
can keep a terminal open. `AllReleased`: nothing stays behind in either process,
whichever dies, with the one exception it names (section 6). `ShellExitEnds`: the Gateway's reader ends with the shell but tells
nobody, and its handler waits for the Server; only the idle watchdog ends a
terminal whose shell has exited, so until then it stays attached.

*LoginThrottle, Limiter.* `GuessesBounded`, `BurstBounded` are exact bounds,
`CooldownFixed`, `WindowFixed` say that retries neither prolong nor shorten a period.
`AboveCapacityIsYoung` is what prune guarantees: the map has no bound on its size,
but above its capacity it holds keys of one retention period only.

*Settings.* `SavedTakesPrecedence`: any number of starts, with any environment and
dying anywhere in `EnsureSettings`, leave a saved value in force. For masking,
`docs/configuration.md` makes the environment an upper bound: masking is off
whenever `DOCKERVIEW_SECRET_MASKING` is false, whatever is saved. `LogTailBounded`:
nobody checks the default tail when it is set, and `ParseBoundedInt` does not check
its fallback, so the Server may ask for any number; the Gateway's own bound is what
holds. `SecretsGuarded`: with masking off, users without `secret.view` still get a
masked document; and as long as neither the environment of any start nor an
administrator has ever switched masking off, an unmasked one takes a reveal. That a
reveal is recorded is not among its promises (section 6).

*Operations.* `SuccessIsReal`: the converse is false, a "failed" event may stand
beside a container Docker restarted after the client gave up. `RestartRecorded`:
the event does not depend on the browser staying; it does depend on the process:
on a signal `main` returns once the listener is closed and does not wait for
handlers. `StreamsReleased`: the chain of cancellations reaches every part although
a quiet container wakes none of them. The event of a live stream is only written
when the first data, or the end, arrives from the Gateway.

*AuditTrail.* `ExpiryWithinSecond`, `RetentionKeepsNewest`: "12:00:00Z" sorts after
"12:00:00.5Z", and the like; the error never reaches a second. `TrailBounded`: what
failures and interleavings may add to the limit, until the next trim.

## 5. Proofs

Proved by TLAPS for every value of the constants that satisfies the named
assumptions of the modules. These say that a parameter is a number of the right
kind, that markers such as `None` are not members of the sets they mark, and that
the sets which are counted are finite (users and requests of `Accounts`, keys and
requests of `LoginThrottle`, writers of `AuditTrail`). `LoginThrottle` also has at
least one request: its bound subtracts the one that starts the cooldown.

Every invariant a passing run checks is stated by a theorem, and so is every action
property and the refinement. Few of them are inductive; what follows is what
each needed and why.

* **AccountsProofs.** `TypeCorrect`, `LastAdminAlways`, `ResetEndsSessionsAlways`,
  `RefusalIsFinalAlways`. The invariant adds `Owned`: a used session row, and a
  request past its login, belong to a user row. Without it `LastAdmin` is not
  inductive, because `CreateUser` on an empty table could make a first user who is
  no administrator. The other half of the argument is about cardinality: when
  `UpdateUser` counts more than one enabled administrator, another one is left.
  `StaleLoginsBoundedAlways` counts too. A login in flight may add a stale session to
  any number of them, so the invariant bounds the sum: the stale sessions of a user
  and the logins that verified a hash replaced since are together at most the
  requests (`StaleOrInFlight`). A reset revokes the sessions and can only turn
  requests into such logins; an insertion moves one from the second to the first.
* **AuthorizeProofs.** `TypeCorrect`, `StandingDenyWinsAlways`,
  `DecisionIsCurrentAlways`. The invariant relates the request's half-read copy
  to the tables: a policy that has denied throughout is stored and enabled, so it
  was listed, and it is either still to be read or was read with a denying rule
  (`StoodDenies`, `StoodSeen`); while nothing changes, what was loaded and what was
  read are what the tables hold (`LoadedCurrent`, `SeenCurrent`).
* **GatewayProofs.** `TypeCorrect`, `MapSpansOneTTLAlways`,
  `KeptUntilExpiryAlways`, and the refinement
  `GatewayImplementsOffice`: the initial states agree, and each step is a step of
  `TicketOffice` or leaves its state alone. The invariant adds `ExpiresSoon`, an
  entry expires at most one time to live from now, without which a new entry could
  be older than the ones it joins, and `InspectedRef`, which types what `CreateExec`
  resolves.
* **AuditTrailProofs.** `TypeCorrect`, `ExpiryError`, `TrailSize`, `RetentionOrder`.
  The core is a lemma on texts: when one is less than another, its instant is less
  than the other's plus a second, because the leading codes are ordered and the
  rest can only matter when they are equal; and two texts of instants a second or
  more apart are ordered as the instants. The invariants say that a stored
  text is that of the instant the history keeps (`StampsTrue`), and that the table
  is finite and within its limit (`SizeOK`); the size argument is about cardinality:
  an insert adds one to the table and one to the calls before their trim, a failed
  trim moves one from there to `loose`. `PowerAssumption` states what the provers
  have to know of `^`; TLC evaluates it.

* **RoleStoreProofs.** `TypeCorrect`, `BuiltinNames`, `NoOrphans`, `SeedingOnlyAdds`.
  The invariant adds `Held`, what a request carries from one statement to the next:
  the role it works on and, for a built-in role, the name it read, which a later
  statement writes back without looking. Without it a save in flight could hold any
  name, and the update would take the built-in one away.
* **TerminalProofs.** `TypeCorrect`, `NeverBlocks`, `AttachedRowsLive`,
  `ShellsNotShared`, `EndRecorded`, and the same four for the composition
  (`ShellKeepsPromises`). The invariant adds four parts. `Reported`: each token in
  `done` comes from one of three goroutines, which has exited since; a goroutine that
  still has to send is not among them, so there is room for its token. `Issued` and
  `Held`: a fresh ticket is nobody's, a ticket is held by one connection, a connection
  with a shell has spent its own; single use comes from `TicketOffice`. `NotYet`: there
  is no shell and no goroutine before the steps that make them. For `ShellSession` the
  proof is a step simulation (`ShellStep`): each of its steps is a step of `Terminal`,
  leaves `Terminal`'s variables alone, or is the death of the Gateway, which
  closes the shells of all connections at once; every lemma of the module is
  proved for that wider `Step`, once.
* **OperationsProofs.** `SavedGoverns`, `TailBounded`, `SecretsKept` of `Settings`: the
  invariant says that a row once saved is stored as it was saved, and that a saved
  timeout is a valid one (`SavedIsStored`), whatever start, crash or environment comes
  in between; that a row or a configuration with masking off has its cause in the
  history `off` (`OffIsKnown`), which no restart takes back; and that a document is
  decided on accordingly before it is shown (`ViewDecided`). `SuccessReal` of `Operations`: the success is followed from
  Docker's restart through the Gateway's answer and the client's result to the event
  (`RealRestart`), each stage having it from the one before, also after a timeout or
  a cancellation.
* **RateLimitsProofs.** `BurstsBounded`, `WindowsFixed` of `Limiter`. The exact bound
  `2 * Calls - 1` needs to know, for each key, where the clock stands relative to its
  bucket. In a window (`Within`) the calls granted since it began are the counted ones,
  one of them at its first instant, and a span reaching back over its border has missed
  the opening call of the window before; after it (`Between`) a span that ends now has
  missed the opening of the last one. A bucket dropped at the capacity was over, so it
  is a case of `Between`. `TypeCorrect`, `GuessingBounded`, `CapacityIsYoung`,
  `CooldownsFixed` of `LoginThrottle`: outside a cooldown the wrong passwords are the
  counted ones plus at most the late ones; during one, they and the logins still being
  verified are together less than the requests (`Guesses`). `Settled` says that a count
  stays below the limit and is zero once a cooldown began, which makes the first
  failure after a cooldown start from the late ones alone.

Only model-checked: the liveness properties `AccessLossEnds`, `IdleEnds`,
`DisconnectEnds`, `AllReleased`, `ShellExitEnds`, `RestartRecorded` and
`StreamsReleased`, since fairness and `ENABLED` are outside the prover. The type
invariants of `ShellSession`, `Operations` and `Settings` document the variables; they
are not among the runs' properties (that of `Settings` is part of its proof).

## 6. Where the docs and the code differ

* `docs/terminal.md` says a closed session cannot be reopened. `TouchTerminal`
  writes "attached" whatever the status has become since `GetTerminal`: with two
  browsers, one reopens what the other has ended, by closing its shell or by
  failing to get one (`terminal_reopen`).
* `docs/audit.md` lists role mutations among the recorded events. `SaveRole`
  inserts or renames the role before its permissions are refused, and the handler
  then returns without an event (`role_store_audit`).
* `docs/authorization.md` says the permission assignments of built-in roles can be
  edited. `seed` inserts the default permissions again on every `Open`: what an
  administrator took from a built-in role is back after the next start or host
  command, without an event (`role_store_seed`).
* `docs/authorization.md` says guarded containers cannot be exec'd. `createExec` checks
  the labels in one call to Docker and creates the exec in another, with the
  parameter of the path, which may be a name: given to another container in between,
  it leads into that one (`gateway_names`). For an id the two calls concern the same
  container.
* `docs/terminal.md` says a disconnect closes both sockets and the attach. While
  `attach` waits for Docker, or writes to a shell that does not read, it does not
  notice the disconnect; its reader and the connection to the exec stay until the
  call returns, which nothing enforces (`shell_session_hang`).
* `docs/security.md` says a reveal creates a `SECRET_REVEAL` event. `audit` only logs an
  insert that fails, and `container` answers with the secrets. No run is needed to see
  this: it is the failing branch of `InspectAudit` in `Settings`, one statement that
  does not depend on what other requests do.

## 7. Not modelled

* Argon2, token generation and constant-time comparison: cryptography.
* `maskInspect`, `SensitiveKey`, `MaskEnv`, `AssessRisk`: functions that match and
  rewrite strings of a document, without state. When they run is in `Settings`.
* `ListAudit`, overview, lists, information: single reads.
* HTTP plumbing, headers, body limits, static files; addresses, paths and secrets of
  the environment: input and output.
* The browser's pages: their requests are the inputs of the modules, and the docs
  promise nothing about the order in which a page applies answers.
* Formatting and wording.

## 8. Plan

The order was: accounts, tickets, terminals, throttles, roles, authorization; then
the Gateway's end of a shell, the audit trail with its timestamps, settings, and the
operations; then the proofs of all safety properties. What is left:

1. That `Terminal` with `Gateway` in place of `TicketOffice` is an instance of what is
   proved follows from `GatewayImplementsOffice` only informally: the two specifications
   could be composed and the step simulation of `TerminalProofs` extended to them.
2. The safety part of the liveness arguments of `ShellSession` and `Operations`: that
   what a waiting part waits for is still on its way, as invariants.
3. Lemmas about `Evaluate` on its own, for example that the order of the policies
   does not matter.
