------------------------------ MODULE IdentityGuard ------------------------------
(***************************************************************************)
(* The identity guard of one account: `auth login`, `auth logout`, the     *)
(* commands that write (each verifies the identity once, at most, and then *)
(* makes many calls, with a wider scope granted on the way) and those that *)
(* only read (they warn).  Several commands may run at once, any may be    *)
(* killed.                                                                 *)
(*                                                                         *)
(* A Google account is one value, for its email and its permissionId.  Of  *)
(* scopes there are two, the wider covers the other.  A call for which no  *)
(* token is stored signs in, and the operator chooses the account; one for *)
(* which the token is revoked fails.                                       *)
(***************************************************************************)
EXTENDS Integers, FiniteSets

CONSTANTS
  Procs,   \* processes
  People,  \* Google accounts
  NoOne    \* no Google account

ASSUME PeopleAssumption == NoOne \notin People

VARIABLES
  toml,     \* the identity in account.toml
  token,    \* google-tokens.json: [Scopes -> who signed in]
  revoked,  \* the tokens in it Google takes no more
  session,  \* google-session.json
  found,    \* whether the files table has what `trash`, `move` and `unshare` act on
  proc,     \* [Procs -> the process' memory]
  \* what happened, for the properties only
  declared, \* whom the operator declared with --email
  crossed,  \* whether somebody signed in or out beside another command
  writes    \* who wrote last, and whom the command had verified, as a set of at most one

vars == <<toml, token, revoked, session, found, proc, declared, crossed, writes>>

Scopes == {"read", "write"}
Whoever == People \cup {NoOne}
Identity == [state : {"unbound", "declared", "bound"}, who : Whoever]
Session == [who : Whoever, scope : Scopes]
NoSession == [who |-> NoOne, scope |-> "read"]
\* Those that act on Drive: "write" are `db remote` and `shared declutter`, "apply" are
\* `trash`, `move` and `unshare` with --apply.
Writers == {"write", "apply"}
Commands == {"login", "logout", "sync"} \cup Writers
Phases == {"idle", "preview", "guard", "replan", "read", "write", "login", "token", "store",
           "bind", "revoke", "unsession", "untoken"}
Memory == [at : Phases, cmd : Commands, toml : Identity, old : Session, scope : Scopes,
           who : Whoever, verified : Whoever]
Idle == [at |-> "idle", cmd |-> "sync", toml |-> [state |-> "unbound", who |-> NoOne],
         old |-> NoSession, scope |-> "read", who |-> NoOne, verified |-> NoOne]

TypeOK ==
  /\ toml \in Identity /\ (toml.state = "unbound" <=> toml.who = NoOne)
  /\ token \in [Scopes -> Whoever]
  /\ revoked \subseteq Scopes /\ session \in Session /\ found \in BOOLEAN
  /\ proc \in [Procs -> Memory]
  /\ declared \in Whoever /\ crossed \in BOOLEAN
  /\ writes \subseteq [who : People, verified : Whoever]

\* A fresh account, or one with the tokens of an adopted install, anybody's.
Init ==
  /\ declared \in Whoever
  /\ toml = [state |-> IF declared = NoOne THEN "unbound" ELSE "declared", who |-> declared]
  /\ \/ token = [s \in Scopes |-> NoOne] /\ session = NoSession
     \/ \E g \in People : /\ token = [s \in Scopes |-> IF s = "read" THEN g ELSE NoOne]
                          /\ session = [who |-> g, scope |-> "read"]
  /\ revoked = {} /\ found \in BOOLEAN
  /\ proc = [p \in Procs |-> Idle]
  /\ crossed = FALSE /\ writes = {}

-----------------------------------------------------------------------------
Goto(p, phase) == proc' = [proc EXCEPT ![p].at = phase]
Exit(p) == proc' = [proc EXCEPT ![p] = Idle]
Alone(p) == \A q \in Procs \ {p} : proc[q].at = "idle"

NoToken == \A s \in Scopes : token[s] = NoOne

\* load_google_session_state: an error when the tokens are missing.
SessionFails == session # NoSession /\ NoToken

\* The token for a scope: stored for it, or for one that covers it.
Covering(scope) == IF token[scope] # NoOne THEN scope ELSE "write"
Stored(scope) == token[Covering(scope)]

\* Whom a call with this scope may be made as; without a token the operator signs in.
Callers(scope) ==
  IF Stored(scope) = NoOne THEN People
  ELSE IF Covering(scope) \in revoked THEN {} ELSE {Stored(scope)}

Called(p, scope, g) ==
  /\ token' = IF Stored(scope) = NoOne THEN [token EXCEPT ![scope] = g] ELSE token
  /\ crossed' = (crossed \/ (Stored(scope) = NoOne /\ ~Alone(p)))

-----------------------------------------------------------------------------
(* The guard.                                                              *)

\* Variant with a bug: a declared email is not compared.
OutcomeUndeclared(known, g) ==
  IF known.state # "bound" THEN "bind" ELSE IF known.who = g THEN "match" ELSE "mismatch"

\* Variant with a bug: a binding that does not match is taken for none.
OutcomeRebinds(known, g) ==
  CASE known.state = "declared" -> IF known.who = g THEN "bind" ELSE "mismatch"
    [] OTHER -> IF known.who = g THEN "match" ELSE "bind"

\* evaluate_identity.
Outcome(known, g) ==
  CASE known.state = "bound" -> IF known.who = g THEN "match" ELSE "mismatch"
    [] known.state = "declared" -> IF known.who = g THEN "bind" ELSE "mismatch"
    [] OTHER -> "bind"

\* Variant with a bug: the identity is recorded, the state is not.
BoundInPart(p, g) ==
  toml' = IF Outcome(proc[p].toml, g) = "bind" THEN [toml EXCEPT !.who = g] ELSE toml

\* apply_identity_outcome: account.toml is written anew from what the process read.
Bound(p, g) ==
  toml' = IF Outcome(proc[p].toml, g) = "bind" THEN [state |-> "bound", who |-> g] ELSE toml

\* account.toml is read once, when the command starts.
Start(p, cmd) ==
  /\ proc[p].at = "idle"
  /\ proc' = [proc EXCEPT ![p] = [Idle EXCEPT !.cmd = cmd, !.toml = toml,
       !.at = CASE cmd = "login" -> "login" [] cmd = "logout" -> "revoke"
                [] cmd = "apply" -> "preview" [] OTHER -> "guard"]]
  /\ UNCHANGED <<toml, token, session, declared, crossed, writes, found, revoked>>

\* The plan that is shown and confirmed.  The guard is in the release, which is made if
\* there is something in it.
Preview(p) ==
  /\ proc[p].at = "preview"
  /\ Goto(p, IF found THEN "guard" ELSE "replan")
  /\ UNCHANGED <<toml, token, session, declared, crossed, writes, found, revoked>>

\* ensure_account_identity before a write: whatever fails refuses.
GuardWrite(p) ==
  /\ proc[p].at = "guard" /\ proc[p].cmd \in Writers
  /\ session # NoSession /\ ~SessionFails
  /\ \E g \in Callers(session.scope) :
       /\ Called(p, session.scope, g)
       /\ Bound(p, g)
       /\ IF Outcome(proc[p].toml, g) = "mismatch" THEN Exit(p)
          ELSE proc' = [proc EXCEPT ![p].at = "write", ![p].verified = g]
  /\ UNCHANGED <<session, declared, writes, found, revoked>>

\* The apply plans again, and ends if there is nothing to do.
Replan(p) ==
  /\ proc[p].at = "replan"
  /\ IF found THEN Goto(p, "write") ELSE Exit(p)
  /\ UNCHANGED <<toml, token, session, declared, crossed, writes, found, revoked>>

\* Before a read: a mismatch and a failure are warned of.
GuardRead(p) ==
  /\ proc[p].at = "guard" /\ proc[p].cmd = "sync"
  /\ Goto(p, "read")
  /\ \/ /\ session # NoSession /\ ~SessionFails
        /\ \E g \in Callers(session.scope) : Called(p, session.scope, g) /\ Bound(p, g)
     \/ UNCHANGED <<toml, token, crossed>>
  /\ UNCHANGED <<session, declared, writes, found, revoked>>

\* The calls of a sync, and its commit.
Read(p) ==
  /\ proc[p].at = "read"
  /\ IF session = NoSession \/ SessionFails THEN UNCHANGED <<token, crossed, found>>
     ELSE /\ \E g \in Callers(session.scope) : Called(p, session.scope, g)
          /\ found' \in BOOLEAN
  /\ Exit(p)
  /\ UNCHANGED <<toml, session, declared, writes, revoked>>

\* One call that writes; the next may follow.
Write(p) ==
  /\ proc[p].at = "write"
  /\ session.scope = "write" /\ ~SessionFails
  /\ \E g \in Callers("write") :
       /\ Called(p, "write", g)
       /\ writes' = {[who |-> g, verified |-> proc[p].verified]}
  /\ UNCHANGED <<toml, session, proc, declared, found, revoked>>

\* ensure_scope_internal: the session does not have the scope yet.
Widen(p) ==
  /\ proc[p].at = "write"
  /\ session # NoSession /\ session.scope = "read" /\ ~SessionFails
  /\ proc' = [proc EXCEPT ![p].at = "token", ![p].old = session, ![p].scope = "write"]
  /\ UNCHANGED <<toml, token, session, declared, crossed, writes, found, revoked>>

-----------------------------------------------------------------------------
(* login, logout.                                                          *)

\* A login asks for at least the scope of the session there is.
LoginStart(p) ==
  /\ proc[p].at = "login"
  /\ IF SessionFails THEN Exit(p)
     ELSE proc' = [proc EXCEPT ![p].at = "token", ![p].old = session, ![p].scope = session.scope]
  /\ UNCHANGED <<toml, token, session, declared, crossed, writes, found, revoked>>

\* The token is on disk before anybody knows whose it is.
GetToken(p) ==
  /\ proc[p].at = "token"
  /\ \E g \in Callers(proc[p].scope) :
       /\ Called(p, proc[p].scope, g)
       /\ proc' = [proc EXCEPT ![p].at = "store", ![p].who = g]
  /\ UNCHANGED <<toml, session, declared, writes, found, revoked>>

\* Variant with a bug: the session that is there is not compared.
StoreAnybody(p) ==
  /\ proc[p].at = "store"
  /\ session' = [who |-> proc[p].who, scope |-> proc[p].scope]
  /\ crossed' = (crossed \/ ~Alone(p))
  /\ Goto(p, IF proc[p].cmd = "login" THEN "bind" ELSE "write")
  /\ UNCHANGED <<toml, token, declared, writes, found, revoked>>

\* A session of another Google account is not replaced.
Store(p) ==
  LET old == proc[p].old
  IN /\ proc[p].at = "store"
     /\ IF old # NoSession /\ old.who # proc[p].who
        THEN Exit(p) /\ UNCHANGED <<session, crossed>>
        ELSE /\ session' = [who |-> proc[p].who, scope |-> proc[p].scope]
             /\ crossed' = (crossed \/ ~Alone(p))
             /\ Goto(p, IF proc[p].cmd = "login" THEN "bind" ELSE "write")
     /\ UNCHANGED <<toml, token, declared, writes, found, revoked>>

\* Only now is the login held against the account.
BindLogin(p) ==
  /\ proc[p].at = "bind"
  /\ Bound(p, proc[p].who)
  /\ Exit(p)
  /\ UNCHANGED <<token, session, declared, crossed, writes, found, revoked>>

\* logout: the tokens are revoked at Google, each if it gets through ...
Revoke(p) ==
  /\ proc[p].at = "revoke"
  /\ \E gone \in SUBSET {s \in Scopes : token[s] # NoOne} : revoked' = revoked \cup gone
  /\ crossed' = (crossed \/ ~Alone(p))
  /\ Goto(p, "unsession")
  /\ UNCHANGED <<toml, token, session, declared, writes, found>>

\* ... then the session goes, and then the tokens do.
DropSession(p) ==
  /\ proc[p].at = "unsession"
  /\ session' = NoSession
  /\ crossed' = (crossed \/ ~Alone(p))
  /\ Goto(p, "untoken")
  /\ UNCHANGED <<toml, token, declared, writes, found, revoked>>

DropToken(p) ==
  /\ proc[p].at = "untoken"
  /\ token' = [s \in Scopes |-> NoOne] /\ revoked' = {}
  /\ crossed' = (crossed \/ ~Alone(p))
  /\ Exit(p)
  /\ UNCHANGED <<toml, session, declared, writes, found>>

\* The command is done, is refused, fails or is killed.
Stop(p) ==
  /\ proc[p].at # "idle"
  /\ Exit(p)
  /\ UNCHANGED <<toml, token, session, declared, crossed, writes, found, revoked>>

-----------------------------------------------------------------------------
Next ==
  \E p \in Procs :
    \/ \E cmd \in Commands : Start(p, cmd)
    \/ Preview(p) \/ GuardWrite(p) \/ Replan(p) \/ Write(p) \/ Widen(p)
    \/ GuardRead(p) \/ Read(p)
    \/ LoginStart(p) \/ GetToken(p) \/ Store(p) \/ BindLogin(p)
    \/ Revoke(p) \/ DropSession(p) \/ DropToken(p)
    \/ Stop(p)

Spec == Init /\ [][Next]_vars

-----------------------------------------------------------------------------
(* Properties.                                                             *)

\* An account declared for somebody is never bound to another, whichever commands
\* run at once and whoever signs in.
DeclaredKept == declared # NoOne => toml.who = declared

\* A command that has verified an account writes as that account, the declared one if
\* there is, on every call, also when a wider scope is granted between; unless somebody
\* signed in or out beside a command.
WritesAsVerified ==
  ~crossed =>
    \A w \in writes : w.verified # NoOne => w.who = w.verified /\ declared \in {w.who, NoOne}

\* Before any write to Drive the live account is verified.
WritesAreVerified == \A w \in writes : w.verified # NoOne

\* A binding once made stays, unless somebody signed in or out beside a command:
\* the whole account.toml a process writes is from what it read when it started.
BindingStays ==
  [][toml.state = "bound" /\ ~crossed' => toml' = toml]_vars

=============================================================================
