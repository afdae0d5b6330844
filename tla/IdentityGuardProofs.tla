--------------------------- MODULE IdentityGuardProofs ---------------------------
(***************************************************************************)
(* Theorems of IdentityGuard, for any number of processes and of Google    *)
(* accounts.                                                               *)
(***************************************************************************)
EXTENDS IdentityGuard, TLAPS

\* A call is made as somebody, and stores a token of the same kind.
LEMMA CallersArePeople ==
  ASSUME TypeOK, NEW scope \in Scopes
  PROVE  /\ Callers(scope) \subseteq People
         /\ \A p \in Procs, g \in Callers(scope) :
              Called(p, scope, g) => token' \in [Scopes -> Whoever] /\ crossed' \in BOOLEAN
<1>1. Stored(scope) \in Whoever
  BY DEF TypeOK, Stored, Covering, Scopes
<1>2. Callers(scope) \subseteq People
  BY <1>1 DEF Callers, Whoever
<1>3. ASSUME NEW p \in Procs, NEW g \in Callers(scope), Called(p, scope, g)
      PROVE  token' \in [Scopes -> Whoever] /\ crossed' \in BOOLEAN
  <2>1. g \in Whoever
    BY <1>2 DEF Whoever
  <2>2. token' \in [Scopes -> Whoever]
    BY <1>3, <2>1 DEF TypeOK, Called
  <2>3. crossed' \in BOOLEAN
    BY <1>3 DEF TypeOK, Called
  <2> QED
    BY <2>2, <2>3
<1> QED
  BY <1>2, <1>3

\* What is recorded is somebody's identity, in the state of a binding.
LEMMA BoundIsIdentity ==
  ASSUME TypeOK, NEW p \in Procs, NEW g \in People, Bound(p, g)
  PROVE  toml' \in Identity /\ (toml'.state = "unbound" <=> toml'.who = NoOne)
<1>1. CASE toml' = toml
  BY <1>1 DEF TypeOK
<1>2. CASE toml' = [state |-> "bound", who |-> g]
  BY <1>2, PeopleAssumption DEF Identity, Whoever
<1> QED
  BY <1>1, <1>2 DEF Bound

\* The memory of a process keeps its type when the process ends, or goes on.
LEMMA MemoryKept ==
  ASSUME TypeOK, NEW p \in Procs
  PROVE  /\ Exit(p) => proc' \in [Procs -> Memory]
         /\ \A phase \in Phases : Goto(p, phase) => proc' \in [Procs -> Memory]
<1>1. proc \in [Procs -> Memory]
  BY DEF TypeOK
<1>2. Idle \in Memory
  BY DEF Idle, Memory, Phases, Commands, Writers, Identity, Session, NoSession, Scopes, Whoever
<1>3. Exit(p) => proc' \in [Procs -> Memory]
  BY <1>1, <1>2 DEF Exit
<1>4. ASSUME NEW phase \in Phases, Goto(p, phase) PROVE proc' \in [Procs -> Memory]
  <2>1. [proc[p] EXCEPT !.at = phase] \in Memory
    BY <1>1 DEF Memory
  <2> QED
    BY <1>1, <1>4, <2>1 DEF Goto
<1> QED
  BY <1>3, <1>4

\* A process that stores or binds knows who has signed in.
CallerKnown == \A p \in Procs : proc[p].at \in {"store", "bind"} => proc[p].who \in People

-----------------------------------------------------------------------------
\* The type invariant: account.toml names somebody exactly when it is declared or
\* bound, whatever commands run at once.
THEOREM TypeCorrect == Spec => [](TypeOK /\ CallerKnown)
<1>1. Init => TypeOK /\ CallerKnown
  <2> SUFFICES ASSUME Init PROVE TypeOK /\ CallerKnown
    OBVIOUS
  <2>1. Idle \in Memory
    BY DEF Idle, Memory, Phases, Commands, Writers, Identity, Session, NoSession, Scopes, Whoever
  <2>2. proc \in [Procs -> Memory] /\ CallerKnown
    BY <2>1 DEF Init, CallerKnown, Idle
  <2>3. toml \in Identity /\ (toml.state = "unbound" <=> toml.who = NoOne)
    BY DEF Init, Identity, Whoever
  <2>4. token \in [Scopes -> Whoever] /\ session \in Session /\ revoked \subseteq Scopes
    BY DEF Init, Session, NoSession, Scopes, Whoever
  <2> QED
    BY <2>2, <2>3, <2>4 DEF Init, TypeOK
<1>2. TypeOK /\ CallerKnown /\ [Next]_vars => (TypeOK /\ CallerKnown)'
  <2> SUFFICES ASSUME TypeOK, CallerKnown, [Next]_vars PROVE (TypeOK /\ CallerKnown)'
    OBVIOUS
  <2> DEFINE Typed == proc' \in [Procs -> Memory] /\ CallerKnown'
  <2> USE DEF CallerKnown
  <2>0. proc \in [Procs -> Memory] /\ session.scope \in Scopes
    BY DEF TypeOK, Session
  <2>exit. ASSUME NEW p \in Procs, Exit(p) PROVE Typed
    BY <2>exit, <2>0, MemoryKept DEF Exit, Idle
  <2>goto. ASSUME NEW p \in Procs, NEW phase \in Phases \ {"store", "bind"}, Goto(p, phase)
           PROVE  Typed
    <3>1. proc' \in [Procs -> Memory]
      BY <2>goto, MemoryKept
    <3>2. CallerKnown'
      BY <2>goto, <2>0 DEF Goto, Memory
    <3> QED
      BY <3>1, <3>2
  <2>1. CASE UNCHANGED vars
    BY <2>1 DEF TypeOK, vars
  <2>2. ASSUME NEW p \in Procs, NEW cmd \in Commands, Start(p, cmd)
        PROVE  (TypeOK /\ CallerKnown)'
    <3> DEFINE next == [Idle EXCEPT !.cmd = cmd, !.toml = toml,
                          !.at = CASE cmd = "login" -> "login" [] cmd = "logout" -> "revoke"
                                   [] cmd = "apply" -> "preview" [] OTHER -> "guard"]
    <3>1. next \in Memory /\ next.at \notin {"store", "bind"}
      BY DEF TypeOK, Idle, Memory, Phases, Commands, Writers, Identity, Session, NoSession, Scopes, Whoever
    <3>2. proc' = [proc EXCEPT ![p] = next]
      BY <2>2 DEF Start
    <3>3. Typed
      <4> HIDE DEF next
      <4> QED
        BY <2>0, <3>1, <3>2
    <3> QED
      BY <2>2, <3>3 DEF Start, TypeOK
  <2>3. ASSUME NEW p \in Procs, GuardWrite(p) PROVE (TypeOK /\ CallerKnown)'
    <3>2. PICK g \in Callers(session.scope) :
            /\ Called(p, session.scope, g)
            /\ Bound(p, g)
            /\ IF Outcome(proc[p].toml, g) = "mismatch" THEN Exit(p)
               ELSE proc' = [proc EXCEPT ![p].at = "write", ![p].verified = g]
      BY <2>3 DEF GuardWrite
    <3>3. g \in People
      BY <2>0, <3>2, CallersArePeople
    <3>4. token' \in [Scopes -> Whoever] /\ crossed' \in BOOLEAN
      BY <2>0, <3>2, CallersArePeople
    <3>5. toml' \in Identity /\ (toml'.state = "unbound" <=> toml'.who = NoOne)
      BY <3>2, <3>3, BoundIsIdentity
    <3>6. Typed
      <4>1. CASE Exit(p)
        BY <4>1, <2>exit
      <4>2. CASE proc' = [proc EXCEPT ![p].at = "write", ![p].verified = g]
        <5>1. [proc[p] EXCEPT !.at = "write", !.verified = g] \in Memory
          BY <2>0, <3>3 DEF Memory, Phases, Whoever
        <5> QED
          BY <4>2, <5>1, <2>0 DEF Memory
      <4> QED
        BY <3>2, <4>1, <4>2
    <3> QED
      BY <2>3, <3>4, <3>5, <3>6 DEF GuardWrite, TypeOK
  <2>4. ASSUME NEW p \in Procs, GuardRead(p) PROVE (TypeOK /\ CallerKnown)'
    <3>1. Typed
      BY <2>4, <2>goto DEF GuardRead, Phases
    <3>2. CASE UNCHANGED <<toml, token, crossed>>
      BY <2>4, <3>1, <3>2 DEF GuardRead, TypeOK
    <3>3. ASSUME NEW g \in Callers(session.scope), Called(p, session.scope, g), Bound(p, g)
          PROVE  (TypeOK /\ CallerKnown)'
      <4>1. g \in People
        BY <2>0, CallersArePeople
      <4>2. token' \in [Scopes -> Whoever] /\ crossed' \in BOOLEAN
        BY <2>0, <3>3, CallersArePeople
      <4>3. toml' \in Identity /\ (toml'.state = "unbound" <=> toml'.who = NoOne)
        BY <3>3, <4>1, BoundIsIdentity
      <4> QED
        BY <2>4, <3>1, <4>2, <4>3 DEF GuardRead, TypeOK
    <3> QED
      BY <2>4, <3>2, <3>3 DEF GuardRead
  <2>5. ASSUME NEW p \in Procs, Read(p) PROVE (TypeOK /\ CallerKnown)'
    <3>1. token' \in [Scopes -> Whoever] /\ crossed' \in BOOLEAN
      <4>2. CASE UNCHANGED <<token, crossed>>
        BY <4>2 DEF TypeOK
      <4>3. CASE \E g \in Callers(session.scope) : Called(p, session.scope, g)
        BY <2>0, <4>3, CallersArePeople
      <4> QED
        BY <2>5, <4>2, <4>3 DEF Read
    <3>2. Typed
      BY <2>5, <2>exit DEF Read
    <3> QED
      BY <2>5, <3>1, <3>2 DEF Read, TypeOK
  <2>6. ASSUME NEW p \in Procs, Write(p) PROVE (TypeOK /\ CallerKnown)'
    <3>1. PICK g \in Callers("write") :
            /\ Called(p, "write", g)
            /\ writes' = {[who |-> g, verified |-> proc[p].verified]}
      BY <2>6 DEF Write
    <3>2. g \in People /\ token' \in [Scopes -> Whoever] /\ crossed' \in BOOLEAN
      BY <3>1, CallersArePeople DEF Scopes
    <3>3. proc[p].verified \in Whoever
      BY <2>0 DEF Memory
    <3>4. writes' \subseteq [who : People, verified : Whoever]
      BY <3>1, <3>2, <3>3 DEF TypeOK
    <3> QED
      BY <2>6, <3>2, <3>4 DEF Write, TypeOK
  <2>7. ASSUME NEW p \in Procs, Widen(p) PROVE (TypeOK /\ CallerKnown)'
    <3>1. [proc[p] EXCEPT !.at = "token", !.old = session, !.scope = "write"] \in Memory
      BY <2>0 DEF TypeOK, Memory, Phases, Scopes
    <3>2. Typed
      BY <2>7, <3>1, <2>0 DEF Widen, Memory
    <3> QED
      BY <2>7, <3>2 DEF Widen, TypeOK
  <2>8. ASSUME NEW p \in Procs, LoginStart(p) PROVE (TypeOK /\ CallerKnown)'
    <3>1. [proc[p] EXCEPT !.at = "token", !.old = session, !.scope = session.scope] \in Memory
      BY <2>0 DEF TypeOK, Memory, Phases
    <3>2. CASE Exit(p)
      BY <2>8, <3>2, <2>exit DEF LoginStart, TypeOK
    <3>3. CASE proc' = [proc EXCEPT ![p].at = "token", ![p].old = session,
                                    ![p].scope = session.scope]
      <4>1. Typed
        BY <3>1, <3>3, <2>0 DEF Memory
      <4> QED
        BY <2>8, <4>1 DEF LoginStart, TypeOK
    <3> QED
      BY <2>8, <3>2, <3>3 DEF LoginStart
  <2>9. ASSUME NEW p \in Procs, GetToken(p) PROVE (TypeOK /\ CallerKnown)'
    <3>1. PICK g \in Callers(proc[p].scope) :
            /\ Called(p, proc[p].scope, g)
            /\ proc' = [proc EXCEPT ![p].at = "store", ![p].who = g]
      BY <2>9 DEF GetToken
    <3>2. proc[p].scope \in Scopes
      BY <2>0 DEF Memory
    <3>3. g \in People /\ token' \in [Scopes -> Whoever] /\ crossed' \in BOOLEAN
      BY <3>1, <3>2, CallersArePeople
    <3>4. [proc[p] EXCEPT !.at = "store", !.who = g] \in Memory
      BY <2>0, <3>3 DEF Memory, Phases, Whoever
    <3>5. Typed
      BY <3>1, <3>3, <3>4, <2>0 DEF Memory
    <3> QED
      BY <2>9, <3>3, <3>5 DEF GetToken, TypeOK
  <2>10. ASSUME NEW p \in Procs, Store(p) PROVE (TypeOK /\ CallerKnown)'
    <3>1. [who |-> proc[p].who, scope |-> proc[p].scope] \in Session
      BY <2>0 DEF Session, Memory
    <3>2. session' \in Session /\ crossed' \in BOOLEAN
      BY <2>10, <3>1 DEF Store, TypeOK
    <3>3. Typed
      <4>1. CASE Exit(p)
        BY <4>1, <2>exit
      <4>2. CASE Goto(p, "write")
        BY <4>2, <2>goto DEF Phases
      <4>3. CASE Goto(p, "bind")
        <5>1. [proc[p] EXCEPT !.at = "bind"] \in Memory
          BY <2>0 DEF Memory, Phases
        <5>2. proc[p].who \in People
          BY <2>10 DEF Store
        <5> QED
          BY <4>3, <5>1, <5>2, <2>0 DEF Goto, Memory
      <4> QED
        BY <2>10, <4>1, <4>2, <4>3 DEF Store
    <3> QED
      BY <2>10, <3>2, <3>3 DEF Store, TypeOK
  <2>11. ASSUME NEW p \in Procs, BindLogin(p) PROVE (TypeOK /\ CallerKnown)'
    <3>1. proc[p].who \in People
      BY <2>11 DEF BindLogin
    <3>2. toml' \in Identity /\ (toml'.state = "unbound" <=> toml'.who = NoOne)
      BY <2>11, <3>1, BoundIsIdentity DEF BindLogin
    <3>3. Typed
      BY <2>11, <2>exit DEF BindLogin
    <3> QED
      BY <2>11, <3>2, <3>3 DEF BindLogin, TypeOK
  <2>12. ASSUME NEW p \in Procs, DropSession(p) PROVE (TypeOK /\ CallerKnown)'
    <3>1. session' \in Session
      BY <2>12 DEF DropSession, Session, NoSession, Scopes, Whoever
    <3>2. Typed
      BY <2>12, <2>goto DEF DropSession, Phases
    <3> QED
      BY <2>12, <3>1, <3>2 DEF DropSession, TypeOK
  <2>13. ASSUME NEW p \in Procs, DropToken(p) PROVE (TypeOK /\ CallerKnown)'
    <3>1. token' \in [Scopes -> Whoever]
      BY <2>13 DEF DropToken, Whoever
    <3>2. Typed
      BY <2>13, <2>exit DEF DropToken
    <3> QED
      BY <2>13, <3>1, <3>2 DEF DropToken, TypeOK
  <2>14. ASSUME NEW p \in Procs, Stop(p) PROVE (TypeOK /\ CallerKnown)'
    BY <2>14, <2>exit DEF Stop, TypeOK
  <2>15. ASSUME NEW p \in Procs, Preview(p) PROVE (TypeOK /\ CallerKnown)'
    <3>1. Typed
      BY <2>15, <2>goto DEF Preview, Phases
    <3> QED
      BY <2>15, <3>1 DEF Preview, TypeOK
  <2>16. ASSUME NEW p \in Procs, Replan(p) PROVE (TypeOK /\ CallerKnown)'
    <3>1. Typed
      BY <2>16, <2>goto, <2>exit DEF Replan, Phases
    <3> QED
      BY <2>16, <3>1 DEF Replan, TypeOK
  <2>17. ASSUME NEW p \in Procs, Revoke(p) PROVE (TypeOK /\ CallerKnown)'
    <3>1. Typed
      BY <2>17, <2>goto DEF Revoke, Phases
    <3>2. revoked' \subseteq Scopes /\ crossed' \in BOOLEAN
      BY <2>17 DEF Revoke, TypeOK
    <3> QED
      BY <2>17, <3>1, <3>2 DEF Revoke, TypeOK
  <2> QED
    BY <2>1, <2>2, <2>3, <2>4, <2>5, <2>6, <2>7, <2>8, <2>9, <2>10, <2>11, <2>12, <2>13, <2>14,
       <2>15, <2>16, <2>17
    DEF Next
<1> QED
  BY <1>1, <1>2, PTL DEF Spec

-----------------------------------------------------------------------------
(* A declared account.                                                     *)

\* An identity that can only become the binding to the declared Google account.
Declares(known) == known.state \in {"declared", "bound"} /\ known.who = declared

\* Whoever is at work has read such an identity, and account.toml still has one.
DeclaredRead ==
  declared # NoOne =>
    Declares(toml) /\ \A p \in Procs : proc[p].at # "idle" => Declares(proc[p].toml)

\* With such an identity in memory, whatever account signs in, account.toml stays one.
LEMMA BindingDeclares ==
  ASSUME declared # NoOne, Declares(toml), declared' = declared,
         NEW p \in Procs, Declares(proc[p].toml), NEW g, Bound(p, g)
  PROVE  Declares(toml')
<1>1. CASE Outcome(proc[p].toml, g) = "bind"
  <2>1. g = declared
    BY <1>1 DEF Outcome, Declares
  <2>2. toml' = [state |-> "bound", who |-> g]
    BY <1>1 DEF Bound
  <2> QED
    BY <2>1, <2>2 DEF Declares
<1>2. CASE Outcome(proc[p].toml, g) # "bind"
  BY <1>2 DEF Bound
<1> QED
  BY <1>1, <1>2

\* Whatever a process has read of a declared account names the account it is declared for.
LEMMA DeclaredReadAlways == Spec => []DeclaredRead
<1>1. Init => DeclaredRead
  BY DEF Init, DeclaredRead, Declares, Idle
<1>2. TypeOK /\ DeclaredRead /\ [Next]_vars => DeclaredRead'
  <2> SUFFICES ASSUME TypeOK, DeclaredRead, [Next]_vars, declared' # NoOne
               PROVE  /\ Declares(toml)'
                      /\ \A q \in Procs : proc'[q].at # "idle" => Declares(proc[q].toml)'
    BY DEF DeclaredRead
  <2>1. declared' = declared
    BY DEF Next, vars, Start, Preview, GuardWrite, Replan, GuardRead, Read, Write, Widen, LoginStart, GetToken,
           Store, BindLogin, Revoke, DropSession, DropToken, Stop
  <2>2. Declares(toml) /\ \A q \in Procs : proc[q].at # "idle" => Declares(proc[q].toml)
    BY <2>1 DEF DeclaredRead
  <2>3. proc \in [Procs -> Memory]
    BY DEF TypeOK
  \* A process that goes on keeps what it read, one that ends has nothing more to bind.
  <2>4. ASSUME NEW p \in Procs, NEW m,
               proc' = [proc EXCEPT ![p] = m],
               m.at = "idle" \/ (proc[p].at # "idle" /\ m.toml = proc[p].toml)
        PROVE  \A q \in Procs : proc'[q].at # "idle" => Declares(proc[q].toml)'
    BY <2>1, <2>2, <2>3, <2>4 DEF Declares
  <2>exit. ASSUME NEW p \in Procs, Exit(p)
           PROVE  \A q \in Procs : proc'[q].at # "idle" => Declares(proc[q].toml)'
    BY <2>exit, <2>4 DEF Exit, Idle
  <2>goto. ASSUME NEW p \in Procs, proc[p].at # "idle", NEW phase, Goto(p, phase)
           PROVE  \A q \in Procs : proc'[q].at # "idle" => Declares(proc[q].toml)'
    BY <2>goto, <2>3, <2>4 DEF Goto, Memory
  <2>same. (toml' = toml => Declares(toml)')
           /\ (proc' = proc => \A q \in Procs : proc'[q].at # "idle" => Declares(proc[q].toml)')
    BY <2>1, <2>2 DEF Declares
  <2>5. CASE UNCHANGED vars
    BY <2>5, <2>same DEF vars
  <2>6. ASSUME NEW p \in Procs, NEW cmd \in Commands, Start(p, cmd)
        PROVE  /\ Declares(toml)'
               /\ \A q \in Procs : proc'[q].at # "idle" => Declares(proc[q].toml)'
    BY <2>6, <2>1, <2>2, <2>3, <2>same DEF Start, Idle, Declares
  <2>7. ASSUME NEW p \in Procs, GuardWrite(p)
        PROVE  /\ Declares(toml)'
               /\ \A q \in Procs : proc'[q].at # "idle" => Declares(proc[q].toml)'
    <3>1. PICK g \in Callers(session.scope) :
            /\ Bound(p, g)
            /\ IF Outcome(proc[p].toml, g) = "mismatch" THEN Exit(p)
               ELSE proc' = [proc EXCEPT ![p].at = "write", ![p].verified = g]
      BY <2>7 DEF GuardWrite
    <3>2. proc[p].at # "idle"
      BY <2>7 DEF GuardWrite
    <3>3. Declares(toml)'
      BY <3>1, <3>2, <2>1, <2>2, BindingDeclares DEF Declares
    <3>4. CASE Exit(p)
      BY <3>3, <3>4, <2>exit
    <3>5. CASE proc' = [proc EXCEPT ![p].at = "write", ![p].verified = g]
      <4> DEFINE next == [proc[p] EXCEPT !.at = "write", !.verified = g]
      <4>1. next.toml = proc[p].toml /\ proc' = [proc EXCEPT ![p] = next]
        BY <3>5, <2>3 DEF Memory
      <4> HIDE DEF next
      <4> QED
        BY <3>2, <3>3, <4>1, <2>4
    <3> QED
      BY <3>1, <3>4, <3>5
  <2>8. ASSUME NEW p \in Procs, GuardRead(p)
        PROVE  /\ Declares(toml)'
               /\ \A q \in Procs : proc'[q].at # "idle" => Declares(proc[q].toml)'
    <3>1. Declares(toml)'
      BY <2>8, <2>1, <2>2, <2>same, BindingDeclares DEF GuardRead, Declares
    <3> QED
      BY <2>8, <3>1, <2>goto DEF GuardRead
  <2>9. ASSUME NEW p \in Procs, BindLogin(p)
        PROVE  /\ Declares(toml)'
               /\ \A q \in Procs : proc'[q].at # "idle" => Declares(proc[q].toml)'
    <3>1. Declares(toml)'
      BY <2>9, <2>1, <2>2, BindingDeclares DEF BindLogin, Declares
    <3> QED
      BY <2>9, <3>1, <2>exit DEF BindLogin
  <2>10. ASSUME NEW p \in Procs, Read(p) \/ DropToken(p) \/ Stop(p)
         PROVE  /\ Declares(toml)'
                /\ \A q \in Procs : proc'[q].at # "idle" => Declares(proc[q].toml)'
    BY <2>10, <2>same, <2>exit DEF Read, DropToken, Stop
  <2>17. ASSUME NEW p \in Procs, Preview(p) \/ Replan(p) \/ Revoke(p)
         PROVE  /\ Declares(toml)'
                /\ \A q \in Procs : proc'[q].at # "idle" => Declares(proc[q].toml)'
    BY <2>17, <2>same, <2>exit, <2>goto DEF Preview, Replan, Revoke
  <2>11. ASSUME NEW p \in Procs, Write(p)
         PROVE  /\ Declares(toml)'
                /\ \A q \in Procs : proc'[q].at # "idle" => Declares(proc[q].toml)'
    BY <2>11, <2>same DEF Write
  <2>12. ASSUME NEW p \in Procs, DropSession(p)
         PROVE  /\ Declares(toml)'
                /\ \A q \in Procs : proc'[q].at # "idle" => Declares(proc[q].toml)'
    BY <2>12, <2>same, <2>goto DEF DropSession
  <2>13. ASSUME NEW p \in Procs, Widen(p)
         PROVE  /\ Declares(toml)'
                /\ \A q \in Procs : proc'[q].at # "idle" => Declares(proc[q].toml)'
    <3> DEFINE next == [proc[p] EXCEPT !.at = "token", !.old = session, !.scope = "write"]
    <3>1. next.toml = proc[p].toml /\ proc' = [proc EXCEPT ![p] = next] /\ proc[p].at # "idle"
      BY <2>13, <2>3 DEF Widen, Memory
    <3> HIDE DEF next
    <3> QED
      BY <2>13, <3>1, <2>same, <2>4 DEF Widen
  <2>14. ASSUME NEW p \in Procs, LoginStart(p)
         PROVE  /\ Declares(toml)'
                /\ \A q \in Procs : proc'[q].at # "idle" => Declares(proc[q].toml)'
    <3>1. CASE Exit(p)
      BY <2>14, <3>1, <2>same, <2>exit DEF LoginStart
    <3>2. CASE ~Exit(p)
      <4> DEFINE next == [proc[p] EXCEPT !.at = "token", !.old = session, !.scope = session.scope]
      <4>1. next.toml = proc[p].toml /\ proc' = [proc EXCEPT ![p] = next] /\ proc[p].at # "idle"
        <5>1. /\ proc[p].at = "login"
              /\ proc' = [proc EXCEPT ![p].at = "token", ![p].old = session,
                                      ![p].scope = session.scope]
          BY <2>14, <3>2 DEF LoginStart
        <5>2. proc[p].at # "idle"
          BY <5>1
        <5>3. next.toml = proc[p].toml
          BY <2>3 DEF Memory
        <5>4. proc' = [proc EXCEPT ![p] = next]
          BY <5>1, <2>3 DEF Memory
        <5> QED
          BY <5>2, <5>3, <5>4
      <4> HIDE DEF next
      <4> QED
        BY <2>14, <4>1, <2>same, <2>4 DEF LoginStart
    <3> QED
      BY <3>1, <3>2
  <2>15. ASSUME NEW p \in Procs, GetToken(p)
         PROVE  /\ Declares(toml)'
                /\ \A q \in Procs : proc'[q].at # "idle" => Declares(proc[q].toml)'
    <3>1. PICK g \in Callers(proc[p].scope) :
            proc' = [proc EXCEPT ![p].at = "store", ![p].who = g]
      BY <2>15 DEF GetToken
    <3> DEFINE next == [proc[p] EXCEPT !.at = "store", !.who = g]
    <3>2. next.toml = proc[p].toml /\ proc' = [proc EXCEPT ![p] = next] /\ proc[p].at # "idle"
      <4>1. proc[p].at # "idle"
        BY <2>15 DEF GetToken
      <4>2. next.toml = proc[p].toml
        BY <2>3 DEF Memory
      <4>3. proc' = [proc EXCEPT ![p] = next]
        BY <3>1, <2>3 DEF Memory
      <4> QED
        BY <4>1, <4>2, <4>3
    <3> HIDE DEF next
    <3> QED
      BY <2>15, <3>2, <2>same, <2>4 DEF GetToken
  <2>16. ASSUME NEW p \in Procs, Store(p)
         PROVE  /\ Declares(toml)'
                /\ \A q \in Procs : proc'[q].at # "idle" => Declares(proc[q].toml)'
    <3>1. Exit(p) \/ \E phase \in {"bind", "write"} : Goto(p, phase)
      BY <2>16 DEF Store
    <3> QED
      BY <2>16, <3>1, <2>same, <2>exit, <2>goto DEF Store
  <2> QED
    BY <2>5, <2>6, <2>7, <2>8, <2>9, <2>10, <2>11, <2>12, <2>13, <2>14, <2>15, <2>16, <2>17
    DEF Next
<1> QED
  BY <1>1, <1>2, TypeCorrect, PTL DEF Spec

\* However many commands run at once, whoever signs in in which order and whichever
\* of them read account.toml before it was bound: the account that was declared for
\* somebody is never bound to another.
THEOREM DeclaredStays == Spec => []DeclaredKept
<1>1. DeclaredRead => DeclaredKept
  BY DEF DeclaredRead, DeclaredKept, Declares
<1> QED
  BY <1>1, DeclaredReadAlways, PTL

-----------------------------------------------------------------------------
(* Nobody signs in or out beside a command.                                *)

\* The session is of whom the token of its scope is.
SessionTrue ==
  session = NoSession \/ (session.who \in People /\ Stored(session.scope) = session.who)

\* The phases of a command that may still bind the account, or has verified it.
MayBind == {"preview", "guard", "replan", "write", "login", "token", "store", "bind"}

\* What a process holds agrees with the session: the session it compares with, the one
\* it has signed in as, the one it has verified; and when the account was bound since
\* it read account.toml, the session is of whom it was bound to.
Coherent(p) ==
  LET at == proc[p].at IN
  /\ at = "untoken" => session = NoSession
  /\ at \in {"token", "store"} => session = proc[p].old /\ proc[p].cmd \in {"login"} \cup Writers
  /\ at \in {"token", "store"} /\ proc[p].cmd = "login" => proc[p].scope = session.scope
  /\ at \in {"store", "bind"} => Stored(proc[p].scope) = proc[p].who
  /\ at = "bind" => session # NoSession /\ session.who = proc[p].who
  /\ at = "login" => proc[p].cmd = "login"
  /\ at = "write" => proc[p].cmd \in Writers
  /\ at \in {"preview", "replan"} => proc[p].cmd = "apply" /\ proc[p].verified = NoOne
  /\ at \in {"write", "token", "store"} /\ proc[p].cmd \in Writers /\ proc[p].verified # NoOne =>
       /\ session # NoSession /\ proc[p].verified = session.who
       /\ declared \in {proc[p].verified, NoOne}
  /\ at \in MayBind /\ proc[p].toml.state # "bound" /\ toml.state = "bound" =>
       session # NoSession /\ session.who = toml.who

CalmInv ==
  ~crossed => SessionTrue /\ (\A p \in Procs : Coherent(p)) /\ WritesAsVerified

\* What is stored, stays stored.
StoredKept == \A s \in Scopes : Stored(s) # NoOne => Stored(s)' = Stored(s)

LEMMA CalledKeeps ==
  ASSUME TypeOK, NEW scope \in Scopes, NEW p \in Procs, NEW g \in Callers(scope), Called(p, scope, g)
  PROVE  StoredKept /\ Stored(scope)' = g /\ (Stored(scope) # NoOne => g = Stored(scope))
<1>1. scope = "read" \/ scope = "write"
  BY DEF Scopes
<1>2. token \in [Scopes -> Whoever]
  BY DEF TypeOK
<1>3. CASE Stored(scope) # NoOne
  <2>1. token' = token /\ g = Stored(scope)
    BY <1>3 DEF Called, Callers
  <2> QED
    BY <2>1, <1>3 DEF Stored, Covering, StoredKept
<1>4. CASE Stored(scope) = NoOne
  <2>1. token' = [token EXCEPT ![scope] = g] /\ g \in People /\ g # NoOne
    BY <1>4, PeopleAssumption DEF Called, Callers
  <2>2. Stored(scope)' = g
    BY <2>1, <1>1, <1>2 DEF Stored, Covering, Scopes
  <2>3. StoredKept
    BY <2>1, <1>1, <1>2, <1>4 DEF Stored, Covering, StoredKept, Scopes
  <2> QED
    BY <1>4, <2>2, <2>3
<1> QED
  BY <1>3, <1>4

\* The session a call is made with knows whom it is made as.
LEMMA CalledAsSession ==
  ASSUME TypeOK, SessionTrue, session # NoSession,
         NEW p \in Procs, NEW g \in Callers(session.scope), Called(p, session.scope, g)
  PROVE  g = session.who
<1>1. session.scope \in Scopes /\ Stored(session.scope) # NoOne
  BY PeopleAssumption DEF TypeOK, Session, SessionTrue
<1> QED
  BY <1>1, CalledKeeps DEF SessionTrue

\* A process that does nothing stays coherent, when the session stays and the account
\* is bound to whom the session is of, if at all.
LEMMA OthersCoherent ==
  ASSUME TypeOK, CallerKnown, NEW q \in Procs, Coherent(q), proc'[q] = proc[q],
         declared' = declared, session' = session, StoredKept,
         toml' = toml \/ (session # NoSession /\ toml'.who = session.who)
  PROVE  Coherent(q)'
<1>1. proc[q].at \in {"store", "bind"} => Stored(proc[q].scope)' = proc[q].who
  <2> SUFFICES ASSUME proc[q].at \in {"store", "bind"} PROVE Stored(proc[q].scope)' = proc[q].who
    OBVIOUS
  <2>1. proc[q].scope \in Scopes /\ proc[q].who # NoOne
    BY PeopleAssumption DEF TypeOK, Memory, CallerKnown
  <2>2. Stored(proc[q].scope) = proc[q].who
    BY DEF Coherent
  <2>3. \A s \in Scopes : Stored(s) # NoOne => Stored(s)' = Stored(s)
    BY DEF StoredKept
  <2>4. \A s : Stored(s)' = IF token'[s] # NoOne THEN token'[s] ELSE token'["write"]
    BY DEF Stored, Covering
  <2> QED
    BY <2>1, <2>2, <2>3, <2>4
<1> QED
  BY <1>1 DEF Coherent

\* Whom a process has verified is the declared account, if there is one.
LEMMA VerifiedIsDeclared ==
  ASSUME DeclaredRead, NEW p \in Procs, proc[p].at # "idle",
         NEW g, Outcome(proc[p].toml, g) # "mismatch"
  PROVE  declared \in {g, NoOne}
BY DEF DeclaredRead, Declares, Outcome

\* A binding stays when a process binds that has found it, or that binds the same again.
LEMMA BoundAgain ==
  ASSUME TypeOK, NEW p \in Procs, NEW g, Bound(p, g),
         proc[p].toml.state # "bound" /\ toml.state = "bound" => g = toml.who
  PROVE  /\ toml.state = "bound" => toml' = toml
         /\ toml' = toml \/ toml' = [state |-> "bound", who |-> g]
<1>1. ASSUME toml.state = "bound" PROVE toml' = toml
  <2>1. CASE proc[p].toml.state = "bound"
    BY <2>1 DEF Bound, Outcome
  <2>2. CASE proc[p].toml.state # "bound"
    <3>1. [state |-> "bound", who |-> g] = toml
      BY <1>1, <2>2 DEF TypeOK, Identity
    <3> QED
      BY <3>1 DEF Bound
  <2> QED
    BY <2>1, <2>2
<1> QED
  BY <1>1 DEF Bound

\* While nobody signs in or out beside a command, session, tokens and what processes
\* hold agree, and no step unbinds the account or binds it to another.
LEMMA CalmStep ==
  ASSUME TypeOK, CallerKnown, DeclaredRead, CalmInv, [Next]_vars
  PROVE  CalmInv' /\ (toml.state = "bound" /\ ~crossed' => toml' = toml)
<1> SUFFICES ASSUME ~crossed'
             PROVE  /\ SessionTrue' /\ (\A q \in Procs : Coherent(q)') /\ WritesAsVerified'
                    /\ toml.state = "bound" => toml' = toml
  BY DEF CalmInv
<1> DEFINE Goal == /\ SessionTrue' /\ (\A q \in Procs : Coherent(q)') /\ WritesAsVerified'
                   /\ toml.state = "bound" => toml' = toml
<1>0. ~crossed /\ crossed' = FALSE
  BY DEF TypeOK, Next, vars, Called, Start, Preview, GuardWrite, Replan, GuardRead, Read, Write, Widen, LoginStart,
         GetToken, Store, BindLogin, Revoke, DropSession, DropToken, Stop
<1>1. SessionTrue /\ (\A q \in Procs : Coherent(q)) /\ WritesAsVerified
  BY <1>0 DEF CalmInv
<1>2. proc \in [Procs -> Memory] /\ session \in Session /\ NoSession.who = NoOne
  BY DEF TypeOK, NoSession
\* Session and writes stay: what is left to show is the process itself.
<1>own. ASSUME NEW p \in Procs, NEW m, proc' = [proc EXCEPT ![p] = m],
               UNCHANGED <<session, declared, writes>>, StoredKept,
               toml' = toml \/ (session # NoSession /\ toml'.who = session.who),
               toml.state = "bound" => toml' = toml,
               m.at = "idle" \/ Coherent(p)'
        PROVE  Goal
  <2>1. SessionTrue'
    <3>1. session # NoSession => session.scope \in Scopes /\ Stored(session.scope) # NoOne
      BY <1>1, <1>2, PeopleAssumption DEF SessionTrue, Session
    <3>2. session # NoSession => Stored(session.scope)' = Stored(session.scope)
      BY <3>1, <1>own DEF StoredKept, Stored, Covering
    <3> QED
      BY <1>1, <1>own, <3>2 DEF SessionTrue
  <2>2. ASSUME NEW q \in Procs PROVE Coherent(q)'
    <3>1. CASE q # p
      <4>1. proc'[q] = proc[q]
        BY <1>own, <3>1, <1>2
      <4> QED
        BY <1>own, <4>1, <1>1, OthersCoherent
    <3>2. CASE q = p /\ m.at = "idle"
      <4>1. proc'[q].at = "idle"
        BY <1>own, <3>2, <1>2
      <4> QED
        BY <4>1 DEF Coherent, MayBind
    <3> QED
      BY <1>own, <3>1, <3>2
  <2>3. WritesAsVerified'
    BY <1>own, <1>0, <1>1 DEF WritesAsVerified
  <2> QED
    BY <1>own, <2>1, <2>2, <2>3
\* A process that changes the session is alone.
<1>alone. ASSUME NEW p \in Procs, NEW m, proc' = [proc EXCEPT ![p] = m], Alone(p),
                 UNCHANGED <<toml, declared, writes>>, SessionTrue', m.at = "idle" \/ Coherent(p)'
          PROVE  Goal
  <2>1. ASSUME NEW q \in Procs PROVE Coherent(q)'
    <3>1. CASE q # p
      <4>1. proc'[q].at = "idle"
        BY <1>alone, <3>1, <1>2 DEF Alone
      <4> QED
        BY <4>1 DEF Coherent, MayBind
    <3>2. CASE q = p /\ m.at = "idle"
      <4>1. proc'[q].at = "idle"
        BY <1>alone, <3>2, <1>2
      <4> QED
        BY <4>1 DEF Coherent, MayBind
    <3> QED
      BY <1>alone, <3>1, <3>2
  <2>2. WritesAsVerified'
    BY <1>alone, <1>0, <1>1 DEF WritesAsVerified
  <2> QED
    BY <1>alone, <2>1, <2>2
<1>same. token' = token => StoredKept
  BY DEF StoredKept, Stored, Covering
<1> HIDE DEF Goal
<1>3. ASSUME UNCHANGED vars PROVE Goal
  <2>1. SessionTrue' /\ WritesAsVerified'
    BY <1>3, <1>1 DEF vars, SessionTrue, Stored, Covering, WritesAsVerified
  <2>2. \A q \in Procs : Coherent(q)'
    BY <1>3, <1>1, <1>same, OthersCoherent DEF vars
  <2> QED
    BY <2>1, <2>2, <1>3 DEF Goal, vars
<1>4. ASSUME NEW p \in Procs, NEW cmd \in Commands, Start(p, cmd) PROVE Goal
  <2> DEFINE m == [Idle EXCEPT !.cmd = cmd, !.toml = toml,
                     !.at = CASE cmd = "login" -> "login" [] cmd = "logout" -> "revoke"
                              [] cmd = "apply" -> "preview" [] OTHER -> "guard"]
  <2>1. /\ m.at \in {"login", "revoke", "preview", "guard"} /\ m.toml = toml
        /\ m.at = "login" => m.cmd = "login"
        /\ m.at = "preview" => m.cmd = "apply" /\ m.verified = NoOne
    BY DEF Idle, Commands, Writers
  <2>2. proc' = [proc EXCEPT ![p] = m] /\ UNCHANGED <<toml, token, session, declared, writes>>
    BY <1>4 DEF Start
  <2> HIDE DEF m
  <2>3. proc'[p] = m
    BY <2>2, <1>2
  <2>4. Coherent(p)'
    BY <2>1, <2>2, <2>3 DEF Coherent
  <2> QED
    BY <2>2, <2>4, <1>own, <1>same
<1>5. ASSUME NEW p \in Procs, GuardWrite(p) PROVE Goal
  <2>1. PICK g \in Callers(session.scope) :
          /\ Called(p, session.scope, g)
          /\ Bound(p, g)
          /\ IF Outcome(proc[p].toml, g) = "mismatch" THEN Exit(p)
             ELSE proc' = [proc EXCEPT ![p].at = "write", ![p].verified = g]
    BY <1>5 DEF GuardWrite
  <2>2. /\ proc[p].at = "guard" /\ proc[p].cmd \in Writers /\ session # NoSession
        /\ UNCHANGED <<session, declared, writes>>
    BY <1>5 DEF GuardWrite
  <2>3. g = session.who /\ StoredKept
    BY <2>1, <2>2, <1>1, <1>2, CalledAsSession, CalledKeeps DEF Session
  <2>4. proc[p].toml.state # "bound" /\ toml.state = "bound" => g = toml.who
    BY <2>2, <2>3, <1>1 DEF Coherent, MayBind
  <2>5. /\ toml.state = "bound" => toml' = toml
        /\ toml' = toml \/ toml'.who = session.who
    BY <2>1, <2>3, <2>4, BoundAgain
  <2>6. CASE Exit(p)
    BY <2>2, <2>3, <2>5, <2>6, <1>own DEF Exit, Idle
  <2>7. CASE ~Exit(p)
    <3> DEFINE m == [proc[p] EXCEPT !.at = "write", !.verified = g]
    <3>1. /\ proc' = [proc EXCEPT ![p] = m] /\ m.at = "write" /\ m.verified = g
          /\ m.cmd \in Writers /\ m.toml = proc[p].toml
      BY <2>1, <2>2, <2>7, <1>2 DEF Memory
    <3>2. declared \in {g, NoOne}
      BY <2>1, <2>2, <2>7, VerifiedIsDeclared
    <3> HIDE DEF m
    <3>3. proc'[p] = m
      BY <3>1, <1>2
    <3>4. m.toml.state # "bound" /\ toml'.state = "bound" => session.who = toml'.who
      BY <2>3, <2>4, <2>5, <3>1
    <3>5. Coherent(p)'
      BY <2>2, <2>3, <3>1, <3>2, <3>3, <3>4 DEF Coherent
    <3> QED
      BY <2>2, <2>3, <2>5, <3>1, <3>5, <1>own
  <2> QED
    BY <2>6, <2>7
<1>6. ASSUME NEW p \in Procs, GuardRead(p) PROVE Goal
  <2> DEFINE m == [proc[p] EXCEPT !.at = "read"]
  <2>1. proc' = [proc EXCEPT ![p] = m] /\ m.at = "read" /\ UNCHANGED <<session, declared, writes>>
    BY <1>6, <1>2 DEF GuardRead, Goto, Memory
  <2> HIDE DEF m
  <2>2. proc'[p].at = "read"
    BY <2>1, <1>2
  <2>3. Coherent(p)'
    BY <2>2 DEF Coherent, MayBind
  <2>4. CASE UNCHANGED <<toml, token, crossed>>
    BY <2>1, <2>3, <2>4, <1>own, <1>same
  <2>5. CASE /\ session # NoSession
             /\ \E g \in Callers(session.scope) : Called(p, session.scope, g) /\ Bound(p, g)
    <3>1. PICK g \in Callers(session.scope) : Called(p, session.scope, g) /\ Bound(p, g)
      BY <2>5
    <3>2. g = session.who /\ StoredKept
      BY <3>1, <2>5, <1>1, <1>2, CalledAsSession, CalledKeeps DEF Session
    <3>3. proc[p].toml.state # "bound" /\ toml.state = "bound" => g = toml.who
      BY <1>6, <3>2, <1>1 DEF GuardRead, Coherent, MayBind
    <3>4. /\ toml.state = "bound" => toml' = toml
          /\ toml' = toml \/ toml'.who = session.who
      BY <3>1, <3>2, <3>3, BoundAgain
    <3> QED
      BY <2>1, <2>3, <2>5, <3>2, <3>4, <1>own
  <2> QED
    BY <1>6, <2>4, <2>5 DEF GuardRead
<1>exit. ASSUME NEW p \in Procs, Exit(p), UNCHANGED <<toml, session, declared, writes>>, StoredKept
         PROVE  Goal
  BY <1>exit, <1>own DEF Exit, Idle
<1>7. ASSUME NEW p \in Procs, Read(p) PROVE Goal
  <2>1. StoredKept
    <3>1. CASE UNCHANGED <<token, crossed>>
      BY <3>1, <1>same
    <3>2. CASE \E g \in Callers(session.scope) : Called(p, session.scope, g)
      BY <3>2, <1>2, CalledKeeps DEF Session
    <3> QED
      BY <1>7, <3>1, <3>2 DEF Read
  <2> QED
    BY <1>7, <2>1, <1>exit DEF Read
<1>8. ASSUME NEW p \in Procs, Write(p) PROVE Goal
  <2>1. PICK g \in Callers("write") :
          /\ Called(p, "write", g)
          /\ writes' = {[who |-> g, verified |-> proc[p].verified]}
    BY <1>8 DEF Write
  <2>2. /\ proc[p].at = "write" /\ session.scope = "write"
        /\ UNCHANGED <<toml, session, proc, declared>>
    BY <1>8 DEF Write
  <2>3. /\ session # NoSession
        /\ proc[p].verified # NoOne =>
             proc[p].verified = session.who /\ declared \in {proc[p].verified, NoOne}
    BY <2>2, <1>1 DEF Coherent, NoSession
  <2>4. g = session.who /\ StoredKept
    BY <2>1, <2>2, <2>3, <1>1, <1>2, CalledAsSession, CalledKeeps DEF Session
  <2>5. WritesAsVerified'
    <3> DEFINE w == [who |-> g, verified |-> proc[p].verified]
    <3>1. w.verified # NoOne => w.who = w.verified /\ declared \in {w.who, NoOne}
      BY <2>3, <2>4
    <3>2. writes' = {w}
      BY <2>1
    <3> HIDE DEF w
    <3> QED
      BY <3>1, <3>2, <2>2, <1>0, <1>1 DEF WritesAsVerified
  <2>6. \A q \in Procs : Coherent(q)'
    BY <2>2, <2>4, <1>1, OthersCoherent
  <2>7. SessionTrue'
    <3>1. session.scope \in Scopes /\ Stored(session.scope) # NoOne
      BY <2>3, <1>1, <1>2, PeopleAssumption DEF SessionTrue, Session
    <3>2. Stored(session.scope)' = Stored(session.scope)
      BY <3>1, <2>2, <2>4 DEF StoredKept, Stored, Covering
    <3> QED
      BY <1>1, <2>2, <3>2 DEF SessionTrue
  <2> QED
    BY <2>2, <2>5, <2>6, <2>7 DEF Goal
<1>9. ASSUME NEW p \in Procs, Widen(p) PROVE Goal
  <2> DEFINE m == [proc[p] EXCEPT !.at = "token", !.old = session, !.scope = "write"]
  <2>1. /\ proc[p].at = "write" /\ proc' = [proc EXCEPT ![p] = m] /\ m.at = "token"
        /\ m.old = session /\ m.cmd = proc[p].cmd /\ m.verified = proc[p].verified
        /\ m.toml = proc[p].toml
    BY <1>9, <1>2 DEF Widen, Memory
  <2>2. UNCHANGED <<toml, token, session, declared, writes>>
    BY <1>9 DEF Widen
  <2> HIDE DEF m
  <2>3. proc'[p] = m
    BY <2>1, <1>2
  <2>4. /\ proc[p].cmd \in Writers
        /\ proc[p].verified # NoOne =>
             /\ session # NoSession /\ proc[p].verified = session.who
             /\ declared \in {proc[p].verified, NoOne}
        /\ proc[p].toml.state # "bound" /\ toml.state = "bound" =>
             session # NoSession /\ session.who = toml.who
    <3>1. Coherent(p) /\ proc[p].at = "write"
      BY <2>1, <1>1
    <3> QED
      BY <3>1 DEF Coherent, MayBind
  <2>5. Coherent(p)'
    <3>1. proc[p].cmd # "login"
      BY <2>4 DEF Writers
    <3> QED
      BY <2>1, <2>2, <2>3, <2>4, <3>1 DEF Coherent
  <2> QED
    BY <2>1, <2>2, <2>5, <1>own, <1>same
<1>10. ASSUME NEW p \in Procs, LoginStart(p) PROVE Goal
  <2>1. UNCHANGED <<toml, token, session, declared, writes>> /\ proc[p].at = "login"
    BY <1>10 DEF LoginStart
  <2>2. CASE Exit(p)
    BY <2>1, <2>2, <1>exit, <1>same
  <2>3. CASE ~Exit(p)
    <3> DEFINE m == [proc[p] EXCEPT !.at = "token", !.old = session, !.scope = session.scope]
    <3>1. proc' = [proc EXCEPT ![p] = m]
      BY <1>10, <2>3, <1>2 DEF LoginStart, Memory
    <3>2. /\ m.at = "token" /\ m.old = session /\ m.scope = session.scope
          /\ m.cmd = proc[p].cmd /\ m.toml = proc[p].toml
      BY <1>2 DEF Memory
    <3> HIDE DEF m
    <3>3. proc'[p] = m
      BY <3>1, <1>2
    <3>4. proc[p].cmd = "login"
      BY <2>1, <1>1 DEF Coherent
    <3>5. Coherent(p)'
      BY <2>1, <3>2, <3>3, <3>4, <1>1 DEF Coherent, MayBind, Writers
    <3> QED
      BY <2>1, <3>1, <3>5, <1>own, <1>same
  <2> QED
    BY <2>2, <2>3
<1>11. ASSUME NEW p \in Procs, GetToken(p) PROVE Goal
  <2>1. PICK g \in Callers(proc[p].scope) :
          /\ Called(p, proc[p].scope, g)
          /\ proc' = [proc EXCEPT ![p].at = "store", ![p].who = g]
    BY <1>11 DEF GetToken
  <2>2. UNCHANGED <<toml, session, declared, writes>> /\ proc[p].at = "token"
    BY <1>11 DEF GetToken
  <2> DEFINE m == [proc[p] EXCEPT !.at = "store", !.who = g]
  <2>3. proc' = [proc EXCEPT ![p] = m]
    BY <2>1, <1>2 DEF Memory
  <2>4. /\ m.at = "store" /\ m.who = g /\ m.old = proc[p].old /\ m.scope = proc[p].scope
        /\ m.cmd = proc[p].cmd /\ m.toml = proc[p].toml /\ m.verified = proc[p].verified
    BY <1>2 DEF Memory
  <2> HIDE DEF m
  <2>5. proc'[p] = m
    BY <2>3, <1>2
  <2>6. proc[p].scope \in Scopes
    BY <1>2 DEF Memory
  <2>7. StoredKept /\ (IF token'[proc[p].scope] # NoOne THEN token'[proc[p].scope]
                       ELSE token'["write"]) = g
    BY <2>1, <2>6, CalledKeeps DEF Stored, Covering
  <2>8. Coherent(p)'
    <3>1. Stored(proc[p].scope)' = g
      BY <2>4, <2>5, <2>7 DEF Stored, Covering
    <3> QED
      BY <2>2, <2>4, <2>5, <3>1, <1>1 DEF Coherent, MayBind
  <2> QED
    BY <2>2, <2>3, <2>7, <2>8, <1>own
<1>12. ASSUME NEW p \in Procs, Store(p) PROVE Goal
  <2>1. proc[p].at = "store" /\ UNCHANGED <<toml, token, declared, writes>>
    BY <1>12 DEF Store
  <2>2. CASE Exit(p) /\ UNCHANGED session
    BY <2>1, <2>2, <1>exit, <1>same
  <2>3. CASE ~(Exit(p) /\ UNCHANGED session)
    <3> DEFINE next == IF proc[p].cmd = "login" THEN "bind" ELSE "write"
               m == [proc[p] EXCEPT !.at = next]
    <3>1. /\ proc[p].old = NoSession \/ proc[p].old.who = proc[p].who
          /\ session' = [who |-> proc[p].who, scope |-> proc[p].scope]
          /\ Alone(p)
      BY <1>12, <2>3, <1>0 DEF Store
    <3>2. proc' = [proc EXCEPT ![p] = m]
      BY <1>12, <2>3, <1>2 DEF Store, Goto, Memory
    <3>3. /\ m.at = next /\ m.who = proc[p].who /\ m.scope = proc[p].scope /\ m.cmd = proc[p].cmd
          /\ m.toml = proc[p].toml /\ m.verified = proc[p].verified
      BY <1>2 DEF Memory
    <3> HIDE DEF m
    <3>4. proc'[p] = m
      BY <3>2, <1>2
    <3>5. proc[p].who \in People /\ Stored(proc[p].scope) = proc[p].who
      BY <2>1, <1>1 DEF CallerKnown, Coherent
    <3>6. session'.who = proc[p].who /\ session'.scope = proc[p].scope /\ session' # NoSession
      BY <3>1, <3>5, PeopleAssumption DEF NoSession
    <3>7. \A s : Stored(s)' = Stored(s)
      BY <2>1 DEF Stored, Covering
    <3>8. SessionTrue'
      BY <2>1, <3>5, <3>6 DEF SessionTrue, Stored, Covering
    <3>9. session = proc[p].old /\ proc[p].cmd \in {"login"} \cup Writers
      BY <2>1, <1>1 DEF Coherent
    <3>10. session # NoSession => session'.who = session.who
      BY <3>1, <3>6, <3>9
    <3>11. Stored(proc[p].scope)' = proc[p].who
      BY <2>1, <3>3, <3>4, <3>5 DEF Stored, Covering
    <3>12. Coherent(p)'
      <4>1. CASE proc[p].cmd = "login"
        BY <2>1, <4>1, <3>3, <3>4, <3>6, <3>10, <3>11, <1>1 DEF Coherent, MayBind
      <4>2. CASE proc[p].cmd \in Writers
        BY <2>1, <4>2, <3>3, <3>4, <3>6, <3>10, <1>1 DEF Coherent, MayBind, Writers
      <4> QED
        BY <4>1, <4>2, <3>9
    <3> QED
      BY <2>1, <3>1, <3>2, <3>8, <3>12, <1>alone
  <2> QED
    BY <2>2, <2>3
<1>13. ASSUME NEW p \in Procs, BindLogin(p) PROVE Goal
  <2>1. /\ proc[p].at = "bind" /\ Bound(p, proc[p].who) /\ Exit(p)
        /\ UNCHANGED <<token, session, declared, writes>>
    BY <1>13 DEF BindLogin
  <2>2. session # NoSession /\ session.who = proc[p].who
    BY <2>1, <1>1 DEF Coherent
  <2>3. proc[p].toml.state # "bound" /\ toml.state = "bound" => proc[p].who = toml.who
    BY <2>1, <2>2, <1>1 DEF Coherent, MayBind
  <2>4. /\ toml.state = "bound" => toml' = toml
        /\ toml' = toml \/ toml'.who = session.who
    BY <2>1, <2>2, <2>3, BoundAgain
  <2> QED
    BY <2>1, <2>2, <2>4, <1>own, <1>same DEF Exit, Idle
<1>14. ASSUME NEW p \in Procs, DropSession(p) PROVE Goal
  <2> DEFINE m == [proc[p] EXCEPT !.at = "untoken"]
  <2>1. /\ proc' = [proc EXCEPT ![p] = m] /\ m.at = "untoken" /\ Alone(p)
        /\ session' = NoSession /\ UNCHANGED <<toml, token, declared, writes>>
    BY <1>14, <1>0, <1>2 DEF DropSession, Goto, Memory
  <2> HIDE DEF m
  <2>2. proc'[p].at = "untoken"
    BY <2>1, <1>2
  <2>3. Coherent(p)' /\ SessionTrue'
    BY <2>1, <2>2 DEF Coherent, MayBind, SessionTrue
  <2> QED
    BY <2>1, <2>3, <1>alone
<1>15. ASSUME NEW p \in Procs, DropToken(p) PROVE Goal
  <2>1. /\ Exit(p) /\ Alone(p) /\ session = NoSession
        /\ UNCHANGED <<toml, session, declared, writes>>
    BY <1>15, <1>0, <1>1 DEF DropToken, Coherent
  <2>2. SessionTrue'
    BY <2>1 DEF SessionTrue
  <2> QED
    BY <2>1, <2>2, <1>alone DEF Exit, Idle
<1>16. ASSUME NEW p \in Procs, Stop(p) PROVE Goal
  BY <1>16, <1>exit, <1>same DEF Stop
<1>17. ASSUME NEW p \in Procs, Preview(p) PROVE Goal
  <2> DEFINE m == [proc[p] EXCEPT !.at = IF found THEN "guard" ELSE "replan"]
  <2>1. /\ proc[p].at = "preview" /\ proc' = [proc EXCEPT ![p] = m]
        /\ m.at \in {"guard", "replan"} /\ m.cmd = proc[p].cmd /\ m.verified = proc[p].verified
        /\ m.toml = proc[p].toml /\ UNCHANGED <<toml, token, session, declared, writes>>
    BY <1>17, <1>2 DEF Preview, Goto, Memory
  <2> HIDE DEF m
  <2>2. proc'[p] = m
    BY <2>1, <1>2
  <2>3. Coherent(p)'
    BY <2>1, <2>2, <1>1 DEF Coherent, MayBind
  <2> QED
    BY <2>1, <2>3, <1>own, <1>same
<1>18. ASSUME NEW p \in Procs, Replan(p) PROVE Goal
  <2>1. proc[p].at = "replan" /\ UNCHANGED <<toml, token, session, declared, writes>>
    BY <1>18 DEF Replan
  <2>2. CASE Exit(p)
    BY <2>1, <2>2, <1>exit, <1>same
  <2>3. CASE Goto(p, "write")
    <3> DEFINE m == [proc[p] EXCEPT !.at = "write"]
    <3>1. /\ proc' = [proc EXCEPT ![p] = m] /\ m.at = "write" /\ m.cmd = proc[p].cmd
          /\ m.verified = proc[p].verified /\ m.toml = proc[p].toml
      BY <2>3, <1>2 DEF Goto, Memory
    <3> HIDE DEF m
    <3>2. proc'[p] = m
      BY <3>1, <1>2
    <3>3. Coherent(p)'
      BY <2>1, <3>1, <3>2, <1>1 DEF Coherent, MayBind, Writers
    <3> QED
      BY <2>1, <3>1, <3>3, <1>own, <1>same
  <2> QED
    BY <1>18, <2>2, <2>3 DEF Replan
<1>19. ASSUME NEW p \in Procs, Revoke(p) PROVE Goal
  <2> DEFINE m == [proc[p] EXCEPT !.at = "unsession"]
  <2>1. /\ proc' = [proc EXCEPT ![p] = m] /\ m.at = "unsession"
        /\ UNCHANGED <<toml, token, session, declared, writes>>
    BY <1>19, <1>2 DEF Revoke, Goto, Memory
  <2> HIDE DEF m
  <2>2. proc'[p].at = "unsession"
    BY <2>1, <1>2
  <2>3. Coherent(p)'
    BY <2>2 DEF Coherent, MayBind
  <2> QED
    BY <2>1, <2>3, <1>own, <1>same
<1>20. Goal
  <2>1. CASE Next
    <3>1. PICK p \in Procs :
            \/ \E cmd \in Commands : Start(p, cmd)
            \/ Preview(p) \/ GuardWrite(p) \/ Replan(p) \/ Write(p) \/ Widen(p)
            \/ GuardRead(p) \/ Read(p)
            \/ LoginStart(p) \/ GetToken(p) \/ Store(p) \/ BindLogin(p)
            \/ Revoke(p) \/ DropSession(p) \/ DropToken(p) \/ Stop(p)
      BY <2>1 DEF Next
    <3> QED
      BY <3>1, <1>4, <1>5, <1>6, <1>7, <1>8, <1>9, <1>10, <1>11, <1>12, <1>13, <1>14, <1>15,
         <1>16, <1>17, <1>18, <1>19
  <2> QED
    BY <2>1, <1>3
<1> QED
  BY <1>20 DEF Goal

LEMMA CalmInit == Init => CalmInv
<1> SUFFICES ASSUME Init PROVE CalmInv
  OBVIOUS
<1>1. SessionTrue
  BY DEF Init, SessionTrue, Stored, Covering, Scopes
<1>2. \A p \in Procs : proc[p].at = "idle"
  BY DEF Init, Idle
<1> QED
  BY <1>1, <1>2 DEF Init, CalmInv, Coherent, MayBind, WritesAsVerified

\* However many commands run at once, killed wherever: unless somebody signs in or out
\* beside a command, a command that has verified an account makes each call that writes
\* as that account, the declared one if there is one.
THEOREM VerifiedWrites == Spec => []WritesAsVerified
<1>1. TypeOK /\ CallerKnown /\ DeclaredRead /\ CalmInv /\ [Next]_vars => CalmInv'
  BY CalmStep
<1>2. CalmInv => WritesAsVerified
  BY DEF CalmInv, WritesAsVerified
<1> QED
  BY <1>1, <1>2, CalmInit, TypeCorrect, DeclaredReadAlways, PTL DEF Spec

\* A binding, once made, is never undone or changed, also by processes that have read
\* account.toml before; unless somebody signs in or out beside a command.
THEOREM BoundForGood == Spec => BindingStays
<1>1. TypeOK /\ CallerKnown /\ DeclaredRead /\ CalmInv /\ [Next]_vars
      => CalmInv' /\ [toml.state = "bound" /\ ~crossed' => toml' = toml]_vars
  BY CalmStep
<1> QED
  BY <1>1, CalmInit, TypeCorrect, DeclaredReadAlways, PTL DEF Spec, BindingStays

=============================================================================
