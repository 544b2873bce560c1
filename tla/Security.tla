------------------------------- MODULE Security -------------------------------
(***************************************************************************)
(* AuthorizationAspect of aspect-std/src/authorization.rs and of           *)
(* aspect-examples/src/security.rs, the latter with its AuditAspect: any   *)
(* number of authorizations around an audit around a function. All of them *)
(* ask for the current user for themselves; the user is one static for all *)
(* threads, and others may log in or out between any two of the questions. *)
(***************************************************************************)
EXTENDS Integers, Sequences

CONSTANTS
  Visitors,       \* threads that call the protected functions
  Roles,          \* the roles there are
  Users,          \* who may log in: records with the `roles` of each
  OtherFunctions  \* functions protected in other ways than the example's

Requirements == [roles : SUBSET Roles, all : BOOLEAN, login : BOOLEAN]

ASSUME SecurityAssumption ==
  /\ {"admin", "moderator", "user"} \subseteq Roles
  /\ OtherFunctions \subseteq Seq(Requirements)

NoUser == [roles |-> {}, anonymous |-> TRUE]

VARIABLES
  current_user,  \* CURRENT_USER, NoUser for None
  visits,        \* what each visitor's latest call is doing, or what came of it
  present        \* audit: who has been the current user since the call began

secVars == <<current_user, visits, present>>

-----------------------------------------------------------------------------
(* What is required. `all`: every role, otherwise some role. The aspect of *)
(* the example also requires that somebody is logged in.                   *)

Requirement(roles, all, login) == [roles |-> roles, all |-> all, login |-> login]

\* aspect-examples
RequireRole(role) == Requirement({role}, FALSE, TRUE)
RequireAnyRole(roles) == Requirement(roles, FALSE, TRUE)
RequireAllRoles(roles) == Requirement(roles, TRUE, TRUE)

\* aspect-std
StdRequireRole(role) == Requirement({role}, TRUE, FALSE)
StdRequireRoles(roles, all) == Requirement(roles, all, FALSE)

DeleteUser == <<RequireRole("admin")>>
BanUser == <<RequireAnyRole({"admin", "moderator"})>>
ViewProfile == <<RequireRole("user")>>
PublicEndpoint == << >>

ProtectedFunctions == {DeleteUser, BanUser, ViewProfile, PublicEndpoint} \cup OtherFunctions

\* User::has_role, has_any_role
HasRole(user, role) == role \in user.roles
HasAnyRole(user, roles) == \E role \in roles : HasRole(user, role)

\* Mutant: one role is as good as all.
AnyRoleWillDo(user, r) ==
  IF r.login THEN user # NoUser /\ HasAnyRole(user, r.roles)
  ELSE \E role \in r.roles : HasRole(user, role)

ExampleAllows(user, r) ==
  IF r.all THEN \A role \in r.roles : HasRole(user, role)
  ELSE HasAnyRole(user, r.roles)

StdAllows(user, r) ==
  IF r.all THEN \A role \in r.roles : HasRole(user, role)
  ELSE \E role \in r.roles : HasRole(user, role)

\* What `before` finds; the role provider of the other aspect gives no roles
\* where nobody is logged in.
Authorized(user, r) ==
  IF r.login THEN user # NoUser /\ ExampleAllows(user, r) ELSE StdAllows(user, r)

-----------------------------------------------------------------------------
(* The current user *)

SetCurrentUser(user) ==
  /\ current_user' = user
  /\ present' = [c \in Visitors |-> present[c] \cup {user}]
  /\ UNCHANGED visits

ClearCurrentUser == SetCurrentUser(NoUser)

-----------------------------------------------------------------------------
(* A call: `passed` of its checks, then the audit, the function, the audit. *)

Visit(fn, stage) ==
  [fn |-> fn, stage |-> stage, passed |-> 0, heard |-> << >>, result |-> "none"]

SecInit ==
  /\ current_user = NoUser
  /\ visits = [c \in Visitors |-> Visit(PublicEndpoint, "idle")]
  /\ present = [c \in Visitors |-> {}]

CallProtected(c, fn) ==
  /\ visits[c].stage \in {"idle", "over"}
  /\ visits' = [visits EXCEPT ![c] = Visit(fn, "entered")]
  /\ present' = [present EXCEPT ![c] = {current_user}]
  /\ UNCHANGED current_user

Checking(c) ==
  visits[c].stage = "entered" /\ visits[c].passed < Len(visits[c].fn)

NextCheck(c) == visits[c].fn[visits[c].passed + 1]

Passes(c) ==
  /\ Checking(c)
  /\ Authorized(current_user, NextCheck(c))
  /\ visits' = [visits EXCEPT ![c].passed = @ + 1]
  /\ UNCHANGED <<current_user, present>>

\* before panics, outside of all locks, and the aspects inside are not reached.
IsDenied(c) ==
  /\ Checking(c)
  /\ ~Authorized(current_user, NextCheck(c))
  /\ visits' = [visits EXCEPT ![c].stage = "over", ![c].result = "denied"]
  /\ UNCHANGED <<current_user, present>>

\* Mutant: the audit does not wait for the checks.
AuditBeforeAnyway(c) ==
  /\ visits[c].stage = "entered"
  /\ visits' = [visits EXCEPT ![c].stage = "running", ![c].heard = <<current_user>>]
  /\ UNCHANGED <<current_user, present>>

AuditBefore(c) ==
  /\ visits[c].stage = "entered" /\ ~Checking(c)
  /\ visits' = [visits EXCEPT ![c].stage = "running", ![c].heard = <<current_user>>]
  /\ UNCHANGED <<current_user, present>>

\* The functions of the example do not fail.
ProtectedBody(c) ==
  /\ visits[c].stage = "running"
  /\ \E r \in {"ok"} \cup (IF visits[c].fn \in OtherFunctions THEN {"err"} ELSE {}) :
       visits' = [visits EXCEPT ![c].stage = "ran", ![c].result = r]
  /\ UNCHANGED <<current_user, present>>

\* after, or after_error: it reads the current user once more.
AuditAfter(c) ==
  /\ visits[c].stage = "ran"
  /\ visits' = [visits EXCEPT ![c].stage = "over",
                              ![c].heard = Append(@, current_user)]
  /\ UNCHANGED <<current_user, present>>

\* Of the function, or of an aspect that prints.
PanicProtected(c) ==
  /\ visits[c].stage \notin {"idle", "over"}
  /\ visits' = [visits EXCEPT ![c].stage = "over", ![c].result = "panic"]
  /\ UNCHANGED <<current_user, present>>

SecNext ==
  \/ \E user \in Users : SetCurrentUser(user)
  \/ ClearCurrentUser
  \/ \E c \in Visitors :
       \/ \E fn \in ProtectedFunctions : CallProtected(c, fn)
       \/ Passes(c) \/ IsDenied(c)
       \/ AuditBefore(c) \/ ProtectedBody(c) \/ AuditAfter(c)
       \/ PanicProtected(c)

SecSpec == SecInit /\ [][SecNext]_secVars

-----------------------------------------------------------------------------
(* Safety *)

Anybody == Users \cup {NoUser}

SecTypeOK ==
  /\ current_user \in Anybody
  /\ visits \in [Visitors ->
       [fn : ProtectedFunctions, stage : {"idle", "entered", "running", "ran", "over"},
        passed : Nat, heard : Seq(Anybody), result : {"none", "ok", "err", "denied", "panic"}]]
  /\ \A c \in Visitors : visits[c].passed <= Len(visits[c].fn)
  /\ present \in [Visitors -> SUBSET Anybody]

\* What a requirement asks for, in terms of sets of roles.
Meets(user, r) ==
  /\ r.login => user # NoUser
  /\ IF r.all THEN r.roles \subseteq user.roles ELSE r.roles \cap user.roles # {}

\* When the function runs, each of its requirements was met by somebody who was
\* the current user at some time in the call, whoever logs in and out between
\* the checks (security.rs:100-118, authorization.rs:101-140).
EveryRequirementWasMet ==
  \A c \in Visitors : visits[c].stage \in {"running", "ran"} =>
    \A i \in 1..Len(visits[c].fn) : \E user \in present[c] : Meets(user, visits[c].fn[i])

\* If the same user is logged in all through a call, that user decides it: the
\* call is denied just where the user does not meet a requirement, and then the
\* audit hears nothing; a call that returns is audited twice, both times under
\* the user's name (security.rs:126-154).
SteadyUserDecides ==
  \A c \in Visitors, user \in Anybody :
    LET v == visits[c] IN
    v.stage = "over" /\ present[c] = {user} =>
      LET met == \A i \in 1..Len(v.fn) : Meets(user, v.fn[i]) IN
      /\ v.result = "denied" => ~met /\ v.heard = << >>
      /\ v.result \in {"ok", "err"} => met /\ v.heard = <<user, user>>
===============================================================================
