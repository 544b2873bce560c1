------------------------------ MODULE MCAspects ------------------------------
(***************************************************************************)
(* The registry with the advice functions registered in it, and aspects    *)
(* that keep state or consult it, in one instance for TLC. The parts share *)
(* nothing: a behaviour exercises one of them.                             *)
(***************************************************************************)
EXTENDS AdviceRegistration, Measurement, Transactions, Security, Validation,
        UserApi, TLC

-----------------------------------------------------------------------------
(* Registry: one aspect that matches and one that does not, besides advice. *)

MCOffered == {[order |-> 1, fns |-> Targets, advice |-> FALSE],
              [order |-> 0, fns |-> {}, advice |-> TRUE]}

Argument(key, value) == [key |-> key, value |-> value]

MCWritten ==
  [a \in {"audit", "early", "broken", "odd"} |->
     CASE a = "audit" -> <<Argument("order", 0), Argument("advice", "before"),
                           Argument("pointcut", [parses |-> TRUE, fns |-> Targets])>>
       [] a = "early" -> <<Argument("pointcut", [parses |-> TRUE, fns |-> Targets]),
                           Argument("order", -1)>>
       [] a = "broken" -> <<Argument("pointcut", [parses |-> FALSE, fns |-> {}])>>
       [] a = "odd" -> <<Argument("pointcut", [parses |-> TRUE, fns |-> Targets]),
                         Argument("priority", 1)>>]

-----------------------------------------------------------------------------
(* Security: some who hold one role, two or all, and other requirements. *)

MCUsers == {[name |-> "ada", roles |-> {"admin", "user"}],
            [name |-> "mod", roles |-> {"moderator", "user"}],
            [name |-> "bob", roles |-> {"user"}]}

MCOtherFunctions == {
  <<StdRequireRoles({"admin", "moderator"}, TRUE)>>,
  <<StdRequireRoles({"moderator", "admin"}, FALSE), StdRequireRole("admin")>>,
  <<RequireAllRoles({"admin", "user"})>>}

-----------------------------------------------------------------------------
(* Validation: limits met and missed by one, and a name of wider characters. *)

Name(chars, bytes, wordlike) == [chars |-> chars, bytes |-> bytes, wordlike |-> wordlike]

Input(username, email, age, bio) ==
  [username |-> username, email |-> email, age |-> age, bio |-> bio]
Email(at, dot) == [at |-> at, dot |-> dot]

MCInputs ==
  {Input(n, Email(TRUE, TRUE), 150, 500) :
     n \in {Name(0, 0, TRUE), Name(2, 2, TRUE), Name(2, 4, TRUE), Name(3, 3, TRUE),
            Name(3, 3, FALSE), Name(20, 20, TRUE), Name(21, 21, TRUE)}}
  \cup {Input(Name(3, 3, TRUE), Email(at, dot), 0, 501) : at, dot \in BOOLEAN}
  \cup {Input(Name(3, 3, TRUE), Email(TRUE, TRUE), age, 500) : age \in {-1, 151}}

MCRuleLists ==
  [a \in {"none", "limits", "custom"} |->
     CASE a = "none" -> << >>
       [] a = "limits" -> <<NotEmptyValidator("username"), RangeValidator("age", 0, 150)>>
       [] a = "custom" -> <<RangeValidator("missing", 0, 1),
                            CustomValidator([in \in Inputs |-> in.email.at])>>]

MCPosted == {[id |-> 1, username |-> "new", email |-> "n@b"],
             [id |-> 2, username |-> "new", email |-> "n@b"],
             [id |-> 1, username |-> "", email |-> "n@b"],
             [id |-> 2, username |-> "new", email |-> "no at sign"]}

-----------------------------------------------------------------------------

VARIABLE part  \* what the behaviour exercises

allVars == <<registryPart, vars, txVars, secVars, validated, apiVars, part>>

AspectsInit ==
  /\ RegistryInit /\ AdviceInit
  /\ Init /\ TxInit /\ SecInit /\ ValInit /\ ApiInit
  /\ part \in {"registry", "measurement", "transactions", "security", "validation", "api"}

AspectsNext ==
  /\ \/ /\ part = "registry" /\ AdviceNext
        /\ UNCHANGED <<vars, txVars, secVars, validated, apiVars>>
     \/ /\ part = "measurement" /\ Next
        /\ UNCHANGED <<registryPart, txVars, secVars, validated, apiVars>>
     \/ /\ part = "transactions" /\ TxNext
        /\ UNCHANGED <<registryPart, vars, secVars, validated, apiVars>>
     \/ /\ part = "security" /\ SecNext
        /\ UNCHANGED <<registryPart, vars, txVars, validated, apiVars>>
     \/ /\ part = "validation" /\ ValNext
        /\ UNCHANGED <<registryPart, vars, txVars, secVars, apiVars>>
     \/ /\ part = "api" /\ ApiNext
        /\ UNCHANGED <<registryPart, vars, txVars, secVars, validated>>
  /\ UNCHANGED part

AspectsSpec == AspectsInit /\ [][AspectsNext]_allVars

\* Every variable of the part that is exercised stays in its type.
AspectsTypeOK ==
  CASE part = "registry" -> RegistryTypeOK /\ AdviceTypeOK
    [] part = "measurement" -> TypeOK
    [] part = "transactions" -> TxTypeOK
    [] part = "security" -> SecTypeOK
    [] part = "validation" -> ValTypeOK
    [] part = "api" -> ApiTypeOK

\* Threads of a kind are interchangeable.
AspectsSymmetry == Permutations(Threads) \cup Permutations(Callers)
===============================================================================
