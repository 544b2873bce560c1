------------------------------ MODULE Validation ------------------------------
(***************************************************************************)
(* Calls whose arguments are validated: the rules of a ValidationAspect    *)
(* (aspect-std/src/validation.rs) around a function that checks for itself *)
(* what it is given, and tells a ConstraintValidator how that went         *)
(* (aspect-examples/src/validation.rs).                                    *)
(*                                                                         *)
(* A rule or a check is the set of the inputs it accepts.                  *)
(***************************************************************************)
EXTENDS Integers, Sequences

CONSTANTS
  Inputs,    \* arguments: records of username, email, age and bio
  RuleLists  \* ValidationAspects, each with the list of its rules

ASSUME ValidationAssumption ==
  /\ Inputs # {} /\ DOMAIN RuleLists # {}
  /\ Inputs \subseteq [username : [chars : Nat, bytes : Nat, wordlike : BOOLEAN],
                       email : [at : BOOLEAN, dot : BOOLEAN], age : Int, bio : Nat]
  /\ \A a \in DOMAIN RuleLists : Len(RuleLists[a]) \in Nat

VARIABLES validated  \* what the latest call is doing, or what came of it

-----------------------------------------------------------------------------
(* Rules of aspect-std; a getter may find no value, and the rule accepts.  *)

Fields == {"username", "age"}

Found(getter, input) == IF getter \in Fields THEN {input[getter]} ELSE {}

NotEmptyValidator(getter) ==
  {in \in Inputs : \A text \in Found(getter, in) : text.bytes # 0}

RangeValidator(getter, min, max) ==
  {in \in Inputs : \A value \in Found(getter, in) : ~(value < min \/ value > max)}

CustomValidator(accepts) == {in \in Inputs : accepts[in]}

-----------------------------------------------------------------------------
(* What the functions of the example check, in this order; a name's length *)
(* is counted in bytes.                                                    *)

ValidateUsername ==
  {in \in Inputs : in.username.bytes \in 3..20 /\ in.username.wordlike}
ValidateEmail == {in \in Inputs : in.email.at /\ in.email.dot}
ValidateAge == {in \in Inputs : in.age \in 0..150}
ValidateBio == {in \in Inputs : in.bio <= 500}

CreateUser == <<ValidateUsername, ValidateEmail, ValidateAge>>
UpdateProfile == <<ValidateBio>>
SetAge == <<ValidateAge>>

OwnChecks == [create_user |-> CreateUser, update_profile |-> UpdateProfile,
              set_age |-> SetAge]

-----------------------------------------------------------------------------
(* A call *)

Validating(input, aspect, fn, stage) ==
  [stage |-> stage, input |-> input, aspect |-> aspect, fn |-> fn, passed |-> 0,
   entered |-> FALSE, result |-> "none", told |-> "none"]

ValInit ==
  validated = Validating(CHOOSE in \in Inputs : TRUE,
                         CHOOSE a \in DOMAIN RuleLists : TRUE, "set_age", "over")

CallValidated ==
  /\ validated.stage = "over"
  /\ \E input \in Inputs, aspect \in DOMAIN RuleLists, fn \in DOMAIN OwnChecks :
       validated' = Validating(input, aspect, fn, "checking")

\* The rules of the aspect while the function has not been entered, then its own.
Checks == IF validated.entered THEN OwnChecks[validated.fn]
          ELSE RuleLists[validated.aspect]
MoreChecks == validated.stage = "checking" /\ validated.passed < Len(Checks)
NextAccepts == validated.input \in Checks[validated.passed + 1]

\* Mutant: the rules after one that accepts are not asked.
RulesPass ==
  /\ MoreChecks /\ NextAccepts
  /\ validated' = [validated EXCEPT !.passed = Len(Checks)]

RulePasses ==
  /\ MoreChecks /\ NextAccepts
  /\ validated' = [validated EXCEPT !.passed = @ + 1]

\* validate returns at the first rule that fails, and so does the function.
RuleFails ==
  /\ MoreChecks /\ ~NextAccepts
  /\ validated' = [validated EXCEPT !.stage = "leaving", !.result = "err"]

Proceeds ==
  /\ validated.stage = "checking" /\ ~MoreChecks
  /\ validated' = IF validated.entered
                  THEN [validated EXCEPT !.stage = "leaving", !.result = "ok"]
                  ELSE [validated EXCEPT !.entered = TRUE, !.passed = 0]

\* after or after_error of the ConstraintValidator.
TellValidator ==
  /\ validated.stage = "leaving"
  /\ validated' = [validated EXCEPT !.stage = "over",
       !.told = IF validated.result = "ok" THEN "satisfied" ELSE "failed"]

ValNext == CallValidated \/ RulePasses \/ RuleFails \/ Proceeds \/ TellValidator

ValSpec == ValInit /\ [][ValNext]_validated

-----------------------------------------------------------------------------
(* Safety *)

\* The call in hand is of its type, and has passed no more checks than there are.
ValTypeOK ==
  /\ validated.stage \in {"checking", "leaving", "over"}
  /\ validated.input \in Inputs
  /\ validated.passed \in 0..Len(Checks)
  /\ validated.entered \in BOOLEAN

\* "All constraints satisfied" is told of a call exactly if every rule of the
\* aspect and every check of the function accepts its input, here written as
\* the limits that the messages state; the function is entered exactly if no
\* rule of the aspect refuses (validation.rs:67-95 of aspect-std, :181-237 of
\* the example). Names are counted in characters, of one byte each.
SatisfiedIsTold ==
  LET v == validated
      AllAccept == \A i \in 1..Len(RuleLists[v.aspect]) :
                     v.input \in RuleLists[v.aspect][i]
      Limits ==
        /\ v.fn = "create_user" => /\ v.input.username.chars >= 3
                                   /\ v.input.username.chars <= 20
                                   /\ v.input.email.at /\ v.input.email.dot
        /\ v.fn \in {"create_user", "set_age"} => v.input.age >= 0 /\ v.input.age <= 150
        /\ v.fn = "update_profile" => v.input.bio <= 500
      OneByte == v.input.username.chars = v.input.username.bytes
  IN  v.stage = "over" /\ v.told # "none" =>
        /\ v.entered <=> AllAccept
        /\ OneByte /\ v.input.username.wordlike =>
             (v.told = "satisfied" <=> AllAccept /\ Limits)
===============================================================================
