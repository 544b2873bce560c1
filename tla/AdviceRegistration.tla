-------------------------- MODULE AdviceRegistration --------------------------
(***************************************************************************)
(* #[advice(..)] (aspect-macros/src/advice_macro.rs): an attribute on a    *)
(* function that makes an aspect of it, and a static Lazy, the registrar,  *)
(* that puts the aspect into the registry when it is dereferenced. The     *)
(* macro only takes a reference to the static; somebody else's dereference *)
(* forces it. The first one runs it while others wait; one that panics     *)
(* leaves it poisoned for good.                                            *)
(***************************************************************************)
EXTENDS Registry

CONSTANTS
  AdviceFunctions,  \* functions that carry the attribute
  Written           \* the arguments of each: a sequence of [key, value]

\* What is written may be wrong, but is of the kind that its key asks for.
ASSUME AdviceAssumption ==
  /\ 0 \in Orders
  /\ \A a \in AdviceFunctions : Len(Written[a]) \in Nat
  /\ \A a \in AdviceFunctions : \A i \in 1..Len(Written[a]) :
       LET arg == Written[a][i] IN
         /\ arg.key = "pointcut" => arg.value \in [parses : BOOLEAN, fns : SUBSET Targets]
         /\ arg.key = "order" => arg.value \in Int
         /\ arg.key = "order" /\ arg.value >= 0 => arg.value \in Orders

VARIABLES
  registrar,  \* state of each advice function's registrar
  own         \* audit: the numbers under which its aspect was registered

adviceVars == <<registrar, own>>

-----------------------------------------------------------------------------
(* The macro *)

Kinds == {"before", "after", "after_error", "around"}

\* A pointcut is the functions it matches, and whether its text can be parsed.
NoPointcut == [parses |-> FALSE, fns |-> {}, missing |-> TRUE]
NoArgs == [ok |-> TRUE, pointcut |-> NoPointcut, kind |-> "around", order |-> 0]

\* One argument of the attribute; a later one of the same key replaces it. An
\* order that is not a literal, such as a negative number, is passed over.
ParseArgument(args, arg) ==
  CASE arg.key = "pointcut" -> [args EXCEPT !.pointcut = arg.value]
    [] arg.key = "advice" -> [args EXCEPT !.kind = arg.value]
    [] arg.key = "order" ->
         IF arg.value >= 0 THEN [args EXCEPT !.order = arg.value] ELSE args
    [] OTHER -> [args EXCEPT !.ok = FALSE]

ArgsOf(a) ==
  LET args[i \in 0..Len(Written[a])] ==
        IF i = 0 THEN NoArgs ELSE ParseArgument(args[i - 1], Written[a][i])
  IN  args[Len(Written[a])]

\* transform: a function whose attribute is refused is not compiled.
Accepted(a) ==
  /\ ArgsOf(a).ok
  /\ ArgsOf(a).pointcut # NoPointcut
  /\ ArgsOf(a).kind \in Kinds

\* Only generate_around_impl overrides the default Aspect::around.
KeepsDefaultAround(a) == ArgsOf(a).kind # "around"

-----------------------------------------------------------------------------
(* The registrar *)

AdviceInit ==
  /\ registrar = [a \in AdviceFunctions |-> "unforced"]
  /\ own = [a \in AdviceFunctions |-> {}]

\* Mutant: a registrar that is running may be started once more.
ForceRegistrarAgain(a) ==
  /\ registrar[a] \in {"unforced", "forced"} /\ Accepted(a)
  /\ registrar' = [registrar EXCEPT ![a] = "running"]
  /\ UNCHANGED own

ForceRegistrar(a) ==
  /\ registrar[a] = "unforced" /\ Accepted(a)
  /\ registrar' = [registrar EXCEPT ![a] = "running"]
  /\ UNCHANGED own

\* The text of the pointcut is parsed first: expect panics, before the registry
\* is locked.
ParsesPointcut(a) == ArgsOf(a).pointcut.parses

RegistrarRegisters(a) ==
  /\ registrar[a] = "running" /\ ParsesPointcut(a)
  /\ RegisterAspect(ArgsOf(a).order, ArgsOf(a).pointcut.fns, KeepsDefaultAround(a))
  /\ registrar' = [registrar EXCEPT ![a] = "forced"]
  /\ own' = [own EXCEPT ![a] = @ \cup {registered + 1}]

RegistrarPanics(a) ==
  /\ registrar[a] = "running" /\ ~ParsesPointcut(a)
  /\ registrar' = [registrar EXCEPT ![a] = "poisoned"]
  /\ UNCHANGED own

AdviceNext ==
  \/ RegistryNext /\ UNCHANGED adviceVars
  \/ \E a \in AdviceFunctions :
       \/ RegistrarRegisters(a)
       \/ (ForceRegistrar(a) \/ RegistrarPanics(a)) /\ UNCHANGED registryVars

registryPart == <<registryVars, adviceVars>>

AdviceSpec == RegistryInit /\ AdviceInit /\ [][AdviceNext]_registryPart

-----------------------------------------------------------------------------
(* Safety *)

AdviceTypeOK ==
  /\ registrar \in [AdviceFunctions -> {"unforced", "running", "forced", "poisoned"}]
  /\ own \in [AdviceFunctions -> SUBSET (1..MaxRegistrations)]

OwnAspects(a, s) == {i \in 1..Len(s) : s[i].id \in own[a]}

\* What the last argument with the key gives, or the default.
LastWritten(a, key, default) ==
  LET at == {i \in 1..Len(Written[a]) : Written[a][i].key = key}
  IN  IF at = {} THEN default ELSE Written[a][Max(at)].value

WrittenOrder(a) == LastWritten(a, "order", 0)

\* An advice function is around a call at most once, however many threads have
\* forced its registrar or cleared the registry since, and only after one of
\* them has; it is there by the last pointcut and the last order that its
\* attribute gives, unless the order is negative (advice_macro.rs:26-74, :120-133).
AdviceIsAppliedOnce ==
  \A c \in Threads, a \in AdviceFunctions : applied[c].stage = "run" =>
    LET around == applied[c].entered \o applied[c].pjp
        mine == OwnAspects(a, around) IN
    /\ Cardinality(mine) <= 1
    /\ mine # {} => /\ registrar[a] = "forced"
                    /\ applied[c].fn \in LastWritten(a, "pointcut", NoPointcut).fns
    /\ WrittenOrder(a) >= 0 => \A i \in mine : around[i].order = WrittenOrder(a)

\* "Execution order (lower runs first)" (advice_macro.rs:18): of two advice
\* functions around a call, the one that is written with the lower order is the
\* outer one.
WrittenOrderIsKept ==
  \A c \in Threads, a, b \in AdviceFunctions :
    applied[c].stage = "run" /\ WrittenOrder(a) < WrittenOrder(b) =>
      LET around == applied[c].entered \o applied[c].pjp
      IN  \A i \in OwnAspects(a, around), j \in OwnAspects(b, around) : i < j
===============================================================================
