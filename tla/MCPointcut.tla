------------------------------ MODULE MCPointcut ------------------------------
(***************************************************************************)
(* The texts, the driver's matcher with the code it generates, and runs of *)
(* the tools in one instance for TLC. They do not interact: a behaviour    *)
(* writes a text, registers aspects or runs a tool.                        *)
(***************************************************************************)
EXTENDS PointcutText, DriverWeave, DriverRun

Api == <<"api">>

MCPatterns ==
  [a \in {"pub get*", "accented", "in api", "named get"} |->
     CASE a = "pub get*" ->
            [kind |-> "execution", vis |-> "pub", anyArgs |-> TRUE, wide |-> 0,
             name |-> [before |-> FALSE, word |-> <<"get">>, after |-> TRUE]]
       [] a = "accented" ->
            [kind |-> "execution", vis |-> "any", anyArgs |-> FALSE, wide |-> 1,
             name |-> [before |-> FALSE, word |-> <<"accented">>, after |-> FALSE]]
       [] a = "in api" -> [kind |-> "within", path |-> <<<<"crate">>, Api>>, wide |-> 0]
       [] a = "named get" ->
            [kind |-> "name", wide |-> 0,
             name |-> [before |-> FALSE, word |-> <<"get">>, after |-> FALSE]]]

Function(path, name, vis) == [path |-> path, name |-> name, vis |-> vis]

MCFunctions == {
  Function(<<<<"crate">>, Api>>, <<"get">>, "pub"),
  Function(<<<<"crate">>, Api, <<"user">>>>, <<"accented">>, "pub"),
  Function(<<<<"crate">>, <<"get", "ters">>>>, <<"save">>, "pub(crate)"),
  Function(<<<<"crate">>>>, <<"get", "user">>, "")}

Registration(name, pointcut, priority, advice) ==
  [name |-> name, pointcut |-> pointcut, priority |-> priority, advice |-> advice]

MCOffered ==
  {Registration("log", p, 0, "Before") : p \in {<<"pub get*">>, <<"!", "in api">>}}
  \cup {Registration("log", <<"pub get*">>, 1, "Around"),
        Registration("audit", <<"named get">>, 0, "After"),
        Registration("audit", <<"pub get*">>, 1, "After")}
  \cup {Registration("retry", p, priority, "Around") :
          p \in {<<"pub get*">>, <<"named get">>}, priority \in {0, 1}}

Module(name) == [ns |-> "TypeNs", name |-> name]
Around(name) == [ns |-> "ValueNs", name |-> name]

Item(kind, path, name, vis) == [kind |-> kind, path |-> path, name |-> name, vis |-> vis]

MCCrate == <<
  Item("fn", << >>, <<"get">>, "pub"),
  Item("fn", <<Module(Api)>>, <<"get">>, "pub(crate)"),
  Item("fn", <<Module(Api), Module(<<"user">>)>>, <<"save">>, "pub"),
  Item("fn", <<Module(Api), Around(<<"get">>)>>, <<"inner">>, ""),
  Item("method", <<Module(Api)>>, <<"get", "user">>, "pub"),
  Item("fn", <<Module(<<"get", "ters">>)>>, <<"api">>, "")>>

MCMeaning ==
  [w \in {"execution(pub)", "within(api)", "within(crate::api)", "get"} |->
     CASE w = "execution(pub)" -> [kind |-> "public"]
       [] w = "within(api)" -> [kind |-> "within", parts |-> Api]
       [] w = "within(crate::api)" -> [kind |-> "within", parts |-> <<"crate", "::", "api">>]
       [] w = "get" -> [kind |-> "name", parts |-> <<"get">>]]

allVars == <<textVars, matcherVars, runVars>>

Init == TextInit /\ MatcherInit /\ RunInit

Next ==
  \/ aspects = << >> /\ driver.stage = "idle" /\ Write /\ UNCHANGED <<matcherVars, runVars>>
  \/ text = << >> /\ driver.stage = "idle" /\ MatcherNext /\ UNCHANGED <<textVars, runVars>>
  \/ text = << >> /\ aspects = << >> /\ RunNext /\ UNCHANGED <<textVars, matcherVars>>

Spec == Init /\ [][Next]_allVars

TypeOK == TextTypeOK /\ MatcherTypeOK /\ RunTypeOK
===============================================================================
