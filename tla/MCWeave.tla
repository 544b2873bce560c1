------------------------------- MODULE MCWeave --------------------------------
(* Instances of Weave for TLC. *)
EXTENDS Weave

AllFunctions == [async : BOOLEAN, returns : Returns]
SyncFunctions == [async : {FALSE}, returns : {"value", "Result"}]

AllAttributes ==
  [trait : {"Aspect", "AsyncAspect"}, around : {"default", "custom", "limit"},
   expr : Wordings]
==============================================================================
