------------------------------- MODULE ToolExecutor -------------------------------
(* tools/executor.go: what a tool call's arguments go through before the tool    *)
(* runs.  Values are abstracted to their JSON kind.                              *)
EXTENDS Naturals, Sequences

CONSTANTS Names,       \* names of parameters
          SystemNames, \* those that begin with an underscore
          Tools,       \* the names a model may call
          Registry,    \* the registered tools: name -> parameter -> specification
          None         \* no default

Kinds == {"string", "integer", "fraction", "boolean", "object", "array", "null"}
ParamTypes == {"string", "integer", "number", "boolean", "object", "array"}

(* checkType: a number without a fraction is an integer, null is nothing.        *)
Accepted(type) == IF type = "number" THEN {"integer", "fraction"} ELSE {type}

Parameter == [type : ParamTypes, required : BOOLEAN, default : Kinds \cup {None}]
Specifications == UNION {[S -> Parameter] : S \in SUBSET Names}
Params == UNION {[S -> Kinds] : S \in SUBSET (Names \cup SystemNames)}

ASSUME ExecutorAssumption ==
  /\ Names \cap SystemNames = {} /\ None \notin Kinds
  /\ DOMAIN Registry \subseteq Tools
  /\ \A tool \in DOMAIN Registry : Registry[tool] \in Specifications
-----------------------------------------------------------------------------------
Missing(spec, params) == {n \in DOMAIN spec \ DOMAIN params : spec[n].required}
IllTyped(spec, params) ==
  {n \in DOMAIN spec \cap DOMAIN params : params[n] \notin Accepted(spec[n].type)}
Refused(spec, params) == Missing(spec, params) \cup IllTyped(spec, params) # {}

(* Defaults fill what is absent; unknown names are dropped unless a system's.    *)
(* Mutant: the system's names are dropped with the rest.                         *)
Kept_NoSystem(spec, params) == DOMAIN params \cap DOMAIN spec
Kept(spec, params) == DOMAIN params \cap (DOMAIN spec \cup SystemNames)
Filled(spec, params) == {n \in DOMAIN spec \ DOMAIN params : spec[n].default # None}
ValidateParams(spec, params) ==
  [n \in Kept(spec, params) \cup Filled(spec, params) |->
     IF n \in DOMAIN params THEN params[n] ELSE spec[n].default]

(* What a tool is entitled to: its required parameters are there, what the model *)
(* gave has the declared type, and nothing is there that nobody declared.        *)
WellFormed(spec, given, params) ==
  /\ \A n \in DOMAIN spec : spec[n].required => n \in DOMAIN params
  /\ \A n \in DOMAIN spec \cap DOMAIN given : params[n] \in Accepted(spec[n].type)
  /\ DOMAIN params \subseteq DOMAIN spec \cup SystemNames
===================================================================================
