------------------------------ MODULE ToolRegistry ------------------------------
(***************************************************************************)
(* internal/mcp/spec and internal/mcp/tools/registry.go: the tool           *)
(* specifications are read from the files of a pattern, validated, and each *)
(* is matched with the handler of its name.                                 *)
(*                                                                         *)
(* A name is [word, upper, space]: its letters, 0 for none, and whether it  *)
(* has capital letters and blanks around it.  A file is                     *)
(* [rank, readable, spec]; rank is its place in the order of the lower-case  *)
(* base names and paths.                                                   *)
(***************************************************************************)
EXTENDS Integers, FiniteSets, SequencesExt

CONSTANT Handlers \* the names of the built-in handlers, lower-case and distinct

Normalized(name) == [name EXCEPT !.upper = FALSE, !.space = FALSE]

ASSUME RegistryAssumption ==
    /\ IsFiniteSet(Handlers) /\ Handlers # {}
    /\ \A h \in Handlers : Normalized(h) = h /\ h.word # 0

VARIABLES
    files,   \* the files the pattern leads to
    stage,   \* read, validate, register, ready, fatal
    specs,   \* the specifications read
    handlerByName,
    byName,  \* from normalized names to [spec, handler]
    ordered  \* the registrations in the order of the files

registryVars == <<files, stage, specs, handlerByName, byName, ordered>>

RegistryInit ==
    /\ stage = "read" /\ specs = <<>> /\ handlerByName = Handlers
    /\ byName = <<>> /\ ordered = <<>>

RegistryFails == stage' = "fatal" /\ UNCHANGED <<files, specs, handlerByName, byName, ordered>>

\* LoadFromPattern, one file at a time in the order of their ranks.
Unread == files \ ToSet(specs)
Nearest == CHOOSE f \in Unread : \A g \in Unread : f.rank <= g.rank

ReadSpec ==
    /\ stage = "read" /\ Unread # {}
    /\ IF ~Nearest.readable THEN RegistryFails
       ELSE /\ specs' = Append(specs, Nearest)
            /\ UNCHANGED <<files, stage, handlerByName, byName, ordered>>

\* The file matches meta_schema.go and the keys that go together.
Declared(spec) ==
    /\ spec.meta
    /\ ~(spec.action /\ (spec.toolType \/ spec.viewport))
    /\ spec.toolType = spec.viewport

\* ValidateDefinitions
Definitions ==
    /\ \A n \in DOMAIN specs : Declared(specs[n].spec) /\ specs[n].spec.name.word # 0
    /\ \A m, n \in DOMAIN specs :
          Normalized(specs[m].spec.name) = Normalized(specs[n].spec.name) => m = n

Validate ==
    /\ stage = "read" /\ Unread = {}
    /\ IF specs = <<>> \/ ~Definitions THEN RegistryFails
       ELSE stage' = "register" /\ UNCHANGED <<files, specs, handlerByName, byName, ordered>>

\* A specification takes its handler.
Register ==
    /\ stage = "register" /\ Len(ordered) < Len(specs)
    /\ LET spec == specs[Len(ordered) + 1].spec
           name == Normalized(spec.name)
           reg  == [spec |-> spec, handler |-> name]
       IN  IF name \notin handlerByName \/ ~spec.compiles THEN RegistryFails
           ELSE /\ ordered' = Append(ordered, reg)
                /\ byName' = [key \in DOMAIN byName \cup {name} |->
                                 IF key = name THEN reg ELSE byName[key]]
                /\ handlerByName' = handlerByName \ {name}
                /\ UNCHANGED <<files, stage, specs>>

\* Handlers that are left over are passed over.
Finish_Leftover ==
    /\ stage = "register" /\ Len(ordered) = Len(specs)
    /\ stage' = "ready" /\ UNCHANGED <<files, specs, handlerByName, byName, ordered>>

Finish ==
    /\ stage = "register" /\ Len(ordered) = Len(specs)
    /\ IF handlerByName # {} THEN RegistryFails
       ELSE stage' = "ready" /\ UNCHANGED <<files, specs, handlerByName, byName, ordered>>

RegistryNext == ReadSpec \/ Validate \/ Register \/ Finish

\* Find, in a set.
Find(name) == {byName[key] : key \in {Normalized(name)} \cap DOMAIN byName}

-----------------------------------------------------------------------------
\* When the registry is ready, tools/list shows every handler's tool once, and
\* a client that calls a tool by the name it is shown, or by the same name in
\* other letters, reaches the handler of that name with the schema it is shown.
ToolsAreCallable ==
    stage = "ready" =>
        /\ Len(ordered) = Cardinality(Handlers)
        /\ {ordered[n].handler : n \in DOMAIN ordered} = Handlers
        /\ \A n \in DOMAIN ordered : \A upper, space \in BOOLEAN :
              Find([ordered[n].spec.name EXCEPT !.upper = upper, !.space = space])
                  = {ordered[n]}
=============================================================================
