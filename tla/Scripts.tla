------------------------------- MODULE Scripts -------------------------------
(***************************************************************************)
(* The script manager: ScriptManager.{h,cpp}.  It keeps one Duktape        *)
(* context for the whole match and reads script.js again in every frame.   *)
(* What matters of a script is which functions it defines and what a call  *)
(* of one does; of the value stack, which kinds of values lie on it.       *)
(***************************************************************************)
EXTENDS Integers, Sequences

CONSTANTS
  Files,      \* the contents script.js may have: function name -> behaviour
  Broken,     \* contents that do not evaluate
  Keep        \* a call that leaves a setting as it is

VARIABLES
  file,           \* script.js on the disk, which may be edited at any time
  loaded,         \* what loadScript read last
  globals,        \* the global object: the functions defined so far
  stack,          \* the value stack of the context, its top last
  scriptLoaded

scriptVars == <<file, loaded, globals, stack, scriptLoaded>>

\* A file that is missing reads as an empty one and defines nothing.
Missing == <<>>

\* Calling what is no function fails, and changes nothing.
Uncallable == [velocity |-> Keep, shield |-> Keep, throws |-> TRUE]

Behaviour(name) == IF name \in DOMAIN globals THEN globals[name] ELSE Uncallable

\* Code outside of the functions runs while the file is evaluated.  It is kept
\* under a name of its own, which no call asks for; one that throws is Broken.
TopLevel == "top level"

OutsideFunctions(script) ==
  IF TopLevel \in DOMAIN script THEN script[TopLevel]
  ELSE [velocity |-> Keep, shield |-> Keep, throws |-> FALSE]

ScriptInit ==
  /\ file \in Files \cup {Broken}
  /\ loaded = Missing
  /\ globals = Missing
  /\ stack = <<>>
  /\ scriptLoaded = FALSE

\* duk_pop; StackBalanced says that it is never asked of an empty stack.
Pop(s) == SubSeq(s, 1, Len(s) - 1)

\* The functions of both, those of the first where the names are the same.
Over(first, second) ==
  [name \in DOMAIN first \cup DOMAIN second |->
     IF name \in DOMAIN first THEN first[name] ELSE second[name]]

\* Mutant: a function that is there already is not defined again.
FirstDefinition(script) == Over(globals, script)

\* Evaluating a script defines its functions in the global object.
Define(script) == Over(script, globals)

(***************************************************************************)
(* loadScript: the global object of the frame before is popped, the source *)
(* is pushed, evaluated in place and popped again, and the global object   *)
(* is pushed for the calls to come.                                        *)
(***************************************************************************)
Load ==
  LET below == IF scriptLoaded THEN Pop(stack) ELSE stack
      evaluated == Append(below, "result")
  IN  /\ file # Broken
      /\ loaded' = file
      /\ globals' = Define(file)
      /\ stack' = Append(Pop(evaluated), "global")
      /\ scriptLoaded' = TRUE
      /\ UNCHANGED file

(***************************************************************************)
(* runScript: the function is looked up in the value on top of the stack   *)
(* and pushed, the arguments after it.  duk_pcall replaces the function    *)
(* and arg_count arguments by the result, or by the error if it fails.     *)
(***************************************************************************)
\* The values that runScript pushes for its arguments.
Pushed(type, count) ==
  CASE type \in {"velocityChange", "invincible"} -> [i \in 1..count |-> "argument"]
    [] type = "event" /\ count > 0               -> [i \in 1..4 |-> "argument"]
    [] OTHER                                     -> <<>>

\* Mutant: an error is left on the stack.
PopOnSuccess(s, name) == IF Behaviour(name).throws THEN s ELSE Pop(s)

\* The result or the error comes off again, whichever it is.
DropResult(s, name) == Pop(s)

Run(name, type, count) ==
  LET called == Append(stack, "function") \o Pushed(type, count)
      returned == Append(SubSeq(called, 1, Len(called) - count - 1), "result")
  IN  /\ scriptLoaded
      /\ stack' = DropResult(returned, name)
      /\ UNCHANGED <<file, loaded, globals, scriptLoaded>>

\* Somebody saves, breaks or removes the file while the game runs.
EditFile ==
  /\ file' \in (Files \cup {Broken}) \ {file}
  /\ UNCHANGED <<loaded, globals, stack, scriptLoaded>>
=============================================================================
