----------------------------- MODULE LoadedPatch -----------------------------
(***************************************************************************)
(* A patch from its files to its messages: the parser reads it, and when   *)
(* it has finished the messages of [loadbang] and of the host run through  *)
(* it.                                                                     *)
(***************************************************************************)
EXTENDS PdFileParser, MessageObject

vars == <<graphs, tables, loadbangs, parserVars, cascadeVars>>

Init == ParserInit /\ CascadeInit

Load == ParserNext /\ UNCHANGED cascadeVars
Run == parsers = <<>> /\ CascadeNext(root) /\ UNCHANGED parserVars

Next == Load \/ Run

Spec == Init /\ [][Next]_vars

AtRest == parsers = <<>> /\ loadbangs = <<>> /\ stack = <<>>

\* No message runs into itself without end, although every cycle of a patch is
\* one of calls: each is cut by a right inlet that only stores, or by an object
\* that lets only what has changed through.
CyclesEnd == Len(stack) < MaxDepth
=============================================================================
