---------------------------- MODULE AtomicOutput ----------------------------
(***************************************************************************)
(* What package output promises about the output directories of a project, *)
(* said without locks, staging directories, backups or processes.          *)
(*                                                                         *)
(* Every output has ONE content at any time.  A content is either in place *)
(* (visible at the output's path) or set aside (the path is absent and the *)
(* content waits in a backup next to it).  A render replaces a content it  *)
(* may replace by a complete generation in one step; only the user does    *)
(* anything else to it.  No step loses a content: setting aside and        *)
(* putting back leave it as it is.                                         *)
(***************************************************************************)

EXTENDS Naturals

CONSTANTS
  Outputs,       \* the output directories
  Contents,      \* everything that can be found at an output's path
  MayReplace,    \* the contents a render may replace
  Generations    \* the complete contents a render installs

VARIABLES
  content,       \* the content each output has
  inPlace,       \* whether that content is visible at the output's path
  edits          \* how often the user did something to an output

vars == <<content, inPlace, edits>>

TypeOK ==
  /\ content \in [Outputs -> Contents]
  /\ inPlace \in [Outputs -> BOOLEAN]
  /\ edits \in Nat

Init ==
  /\ content \in [Outputs -> Contents]
  /\ inPlace = [o \in Outputs |-> TRUE]
  /\ edits = 0

(* The user puts something at the path, or takes it away. *)
Edit(o) ==
  /\ content'[o] \in Contents
  /\ content' = [content EXCEPT ![o] = content'[o]]
  /\ inPlace' = [inPlace EXCEPT ![o] = TRUE]
  /\ edits' = edits + 1

(* A render sets the content aside; it never does so to what it may not replace. *)
SetAside(o) ==
  /\ inPlace[o]
  /\ content[o] \in MayReplace
  /\ inPlace' = [inPlace EXCEPT ![o] = FALSE]
  /\ UNCHANGED <<content, edits>>

(* A render that failed puts the content it set aside back. *)
PutBack(o) ==
  /\ ~inPlace[o]
  /\ inPlace' = [inPlace EXCEPT ![o] = TRUE]
  /\ UNCHANGED <<content, edits>>

(* A render installs a complete generation in place of a replaceable content. *)
Commit(o) ==
  /\ content[o] \in MayReplace
  /\ content'[o] \in Generations
  /\ content' = [content EXCEPT ![o] = content'[o]]
  /\ inPlace' = [inPlace EXCEPT ![o] = TRUE]
  /\ UNCHANGED edits

Next == \E o \in Outputs : Edit(o) \/ SetAside(o) \/ PutBack(o) \/ Commit(o)

Spec == Init /\ [][Next]_vars
=============================================================================
