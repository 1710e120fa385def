------------------------------ MODULE SharedFile ------------------------------
(***************************************************************************)
(* What becomes of a file that several programs read, change and write     *)
(* back whole without a lock: the file of verification times (BagVerify)   *)
(* and the config of the provider daemon (ProviderConfig). Each writer     *)
(* takes the content with a change of its own in hand and writes it some   *)
(* time later. While nobody else writes, that changes the file in place;   *)
(* a writer that was overtaken brings back what it took.                   *)
(***************************************************************************)

CONSTANTS
  Writers,
  Contents,
  Edits(_, _)  \* what one writer's change makes of a content

VARIABLES
  content,
  hand,       \* of each writer: nothing, or the content it is going to write
  overtaken   \* the writers whose content in hand was taken before the last write

vars == <<content, hand, overtaken>>

Init ==
  /\ content \in Contents
  /\ hand = [w \in Writers |-> {}]
  /\ overtaken = {}

\* hand'[w] is there to bound the choice of a content.
Take(w) ==
  /\ hand[w] = {}
  /\ \E c \in hand'[w] : Edits(content, c) /\ hand' = [hand EXCEPT ![w] = {c}]
  /\ UNCHANGED <<content, overtaken>>

\* What is in hand becomes the file, and what everybody else has is out of date now.
Puts(w) ==
  /\ content' \in hand[w]
  /\ hand' = [hand EXCEPT ![w] = {}]
  /\ overtaken' = {v \in Writers : hand'[v] # {}}

EditInPlace(w) ==
  /\ w \notin overtaken
  /\ Puts(w)
  /\ Edits(content, content')

BringBack(w) ==
  /\ w \in overtaken
  /\ Puts(w)

Drop(w) ==
  /\ hand[w] # {}
  /\ hand' = [hand EXCEPT ![w] = {}]
  /\ overtaken' = overtaken \ {w}
  /\ UNCHANGED content

Next == \E w \in Writers : Take(w) \/ EditInPlace(w) \/ BringBack(w) \/ Drop(w)

Spec == Init /\ [][Next]_vars
=============================================================================
