--------------------------- MODULE AnnotatedContent ---------------------------
(***************************************************************************)
(* What the graph-data resolution of a namespace promises, without Pods,   *)
(* passes and informers: the content of a tag only grows by pushes, and    *)
(* the Deployments are annotated in the order of the pushes.  Whoever is   *)
(* annotated is given a content at least as new as the one any Deployment  *)
(* of the namespace has of the same tag.                                   *)
(***************************************************************************)
EXTENDS Naturals

CONSTANTS None, Services, Tags

VARIABLES
  latest, \* the version of each tag's content
  note    \* the annotation of each Deployment: None or [tag, version]

Init == latest = [t \in Tags |-> 0] /\ note = [s \in Services |-> None]

\* d is None or at most as new as e.
UpTo(d, e) == d # None /\ e # None /\ d.tag = e.tag => d.version <= e.version

Push(t) == latest' = [latest EXCEPT ![t] = @ + 1] /\ UNCHANGED note

Take(s) ==
  /\ \E t \in Tags : \E v \in 0..latest[t] :
       LET d == [tag |-> t, version |-> v]
       IN  /\ \A q \in Services : UpTo(note[q], d)
           /\ note' = [note EXCEPT ![s] = d]
  /\ UNCHANGED latest

\* The Deployment is gone, and its annotation with it.
Drop(s) == note' = [note EXCEPT ![s] = None] /\ UNCHANGED latest

Next == (\E t \in Tags : Push(t)) \/ \E s \in Services : Take(s) \/ Drop(s)

Spec == Init /\ [][Next]_<<latest, note>>

=============================================================================
