---------------------------- MODULE MCJobRunner ----------------------------
(* Small instances of JobRunner. *)
EXTENDS JobRunner, TLC

CONSTANTS j1, j2

\* The ids of jobs are interchangeable.
Symmetry == Permutations(JobId)

Few(count) == \A l \in Launch : count[l] <= 1

\* Either one launch has a shell, of which the output or the input is followed
\* to its bound ...
OneShell ==
  /\ \E l \in Launch : \A k \in Launch \ {l} : kind[k] # "shell" /\ sent[k] <= 1
  /\ Few(shown) \/ Few(sent)

\* ... or two have, in a process that does not stop, with a piece of input for each
\* and no tunnel, or with one tunnel, a piece of output for each and no input.
TwoShells ==
  /\ \A l \in Launch : pc[l] # "gone"
  /\ \/ /\ \A t \in Tunnel : tunnel[t].reader.pc = "unused"
        /\ Few(sent) /\ \A l \in Launch : shown[l] = 0
     \/ /\ \A t \in Tunnel : t > 1 => tunnel[t].reader.pc = "unused"
        /\ Few(shown) /\ \A l \in Launch : sent[l] = 0

\* The states that are explored (a bound).
Streams == OneShell \/ TwoShells
=============================================================================
