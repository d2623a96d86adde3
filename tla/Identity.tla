------------------------------ MODULE Identity ------------------------------
(***************************************************************************)
(* Which key a robot's agent runs with: the first lines of main            *)
(* (src/main.rs) and KeyConfig (src/store/key_manager.rs).                 *)
(*                                                                         *)
(* The owner lists a robot by its key; an agent that comes back with       *)
(* another one is a stranger to its fleet.  The key comes from             *)
(* --secret-key or else from the key file, or else it is a new one, and    *)
(* the file is written anew, whatever it held, at every start.             *)
(***************************************************************************)
EXTENDS FiniteSets

CONSTANTS
  GivenKey,   \* the keys that operators pass with --secret-key
  NewKey,     \* the keys that generate may return (a bound on new identities)
  NoKey       \* no key, or a file that does not hold one

Key == GivenKey \cup NewKey

ASSUME IdentityAssumption == GivenKey \cap NewKey = {} /\ NoKey \notin Key

VARIABLES
  phase,      \* "down"; "starting": the key is chosen, not yet written; "running"
  argument,   \* --secret-key of the last start
  identity,   \* the key of the process
  key_file,   \* the key in the key file
  generated,  \* the keys that generate has returned
  last,       \* history: the key of the last process that went on to run
  damaged     \* history: whether the last write of the file went wrong

vars == <<phase, argument, identity, key_file, generated, last, damaged>>

Init ==
  /\ phase = "down" /\ argument = NoKey /\ identity = NoKey
  /\ key_file = NoKey /\ generated = {}
  /\ last = NoKey /\ damaged = FALSE
-----------------------------------------------------------------------------
\* Variants: the file is not read; an unreadable one is not made up for.
ChosenUnread(arg, new) == IF arg # NoKey THEN arg ELSE new
ChosenFromFile(arg, new) == IF arg # NoKey THEN arg ELSE key_file

\* generate is called first in any case; load_from_sk_string and
\* load_from_file replace what it returned.
Chosen(arg, new) ==
  IF arg # NoKey THEN arg
  ELSE IF key_file # NoKey THEN key_file
  ELSE new

\* An argument that is not a key ends the process before it has done anything.
Start(arg, new) ==
  /\ phase = "down" /\ new \notin generated
  /\ phase' = "starting" /\ argument' = arg
  /\ identity' = Chosen(arg, new)
  /\ generated' = generated \cup ({new} \cap {identity'})
  /\ UNCHANGED <<key_file, last, damaged>>

\* Variant: a key that was passed is not written.
WrittenUnlessGiven == IF argument = NoKey THEN identity ELSE key_file

\* What save_to_file writes.
Written == identity

\* save_to_file, after which the agent starts its tasks.
Save ==
  /\ phase = "starting"
  /\ phase' = "running" /\ last' = identity
  /\ key_file' = Written /\ damaged' = FALSE
  /\ UNCHANGED <<argument, identity, generated>>

\* fs::write fails, before or after it has truncated the file: the error is
\* logged and the agent runs all the same.
SaveFails ==
  /\ phase = "starting"
  /\ phase' = "running" /\ last' = identity
  /\ key_file' \in {key_file, NoKey} /\ damaged' = TRUE
  /\ UNCHANGED <<argument, identity, generated>>

Stop ==
  /\ phase # "down"
  /\ phase' = "down" /\ identity' = NoKey
  /\ UNCHANGED <<argument, key_file, generated, last, damaged>>

\* The process ends inside fs::write, which truncates before it writes.
CrashDuringSave ==
  /\ phase = "starting"
  /\ phase' = "down" /\ identity' = NoKey
  /\ key_file' = NoKey /\ damaged' = TRUE
  /\ UNCHANGED <<argument, generated, last>>

Next ==
  \/ \E arg \in GivenKey \cup {NoKey}, new \in NewKey : Start(arg, new)
  \/ Save \/ SaveFails \/ Stop \/ CrashDuringSave

Spec == Init /\ [][Next]_vars
-----------------------------------------------------------------------------
\* The types of the variables; a process has a key.
TypeOK ==
  /\ phase \in {"down", "starting", "running"}
  /\ argument \in GivenKey \cup {NoKey} /\ identity \in Key \cup {NoKey}
  /\ key_file \in Key \cup {NoKey} /\ last \in Key \cup {NoKey}
  /\ generated \subseteq NewKey /\ damaged \in BOOLEAN
  /\ phase # "down" => identity # NoKey

\* An agent that is started without --secret-key is the one that ran last,
\* however that one got its key and however it ended, as long as the last write
\* of the file was not cut short; a new key is for agents that have never run.
IdentityKept ==
  phase # "down" /\ argument = NoKey /\ ~damaged =>
    identity = last \/ last = NoKey
=============================================================================
