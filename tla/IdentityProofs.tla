--------------------------- MODULE IdentityProofs ---------------------------
(***************************************************************************)
(* Proofs about Identity, for any sets of keys.                            *)
(***************************************************************************)
EXTENDS Identity, TLAPS

\* What makes IdentityKept inductive: an undamaged file holds the key of the
\* process that ran last, also while a process is up that has yet to write its
\* own, and after one that never came to it.
FileIsLast == ~damaged => key_file = last

KeyInv == TypeOK /\ FileIsLast /\ IdentityKept

LEMMA KeyStep == KeyInv /\ [Next]_vars => KeyInv'
  <1> SUFFICES ASSUME KeyInv, [Next]_vars PROVE KeyInv'
    OBVIOUS
  <1> USE IdentityAssumption DEF IdentityAssumption, KeyInv, FileIsLast, IdentityKept, Key
  <1>1. ASSUME NEW arg \in GivenKey \cup {NoKey}, NEW new \in NewKey, Start(arg, new)
        PROVE  KeyInv'
    <2>1. /\ identity' \in Key
          /\ arg = NoKey /\ key_file # NoKey => identity' = key_file
      BY <1>1 DEF Start, Chosen, TypeOK
    <2>2. TypeOK'
      BY <1>1, <2>1 DEF Start, TypeOK
    <2>. QED
      BY <1>1, <2>1, <2>2 DEF Start
  <1>2. CASE Save
    <2>1. TypeOK'
      BY <1>2 DEF Save, Written, TypeOK
    <2>. QED
      BY <1>2, <2>1 DEF Save, Written
  <1>3. CASE SaveFails
    <2>1. TypeOK'
      BY <1>3 DEF SaveFails, TypeOK
    <2>. QED
      BY <1>3, <2>1 DEF SaveFails
  <1>4. CASE Stop
    BY <1>4 DEF Stop, TypeOK
  <1>5. CASE CrashDuringSave
    BY <1>5 DEF CrashDuringSave, TypeOK
  <1>6. CASE UNCHANGED vars
    BY <1>6 DEF vars, TypeOK
  <1>. QED
    BY <1>1, <1>2, <1>3, <1>4, <1>5, <1>6 DEF Next

LEMMA KeyInvariant == Spec => []KeyInv
  <1>1. Init => KeyInv
    BY DEF Init, KeyInv, TypeOK, FileIsLast, IdentityKept
  <1>. QED
    BY <1>1, KeyStep, PTL DEF Spec

\* A process of src/main.rs always has a key, and the file a key or none.
THEOREM TypeCorrect == Spec => []TypeOK
  <1>1. KeyInv => TypeOK
    BY DEF KeyInv
  <1>. QED
    BY <1>1, KeyInvariant, PTL

\* Whatever keys are passed and generated, and whenever processes end, an agent
\* started without --secret-key is the one that ran last, as long as the last
\* write of the key file was not cut short (main.rs, key_manager.rs).
THEOREM IdentityKeptHolds == Spec => []IdentityKept
  <1>1. KeyInv => IdentityKept
    BY DEF KeyInv
  <1>. QED
    BY <1>1, KeyInvariant, PTL
=============================================================================
