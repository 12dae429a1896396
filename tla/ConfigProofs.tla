---------------------------- MODULE ConfigProofs ----------------------------
(***************************************************************************)
(* Proofs about ConfigStore, for any configurations and any of the faults: *)
(* what is loaded is what was saved last.                                  *)
(*                                                                         *)
(* The property looks at a store between two calls.  The invariant follows *)
(* saveConfig through its six writes: until the first one the store holds  *)
(* what was expected (Stored), then it holds what has been written of the  *)
(* configuration that is being saved (Begun).                              *)
(***************************************************************************)
EXTENDS ConfigStore, TLAPS

Typed ==
    /\ DOMAIN nvs = Entries
    /\ torn \in BOOLEAN
    /\ saving \in Config \cup {None} /\ expected \in Config \cup {None}
    /\ at \in 1 .. 7
    /\ saving = None => at = 1

\* the store holds all of c
Holds(c) == nvs["cfg_ver"] = 1 /\ \A f \in Fields : nvs[f] = c[f]

Stored ==
    \/ expected = None /\ \A e \in Entries : nvs[e] = Absent
    \/ expected \in Config /\ Holds(expected)

Begun == \A j \in 1 .. 6 : j < at => nvs[Names[j]] = Written(Names[j], saving)

CInv ==
    /\ Typed
    /\ ~torn => IF at = 1 THEN Stored ELSE Begun
    /\ Loaded => Idle /\ (~torn => out = expected)

\* The entries by their number.
LEMMA NamesAre ==
    /\ Len(Names) = 6
    /\ Names[1] = "cfg_ver" /\ Names[2] = "priv_key" /\ Names[3] = "pub_key"
    /\ Names[4] = "endpoint" /\ Names[5] = "port" /\ Names[6] = "endpoint_ip"
  BY DEF Names

LEMMA EntriesAre ==
    /\ Entries = {"cfg_ver", "priv_key", "pub_key", "endpoint", "port", "endpoint_ip"}
    /\ Fields = {"priv_key", "pub_key", "endpoint", "port", "endpoint_ip"}
<1>1. Entries = {Names[1], Names[2], Names[3], Names[4], Names[5], Names[6]}
  <2>1. \A i : i \in 1 .. 6 <=> i = 1 \/ i = 2 \/ i = 3 \/ i = 4 \/ i = 5 \/ i = 6
    OBVIOUS
  <2>. QED BY <2>1, NamesAre DEF Entries
<1>2. Entries = {"cfg_ver", "priv_key", "pub_key", "endpoint", "port", "endpoint_ip"}
  BY <1>1, NamesAre
<1>. QED BY <1>2 DEF Fields

\* No part of a configuration looks like a missing entry.
LEMMA ConfigParts ==
    ASSUME NEW c \in Config
    PROVE  /\ c # None
           /\ \A f \in Strings : c[f] \in Text
           /\ c["port"] \in Nat /\ c["endpoint_ip"] \in Nat
           /\ \A f \in Fields : c[f] # Absent
           /\ c = [f \in Fields |-> c[f]]
<1>1. c \in [priv_key : Text, pub_key : Text, endpoint : Text, port : Nat, endpoint_ip : Nat]
  BY ConfigAssumption
<1>2. c # None /\ Absent \notin Text \cup Nat
  BY ConfigAssumption
<1>3. /\ c["priv_key"] \in Text /\ c["pub_key"] \in Text /\ c["endpoint"] \in Text
      /\ c["port"] \in Nat /\ c["endpoint_ip"] \in Nat
  BY <1>1
<1>4. \A f \in Fields : c[f] # Absent
  BY <1>2, <1>3, EntriesAre
<1>5. c = [f \in Fields |-> c[f]]
  BY <1>1, EntriesAre
<1>. QED BY <1>2, <1>3, <1>4, <1>5 DEF Strings

\* A store that holds what was expected can be loaded when it ought to be.
LEMMA FoundWhenExpected ==
    ASSUME Stored
    PROVE  Found <=> expected # None /\ Loadable(expected)
<1>1. Found <=> /\ Reads("cfg_ver") /\ Reads("priv_key") /\ Reads("pub_key")
                /\ Reads("endpoint") /\ Reads("port")
  <2>1. \A i : i \in 1 .. 5 <=> i = 1 \/ i = 2 \/ i = 3 \/ i = 4 \/ i = 5
    OBVIOUS
  <2>. QED BY <2>1, NamesAre DEF Found
<1>2. CASE expected = None /\ \A e \in Entries : nvs[e] = Absent
  BY <1>1, <1>2, EntriesAre DEF Reads
<1>3. CASE expected \in Config /\ Holds(expected)
  <2>1. /\ nvs["cfg_ver"] = 1 /\ \A f \in Fields : nvs[f] = expected[f] /\ expected[f] # Absent
        /\ expected # None
    BY <1>3, ConfigParts DEF Holds
  <2>2. 1 # Absent
    BY ConfigAssumption
  <2>3. Reads("cfg_ver") /\ Reads("port")
    BY <2>1, <2>2, EntriesAre DEF Reads, Strings
  <2>4. \A f \in Strings : Reads(f) <=> expected[f] \notin Long
    BY <2>1, EntriesAre DEF Reads, Strings
  <2>. QED BY <1>1, <2>1, <2>3, <2>4 DEF Loadable, Strings
<1>. QED BY <1>2, <1>3 DEF Stored

\* Only a call of loadConfig that returned true leaves something loaded.
LEMMA NotLoaded ==
    /\ \A name, r : name # "load" => [name |-> name, result |-> r] # [name |-> "load", result |-> TRUE]
    /\ \A name, r : [name |-> name, result |-> r] = [name |-> "load", result |-> TRUE] => r
<1>1. ASSUME NEW name, NEW r, [name |-> name, result |-> r] = [name |-> "load", result |-> TRUE]
      PROVE  name = "load" /\ r = TRUE
  <2>1. /\ [name |-> name, result |-> r].name = [name |-> "load", result |-> TRUE].name
        /\ [name |-> name, result |-> r].result = [name |-> "load", result |-> TRUE].result
    BY <1>1, Zenon
  <2>. QED BY <2>1
<1>2. ASSUME NEW r, r = TRUE PROVE r
  BY <1>2, Zenon
<1>. QED BY <1>1, <1>2, Zenon

LEMMA InitStored == Init => CInv
<1>. SUFFICES ASSUME Init PROVE CInv
  OBVIOUS
<1>1. DOMAIN nvs = Entries /\ \A e \in Entries : nvs[e] = Absent
  BY DEF Init, Empty
<1>2. ~Loaded
  BY NotLoaded, Zenon DEF Init, Loaded
<1>3. /\ torn = FALSE /\ saving = None /\ expected = None /\ at = 1
  BY DEF Init
<1>4. ~torn
  BY <1>3, Zenon
<1>5. torn \in BOOLEAN
  BY <1>3
<1>6. Typed
  BY <1>1, <1>3, <1>5 DEF Typed
<1>7. Stored
  BY <1>1, <1>3 DEF Stored
<1>. QED BY <1>2, <1>3, <1>6, <1>7 DEF CInv

LEMMA OpenStep == ASSUME CInv, NEW c \in Config, SaveOpen(c) PROVE CInv'
<1>1. ~Loaded' /\ UNCHANGED <<nvs, expected, torn>> /\ at = 1 /\ at' = 1
      /\ (saving' = c \/ saving' = saving)
  BY DEF SaveOpen, Loaded, Return, CInv, Typed, Idle
<1>2. c # None
  BY ConfigParts
<1>. QED BY <1>1, <1>2 DEF CInv, Typed, Stored, Holds

LEMMA EntryStep == ASSUME CInv, SaveEntry PROVE CInv'
<1>1. PICK set \in BOOLEAN :
         /\ nvs' = IF set THEN [nvs EXCEPT ![Names[at]] = Written(Names[at], saving)] ELSE nvs
         /\ torn' = ((torn /\ at > 1) \/ ~set)
  BY DEF SaveEntry, Results
<1>2. /\ at \in 1 .. 6 /\ at' = at + 1 /\ saving # None
      /\ UNCHANGED <<saving, call, out, expected>>
  BY NamesAre DEF SaveEntry, CInv, Typed, Idle
<1>3. ~Loaded'
  BY <1>2 DEF CInv, Loaded, Idle
<1>4. Typed'
  <2>1. DOMAIN nvs' = Entries
    BY <1>1 DEF CInv, Typed
  <2>2. torn' \in BOOLEAN
    BY <1>1
  <2>. QED BY <1>2, <2>1, <2>2 DEF CInv, Typed
<1>5. ASSUME ~torn' PROVE Begun'
  <2>1. set /\ (at > 1 => Begun)
    <3>1. set /\ ~(torn /\ at > 1)
      BY <1>1, <1>5, Zenon
    <3>. QED BY <1>2, <3>1 DEF CInv
  <2>2. DOMAIN nvs = Entries /\ \A j \in 1 .. 6 : Names[j] \in Entries
    BY NamesAre DEF CInv, Typed, Entries
  <2>3. nvs'[Names[at]] = Written(Names[at], saving)
    BY <1>1, <1>2, <2>1, <2>2
  <2>4. ASSUME NEW j \in 1 .. 6, j < at PROVE nvs'[Names[j]] = Written(Names[j], saving)
    <3>1. Names[j] # Names[at]
      <4>1. /\ j = 1 \/ j = 2 \/ j = 3 \/ j = 4 \/ j = 5 \/ j = 6
            /\ at = 1 \/ at = 2 \/ at = 3 \/ at = 4 \/ at = 5 \/ at = 6
        BY <1>2
      <4>. QED BY <2>4, <4>1, NamesAre
    <3>2. nvs'[Names[j]] = nvs[Names[j]]
      BY <1>1, <2>1, <2>2, <3>1
    <3>3. nvs[Names[j]] = Written(Names[j], saving)
      BY <1>2, <2>1, <2>4 DEF Begun
    <3>. QED BY <3>2, <3>3
  <2>5. \A j \in 1 .. 6 : j < at' => nvs'[Names[j]] = Written(Names[j], saving)
    BY <1>2, <2>3, <2>4
  <2>6. \A e : Written(e, saving)' = Written(e, saving)
    BY <1>2 DEF Written
  <2>. QED BY <2>5, <2>6 DEF Begun
<1>6. at' # 1
  BY <1>2
<1>. QED BY <1>3, <1>4, <1>5, <1>6 DEF CInv

LEMMA CommitStep == ASSUME CInv, SaveCommit PROVE CInv'
<1>. PICK commit \in BOOLEAN :
       /\ Return("save", commit)
       /\ expected' = IF commit THEN saving ELSE expected
       /\ torn' = (torn \/ ~commit)
  BY DEF SaveCommit, Results
<1>a. ~torn' => ~torn /\ commit
  BY Zenon
<1>b. ~Loaded'
  BY NotLoaded, Zenon DEF Return, Loaded
<1>c. torn' \in BOOLEAN
  OBVIOUS
<1>1. /\ at = 7 /\ saving \in Config /\ saving' = None /\ at' = 1 /\ UNCHANGED nvs
      /\ expected' \in {saving, expected}
      /\ ~torn' => ~torn /\ expected' = saving
  BY <1>a, NamesAre DEF SaveCommit, CInv, Typed, Idle
<1>2. ASSUME ~torn' PROVE Holds(saving)
  <2>1. \A j \in 1 .. 6 : nvs[Names[j]] = Written(Names[j], saving)
    BY <1>1, <1>2 DEF CInv, Begun
  <2>2. /\ nvs[Names[1]] = Written(Names[1], saving) /\ nvs[Names[2]] = Written(Names[2], saving)
        /\ nvs[Names[3]] = Written(Names[3], saving) /\ nvs[Names[4]] = Written(Names[4], saving)
        /\ nvs[Names[5]] = Written(Names[5], saving) /\ nvs[Names[6]] = Written(Names[6], saving)
    BY <2>1
  <2>. QED BY <2>2, NamesAre, EntriesAre DEF Holds, Written
<1>3. Typed'
  BY <1>1, <1>c DEF CInv, Typed
<1>4. ~torn' => Stored'
  BY <1>1, <1>2 DEF Stored, Holds
<1>. QED BY <1>1, <1>3, <1>4, <1>b DEF CInv

LEMMA LoadStep == ASSUME CInv, Load PROVE CInv'
<1>1. PICK open \in BOOLEAN :
         /\ Return("load", created /\ open /\ Found)
         /\ out' = [f \in Fields |->
                IF created /\ open /\ f \in Read THEN nvs[f]
                ELSE IF created /\ open /\ Found THEN (IF nvs[f] = Absent THEN 0 ELSE nvs[f])
                ELSE out[f]]
  BY DEF Load, Results
<1>2. Idle /\ at = 1 /\ UNCHANGED <<nvs, created, saving, at, expected, torn>>
  BY DEF Load, CInv, Typed, Idle
<1>3. ASSUME Loaded', ~torn PROVE out' = expected
  <2>a. created /\ open /\ Found
    BY <1>1, <1>3, NotLoaded, Zenon DEF Loaded, Return
  <2>1. Stored /\ created /\ open /\ Found
    BY <1>2, <1>3, <2>a DEF CInv
  <2>2. expected \in Config /\ Holds(expected)
    BY <2>1, FoundWhenExpected DEF Stored
  <2>3. \A f \in Fields : nvs[f] = expected[f] /\ nvs[f] # Absent
    BY <2>2, ConfigParts DEF Holds
  <2>4. out' = [f \in Fields |-> expected[f]]
    BY <1>1, <2>1, <2>3
  <2>. QED BY <2>2, <2>4, ConfigParts
<1>. QED BY <1>2, <1>3 DEF CInv, Typed, Stored, Holds, Begun, Written, Idle

LEMMA ClearStep == ASSUME CInv, Clear PROVE CInv'
<1>1. Idle /\ at = 1 /\ UNCHANGED <<saving, at>> /\ ~Loaded'
  BY DEF Clear, CInv, Typed, Idle, Loaded, Return
<1>2. CASE UNCHANGED <<nvs, expected, torn>>
  BY <1>1, <1>2 DEF CInv, Typed, Stored, Holds
<1>3. ASSUME NEW erase \in BOOLEAN, nvs' = IF erase THEN Empty ELSE nvs,
             expected' = None, torn' = ~erase
      PROVE  CInv'
  <2>1. DOMAIN nvs' = Entries /\ (erase => \A e \in Entries : nvs'[e] = Absent)
    BY <1>3 DEF Empty, CInv, Typed
  <2>. QED BY <1>1, <1>3, <2>1 DEF CInv, Typed, Stored
<1>. QED BY <1>2, <1>3 DEF Clear, Results

LEMMA RestartStep == ASSUME CInv, Restart PROVE CInv'
<1>1. /\ saving' = None /\ at' = 1 /\ UNCHANGED <<nvs, expected>>
      /\ torn' = (torn \/ at > 1)
      /\ call' = [name |-> "none", result |-> FALSE]
  BY DEF Restart
<1>2. ~torn' => ~torn /\ ~(at > 1)
  BY <1>1, Zenon
<1>3. ~Loaded'
  BY <1>1, NotLoaded, Zenon DEF Loaded
<1>4. torn' \in BOOLEAN
  BY <1>1
<1>5. Typed'
  BY <1>1, <1>4 DEF CInv, Typed
<1>6. ~torn' => Stored'
  BY <1>1, <1>2 DEF CInv, Typed, Stored, Holds
<1>. QED BY <1>1, <1>3, <1>5, <1>6 DEF CInv

\* The strengthened invariant holds along every behaviour.
THEOREM Inductive == Spec => []CInv
<1>1. CInv /\ [Next]_vars => CInv'
  <2>. SUFFICES ASSUME CInv, [Next]_vars PROVE CInv'
    OBVIOUS
  <2>1. CASE UNCHANGED vars
    BY <2>1 DEF vars, CInv, Typed, Stored, Holds, Begun, Written, Loaded, Idle
  <2>. QED BY <2>1, OpenStep, EntryStep, CommitStep, LoadStep, ClearStep, RestartStep DEF Next
<1>. QED BY <1>1, InitStored, PTL DEF Spec

\* What loadConfig returns is what was saved last, however the calls, the
\* failures and the restarts follow one another.
THEOREM LastSavedIsLoaded == Spec => []LoadsLastSaved
<1>1. CInv => LoadsLastSaved
  <2>. SUFFICES ASSUME CInv, Idle, ~torn
                PROVE  /\ Found <=> expected # None /\ Loadable(expected)
                       /\ Loaded => out = expected
    BY DEF LoadsLastSaved
  <2>1. Stored
    BY DEF CInv, Typed, Idle
  <2>. QED BY <2>1, FoundWhenExpected DEF CInv
<1>. QED BY <1>1, Inductive, PTL
=============================================================================
