----------------------------- MODULE ConfigStore -----------------------------
(***************************************************************************)
(* The configuration kept in flash: WireGuard_saveConfig, _loadConfig and  *)
(* _clearConfig (WireGuardModern.cpp) on the NVS namespace "wgcfg".        *)
(*                                                                         *)
(* NVS writes one entry atomically, and a write may fail for want of room. *)
(* The board may restart between any two writes.  The application makes    *)
(* one call at a time, so loadConfig, which only reads, is one step.       *)
(***************************************************************************)
EXTENDS Naturals, Sequences

CONSTANTS
    Config,     \* the configurations the application saves
    Text,       \* keys and endpoints
    Long,       \* those of them that need 256 bytes or more
    Faults,     \* the NVS calls that may fail
    Absent,     \* no such entry; a parameter not written
    None        \* no configuration

ASSUME ConfigAssumption ==
    /\ Long \subseteq Text
    /\ Config \subseteq [priv_key : Text, pub_key : Text, endpoint : Text,
                         port : Nat, endpoint_ip : Nat]
    /\ None \notin Config
    /\ Absent \notin Text \cup Nat
    /\ Faults \subseteq {"nvs_open", "nvs_set", "nvs_commit", "nvs_erase_all"}

\* saveConfig writes the entries in this order; loadConfig asks for all but
\* the last in this order too
Names == <<"cfg_ver", "priv_key", "pub_key", "endpoint", "port", "endpoint_ip">>
Entries == {Names[i] : i \in 1 .. Len(Names)}
Strings == {"priv_key", "pub_key", "endpoint"}
Fields == Entries \ {"cfg_ver"}

VARIABLES
    nvs,        \* the entries of the namespace
    created,    \* the namespace exists
    saving,     \* the configuration saveConfig is writing, or None
    at,         \* the next entry it writes
    call,       \* the last call that returned: its name, and what it returned
    out,        \* what loadConfig has written to its parameters
    \* history
    expected,   \* the configuration of the last save or clear that returned true
    torn        \* since then a write was refused or a call did not finish

vars == <<nvs, created, saving, at, call, out, expected, torn>>

NoOutput == [f \in Fields |-> Absent]
Empty == [e \in Entries |-> Absent]

TypeOK ==
    /\ DOMAIN nvs = Entries
    /\ \A e \in Entries :
          nvs[e] = Absent \/ IF e = "cfg_ver" THEN nvs[e] = 1
                                              ELSE \E c \in Config : nvs[e] = c[e]
    /\ {created, torn} \subseteq BOOLEAN
    /\ {saving, expected} \subseteq Config \cup {None}
    /\ at \in 1 .. Len(Names) + 1
    /\ call \in [name : {"none", "save", "load", "clear"}, result : BOOLEAN]
    /\ DOMAIN out = Fields

Init ==
    /\ nvs = Empty /\ created = FALSE
    /\ saving = None /\ at = 1
    /\ call = [name |-> "none", result |-> FALSE]
    /\ out = NoOutput
    /\ expected = None /\ torn = FALSE

\* what an NVS call may report: TRUE for ESP_OK
Results(c) == IF c \in Faults THEN BOOLEAN ELSE {TRUE}

Return(name, result) == call' = [name |-> name, result |-> result]

-----------------------------------------------------------------------------
(* Mutated forms of definitions below, each a slip the code could make. *)

\* the address left alone when the caller has none
WrittenIfKnown(e, c) ==
    IF e = "cfg_ver" THEN 1
    ELSE IF e = "endpoint_ip" /\ c[e] = 0 THEN nvs[e] ELSE c[e]

-----------------------------------------------------------------------------
(* WireGuard_saveConfig *)

Idle == saving = None

SaveOpen(c) ==
    /\ Idle
    /\ \E open \in Results("nvs_open") :
          IF open
          THEN /\ saving' = c /\ at' = 1 /\ created' = TRUE
               /\ call' = [name |-> "none", result |-> FALSE]
          ELSE /\ Return("save", FALSE)
               /\ UNCHANGED <<saving, at, created>>
    /\ UNCHANGED <<nvs, out, expected, torn>>

Written(e, c) == IF e = "cfg_ver" THEN 1 ELSE c[e]

\* nvs_set_u32, nvs_set_str, nvs_set_u16: their results are not looked at
SaveEntry ==
    /\ ~Idle
    /\ at <= Len(Names)
    /\ at' = at + 1
    /\ \E set \in Results("nvs_set") :
          /\ nvs' = IF set THEN [nvs EXCEPT ![Names[at]] = Written(Names[at], saving)] ELSE nvs
          /\ torn' = ((torn /\ at > 1) \/ ~set)
    /\ UNCHANGED <<created, saving, call, out, expected>>

\* nvs_commit decides what saveConfig returns
SaveCommit ==
    /\ ~Idle
    /\ at > Len(Names)
    /\ saving' = None /\ at' = 1
    /\ \E commit \in Results("nvs_commit") :
          /\ Return("save", commit)
          /\ expected' = IF commit THEN saving ELSE expected
          /\ torn' = (torn \/ ~commit)
    /\ UNCHANGED <<nvs, created, out>>

-----------------------------------------------------------------------------
(* WireGuard_loadConfig *)

\* loadConfig goes on past this entry
Reads(e) ==
    /\ nvs[e] # Absent
    /\ e = "cfg_ver" => nvs[e] = 1
    /\ e \in Strings => nvs[e] \notin Long

\* the entries it reads before one makes it give up; the address is optional
Read == {Names[i] : i \in {j \in 1 .. 5 : \A k \in 1 .. j : Reads(Names[k])}}
Found == \A i \in 1 .. 5 : Reads(Names[i])

\* An entry that is there can be read: that nvs_get fails on one is left out.
Load ==
    /\ Idle
    /\ \E open \in Results("nvs_open") :
          /\ Return("load", created /\ open /\ Found)
          /\ out' = [f \in Fields |->
                \* each parameter is written as its entry is read
                IF created /\ open /\ f \in Read THEN nvs[f]
                ELSE IF created /\ open /\ Found THEN (IF nvs[f] = Absent THEN 0 ELSE nvs[f])
                ELSE out[f]]
    /\ UNCHANGED <<nvs, created, saving, at, expected, torn>>

-----------------------------------------------------------------------------
(* WireGuard_clearConfig *)

\* neither nvs_erase_all nor nvs_commit is looked at
Clear ==
    /\ Idle
    /\ \E open \in Results("nvs_open"), erase \in Results("nvs_erase_all") :
          IF open
          THEN /\ created' = TRUE
               /\ nvs' = IF erase THEN Empty ELSE nvs
               /\ expected' = None
               /\ torn' = ~erase
               /\ Return("clear", TRUE)
          ELSE /\ Return("clear", FALSE)
               /\ UNCHANGED <<created, nvs, expected, torn>>
    /\ UNCHANGED <<saving, at, out>>

-----------------------------------------------------------------------------

\* the board restarts: the flash is all that is left
Restart ==
    /\ torn' = (torn \/ at > 1)
    /\ saving' = None /\ at' = 1
    /\ call' = [name |-> "none", result |-> FALSE]
    /\ out' = NoOutput
    /\ UNCHANGED <<nvs, created, expected>>

Next ==
    \/ \E c \in Config : SaveOpen(c)
    \/ SaveEntry \/ SaveCommit
    \/ Load
    \/ Clear
    \/ Restart

Spec == Init /\ [][Next]_vars

-----------------------------------------------------------------------------
(* Properties *)

Loaded == call = [name |-> "load", result |-> TRUE]

Loadable(c) == \A f \in Strings : c[f] \notin Long

\* As long as no write is refused and no save is cut short, there is something
\* to load exactly when the last call that changed the store was a save (of
\* strings short enough), and loadConfig returns what that save was given, field
\* by field, whatever was stored before and after any number of restarts.
LoadsLastSaved ==
    Idle /\ ~torn =>
        /\ Found <=> expected # None /\ Loadable(expected)
        /\ Loaded => out = expected

-----------------------------------------------------------------------------
(* What the documentation says and the code does not do *)

\* WireGuardModern.h:187, WireGuard_loadConfig: "Loads previously saved
\* configuration": what it returns is one of the configurations, not a mixture.
LoadsOneConfig == Loaded => out \in Config

\* WireGuardModern.h:169 and :196, WireGuard_saveConfig and _clearConfig:
\* "@return true on success": what they say was done is done.
TrueMeansDone ==
    /\ call = [name |-> "save", result |-> TRUE] =>
          \A f \in Fields : nvs[f] = expected[f]
    /\ call = [name |-> "clear", result |-> TRUE] => nvs = Empty
=============================================================================
