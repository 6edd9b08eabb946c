------------------------------- MODULE Config -------------------------------
(***************************************************************************)
(* internal/config: a configuration is loaded from bitcask.json, and       *)
(* layers of overrides are merged over it.  Sync and SyncInterval, which   *)
(* Validate relates, are kept as they are.  number stands for each of the  *)
(* other fields: Merge takes it from overrides when it is not zero (for    *)
(* ReadOnly: when it is true), and Validate wants it from 0 to Most, which *)
(* for the two ratios is 1 and for the others has no bound.                *)
(***************************************************************************)
EXTENDS Integers

CONSTANTS
  Interval, Number,   \* the values of SyncInterval and of another field
  Most                \* the largest one of those that is valid

ASSUME ConfigAssumption ==
  Interval \subseteq Int /\ Number \subseteq Int /\ Most \in Nat \ {0}

VARIABLES
  configFile,  \* bitcask.json: absent, torn, or its configuration
  base,        \* what Load returned; Absent when it failed or was not called
  config,      \* that with the overrides merged over it
  overrides,   \* history: the overrides merged with each other
  negative     \* history: some layer had a negative SyncInterval

configVars == <<configFile, base, config, overrides, negative>>

Configs ==
  [sync : {"none", "every_write", "interval"}, interval : Interval, number : Number]

Absent == [is |-> "absent"]
TornFile == [is |-> "torn"]

Zero == [sync |-> "none", interval |-> 0, number |-> 0]

Default == [sync |-> "none", interval |-> 1, number |-> Most]

ValidConfig(c) ==
  /\ c.sync = "interval" => c.interval > 0
  /\ c.number >= 0 /\ c.number <= Most

Over(o, b, none) == IF o # none THEN o ELSE b

\* Wrong: an interval counts only where the policy is interval.
MergedWithPolicy(b, o) ==
  LET sync == Over(o.sync, b.sync, "none")
  IN [sync |-> sync, number |-> Over(o.number, b.number, 0),
      interval |-> IF sync = "interval" THEN Over(o.interval, b.interval, 0) ELSE b.interval]

\* Merge: what overrides has that is not zero.
Merged(b, o) ==
  [sync |-> Over(o.sync, b.sync, "none"),
   interval |-> Over(o.interval, b.interval, 0),
   number |-> Over(o.number, b.number, 0)]

\* Save does not validate what it writes.
ConfigSave(c) ==
  /\ configFile' = c
  /\ UNCHANGED <<base, config, overrides, negative>>

\* os.WriteFile truncates the file and fails, or the process dies in it.
ConfigSaveTorn ==
  /\ configFile' = TornFile
  /\ UNCHANGED <<base, config, overrides, negative>>

\* Load and ReadFrom; Absent is an error.
LoadedConfig(file) ==
  IF file = Absent THEN Default
  ELSE IF file = TornFile THEN Absent
  ELSE IF ValidConfig(file) THEN file ELSE Absent

ConfigLoad ==
  /\ base' = LoadedConfig(configFile)
  /\ config' = base' /\ overrides' = Zero
  /\ negative' = (base' # Absent /\ base'.interval < 0)
  /\ UNCHANGED configFile

\* A layer of its own passes Validate.
Override(o) ==
  /\ config # Absent /\ ValidConfig(o)
  /\ config' = Merged(config, o)
  /\ overrides' = Merged(overrides, o)
  /\ negative' = (negative \/ o.interval < 0)
  /\ UNCHANGED <<configFile, base>>

ConfigInit ==
  /\ configFile = Absent /\ base = Absent /\ config = Absent
  /\ overrides = Zero /\ negative = FALSE

ConfigNext ==
  \/ \E c \in Configs : ConfigSave(c) \/ Override(c)
  \/ ConfigSaveTorn \/ ConfigLoad

ConfigSpec == ConfigInit /\ [][ConfigNext]_configVars

(***************************************************************************)
(* However many valid layers are merged, the result passes Validate, as    *)
(* long as no layer has a negative SyncInterval, which Validate lets pass  *)
(* where the policy is not interval.  It does not matter whether the       *)
(* layers are merged one by one over the configuration of the file or      *)
(* first with each other (Validate, Merge, ReadFrom).                      *)
(***************************************************************************)
LayersMergeSoundly ==
  config # Absent =>
    /\ ~negative => ValidConfig(config)
    /\ config = Merged(base, overrides)
=============================================================================
