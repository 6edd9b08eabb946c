---------------------------- MODULE CommandLine ----------------------------
(***************************************************************************)
(* main.go: a command line is reordered, parsed by the flag package and    *)
(* turned into one call of the store (Store models the call).  A command   *)
(* line is typed word by word.  A word is a db flag with its value         *)
(* attached (-db=d) or apart (-db), another word with a dash, the word "-" *)
(* or "--", or a plain word.                                               *)
(***************************************************************************)
EXTENDS Naturals, Sequences, SequencesExt

CONSTANTS
  PlainWord,   \* words without a dash: directories, commands, keys, values
  MaxWords     \* bound: words of a command line

ASSUME CommandLineAssumption == MaxWords \in Nat

VARIABLE args   \* the words typed so far

\* raw is the word as it stands, value what follows its "=".
Plain(w) == [is |-> "plain", dash |-> FALSE, eq |-> FALSE, raw |-> w, value |-> ""]
DbIs(w) == [is |-> "db", dash |-> TRUE, eq |-> TRUE, raw |-> "-", value |-> w]
Db == [is |-> "db", dash |-> TRUE, eq |-> FALSE, raw |-> "-", value |-> ""]
OtherFlag == [is |-> "other", dash |-> TRUE, eq |-> FALSE, raw |-> "-", value |-> ""]
Dash == [is |-> "dash", dash |-> TRUE, eq |-> FALSE, raw |-> "-", value |-> ""]
DashDash == [is |-> "end", dash |-> TRUE, eq |-> FALSE, raw |-> "-", value |-> ""]

Words ==
  {Db, OtherFlag, Dash, DashDash} \cup {Plain(w) : w \in PlainWord} \cup {DbIs(w) : w \in PlainWord}

\* The words at the places in is, in their order: appended one by one.
Chosen(s, is) ==
  LET chosen[n \in 0 .. Len(s)] ==
        IF n = 0 THEN <<>>
        ELSE IF n \in is THEN Append(chosen[n - 1], s[n]) ELSE chosen[n - 1]
  IN chosen[Len(s)]

\* The words reorder moves along with the flag before them.
FlagValues(s) ==
  {i \in 2 .. Len(s) : ~s[i].dash /\ s[i - 1].dash /\ ~s[i - 1].eq}

FlagWords(s) == {i \in 1 .. Len(s) : s[i].dash} \cup FlagValues(s)

\* Wrong: the value of a flag stays where it was.
reorderFlagsOnly(s) ==
  LET flags == {i \in 1 .. Len(s) : s[i].dash}
  IN Chosen(s, flags) \o Chosen(s, (1 .. Len(s)) \ flags)

reorder(s) == Chosen(s, FlagWords(s)) \o Chosen(s, (1 .. Len(s)) \ FlagWords(s))

(***************************************************************************)
(* flag.Parse reads flags up to the first plain word, "-" or "--"; -db     *)
(* takes the next word whatever it is.  mode is what it looks for after a  *)
(* word, and the words from next on are those it has not read.  External   *)
(* to the repository.                                                      *)
(***************************************************************************)
Parsing(mode, db, next) == [mode |-> mode, db |-> db, next |-> next]

ParseFlag(p, w, n) ==
  CASE ~w.dash \/ w = Dash -> Parsing("rest", p.db, n)
    [] w.is = "end" -> Parsing("rest", p.db, n + 1)
    [] w.is = "other" -> Parsing("error", p.db, n)
    [] w.is = "db" /\ w.eq -> Parsing("flag", w.value, n + 1)
    [] w.is = "db" /\ ~w.eq -> Parsing("value", p.db, n)

ParseWord(p, w, n) ==
  CASE p.mode = "value" -> Parsing("flag", w.raw, n + 1)
    [] p.mode = "flag" -> ParseFlag(p, w, n)
    [] p.mode \in {"rest", "error"} -> p

Parse(s) ==
  LET parse[n \in 0 .. Len(s)] ==
        IF n = 0 THEN Parsing("flag", "", 1) ELSE ParseWord(parse[n - 1], s[n], n)
  IN parse[Len(s)]

(***************************************************************************)
(* run: the directory it opens ("" for none) and what it asks of the       *)
(* store.  Without a command that is a usage error, exit status 2; the     *)
(* command is looked at only after the directory was opened.               *)
(***************************************************************************)
\* The subcommands and the number of arguments they need.
Commands == [put |-> 2, get |-> 1, del |-> 1, merge |-> 0]

UsageError(db) == [db |-> db, command |-> <<>>]

Dispatch(db, rest) ==
  IF db = "" \/ rest = <<>> THEN UsageError("")
  ELSE IF rest[1].raw \notin DOMAIN Commands THEN UsageError(db)
  ELSE IF Len(rest) <= Commands[rest[1].raw] THEN UsageError(db)
  ELSE [db |-> db, command |-> SubSeq(rest, 1, Commands[rest[1].raw] + 1)]

run(s) ==
  LET words == reorder(s)
      p == Parse(words)
  IN IF p.mode \in {"flag", "rest"} THEN Dispatch(p.db, SubSeq(words, p.next, Len(words)))
     ELSE UsageError("")

CommandLineInit == args = <<>>
CommandLineNext == Len(args) < MaxWords /\ \E w \in Words : args' = Append(args, w)

CommandLineSpec == CommandLineInit /\ [][CommandLineNext]_args

(***************************************************************************)
(* "Flags may appear before or after the subcommand": wherever the db      *)
(* flags stand among the words, run carries out the words that no flag     *)
(* takes, in their order, in the directory the last db flag names.  A line *)
(* with another dashed word, a key or a value say, is refused and never    *)
(* carried out as something else (reorder, run).  Not promised after "--"  *)
(* nor where -db is followed by a flag or by nothing.                      *)
(***************************************************************************)
WellFormed ==
  /\ DashDash \notin ToSet(args)
  /\ \A i \in 1 .. Len(args) : args[i] = Db => i < Len(args) /\ ~args[i + 1].dash

IsDbValue(i) == i > 1 /\ args[i - 1] = Db

DbValues == {<<i, args[i].value>> : i \in {j \in 1 .. Len(args) : args[j].eq}}
              \cup {<<i, args[i].raw>> : i \in {j \in 1 .. Len(args) : IsDbValue(j)}}

LastDb ==
  IF DbValues = {} THEN "" ELSE (CHOOSE v \in DbValues : \A w \in DbValues : w[1] <= v[1])[2]

Typed == Chosen(args, {i \in 1 .. Len(args) : ~args[i].dash /\ ~IsDbValue(i)})

FlagsMayComeAnywhere ==
  WellFormed =>
    IF {OtherFlag, Dash} \cap ToSet(args) # {} THEN run(args).command = <<>>
    ELSE run(args) = Dispatch(LastDb, Typed)
=============================================================================
