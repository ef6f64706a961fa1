----------------------------- MODULE RunnerOptions -----------------------------
(***************************************************************************)
(* The command line of BlueRunTests (tools/BlueTestRunner/                 *)
(* RunnerOptions.cpp).  An argument is a record: its kind ("jobs",         *)
(* "timeout", "max-output", "sequential", "list", "help", "separator",     *)
(* "unknown" option or "path"), and for a value the number its digits      *)
(* stand for, NotANumber for digits that are none, and its unit.           *)
(***************************************************************************)
EXTENDS Integers, Sequences, FiniteSets

CONSTANTS
  MaxUint64,
  MaximumTimeoutMilliseconds,
  MaximumOutputBytes,
  TimeUnits,  \* the units of a duration: milliseconds each is worth
  ByteUnits   \* the units of a size: bytes each is worth, 1 for none

NotANumber == -1
Invalid == -1

Options == [mode |-> "Auto", requestedJobCount |-> 0, timeout |-> 0,
            maximumOutputBytes |-> 0, help |-> FALSE, listOnly |-> FALSE]

-----------------------------------------------------------------------------
(* Numbers.                                                                *)

TryParsePositiveInteger(number) == IF number \in 1..MaxUint64 THEN number ELSE Invalid

TryScaleValue(value, multiplier) ==
  IF value > MaxUint64 \div multiplier THEN Invalid ELSE value * multiplier

TryScale(number, multiplier, limit) ==
  LET amount == TryParsePositiveInteger(number) IN
  IF amount = Invalid THEN Invalid
  ELSE LET scaled == TryScaleValue(amount, multiplier)
       IN  IF scaled > limit THEN Invalid ELSE scaled

TryParseDuration(number, unit) ==
  IF unit \notin DOMAIN TimeUnits THEN Invalid
  ELSE TryScale(number, TimeUnits[unit], MaximumTimeoutMilliseconds)

TryParseByteSize(number, unit) ==
  IF unit \notin DOMAIN ByteUnits THEN Invalid
  ELSE TryScale(number, ByteUnits[unit], MaximumOutputBytes)

-----------------------------------------------------------------------------
(* The arguments, one after the other; an error or --help ends it.         *)

Parsed == [options |-> Options, testExecutables |-> <<>>, success |-> TRUE,
           parseOptions |-> TRUE, returned |-> FALSE]

Fails(parsed) == [parsed EXCEPT !.success = FALSE, !.returned = TRUE]

ParseJobs(parsed, argument) ==
  LET jobCount == TryParsePositiveInteger(argument.number) IN
    CASE argument.unit = "auto" ->
           [parsed EXCEPT !.options.mode = "Auto", !.options.requestedJobCount = 0]
      [] argument.unit # "auto" /\ jobCount = Invalid -> Fails(parsed)
      [] OTHER ->
           [parsed EXCEPT !.options.mode = "Fixed", !.options.requestedJobCount = jobCount]

ParseTimeout(parsed, argument) ==
  LET timeout == TryParseDuration(argument.number, argument.unit) IN
    IF timeout = Invalid THEN Fails(parsed) ELSE [parsed EXCEPT !.options.timeout = timeout]

ParseMaxOutput(parsed, argument) ==
  LET bytes == TryParseByteSize(argument.number, argument.unit) IN
    IF bytes = Invalid THEN Fails(parsed)
    ELSE [parsed EXCEPT !.options.maximumOutputBytes = bytes]

ParseOption(parsed, argument) ==
  CASE argument.kind = "separator" -> [parsed EXCEPT !.parseOptions = FALSE]
    [] argument.kind = "help" -> [parsed EXCEPT !.options.help = TRUE, !.returned = TRUE]
    [] argument.kind = "list" -> [parsed EXCEPT !.options.listOnly = TRUE]
    [] argument.kind = "sequential" ->
         [parsed EXCEPT !.options.mode = "Sequential", !.options.requestedJobCount = 1]
    [] argument.kind = "jobs" -> ParseJobs(parsed, argument)
    [] argument.kind = "timeout" -> ParseTimeout(parsed, argument)
    [] argument.kind = "max-output" -> ParseMaxOutput(parsed, argument)
    [] argument.kind = "unknown" -> Fails(parsed)

ParseArgument(parsed, argument) ==
  CASE parsed.returned -> parsed
    [] ~parsed.returned /\ parsed.parseOptions /\ argument.kind # "path" ->
         ParseOption(parsed, argument)
    [] OTHER -> [parsed EXCEPT !.testExecutables = Append(@, argument)]

ParseArguments(arguments) ==
  LET after[i \in 0..Len(arguments)] ==
        IF i = 0 THEN Parsed ELSE ParseArgument(after[i - 1], arguments[i])
      parsed == after[Len(arguments)]
  IN  IF ~parsed.returned /\ parsed.testExecutables = <<>>
      THEN [parsed EXCEPT !.success = FALSE] ELSE parsed

-----------------------------------------------------------------------------
(* Properties.                                                             *)

\* What an accepted number means, in exact arithmetic.
InRange(number, worth, limit) == number \in 1..limit /\ number * worth <= limit

Units(kind) == IF kind = "timeout" THEN TimeUnits ELSE ByteUnits
Limit(kind) == IF kind = "timeout" THEN MaximumTimeoutMilliseconds ELSE MaximumOutputBytes

Acceptable(argument) ==
  CASE argument.kind = "jobs" -> argument.unit = "auto" \/ argument.number \in 1..MaxUint64
    [] argument.kind \in {"timeout", "max-output"} ->
         /\ argument.unit \in DOMAIN Units(argument.kind)
         /\ InRange(argument.number, Units(argument.kind)[argument.unit], Limit(argument.kind))
    [] OTHER -> argument.kind # "unknown"

\* The command line means what its arguments say one by one: the arguments that
\* are options are those before the separator, a help among them ends it, it fails
\* exactly when an option before that is unacceptable or no path is left, the
\* paths are run in their order, and of options of one kind the last one holds, to
\* its exact value.
ParsedAsWritten(arguments) ==
  LET parsed == ParseArguments(arguments)
      n == Len(arguments)
      Before(kind) == {i \in 1..n : \A j \in 1..i : arguments[j].kind # kind}
      options == {i \in Before("separator") : arguments[i].kind # "path"}
      stops == {i \in options : arguments[i].kind = "help" \/ ~Acceptable(arguments[i])}
      paths == {i \in 1..n : arguments[i].kind # "separator" /\ i \notin options}
                 \cup {i \in 1..n : i \notin Before("separator")
                                    /\ \E j \in 1..(i - 1) : arguments[j].kind = "separator"}
      last(kind) == {i \in options : arguments[i].kind = kind
                       /\ \A j \in options : arguments[j].kind = kind => j <= i}
  IN
  IF stops # {} THEN
    LET first == CHOOSE i \in stops : \A j \in stops : i <= j
    IN  parsed.success = (arguments[first].kind = "help")
  ELSE
    /\ parsed.success = (paths # {})
    /\ Len(parsed.testExecutables) = Cardinality(paths)
    /\ \A k \in paths :
         parsed.testExecutables[Cardinality({i \in paths : i <= k})] = arguments[k]
    /\ \A kind \in {"timeout", "max-output"} : \A i \in last(kind) :
         (IF kind = "timeout" THEN parsed.options.timeout ELSE parsed.options.maximumOutputBytes)
           = arguments[i].number * Units(kind)[arguments[i].unit]
    /\ (parsed.options.mode = "Fixed") =>
         \E i \in last("jobs") : parsed.options.requestedJobCount = arguments[i].number
=============================================================================
