-------------------------------- MODULE MCSystem --------------------------------
(***************************************************************************)
(* The run of the components of System, each with small constants: the     *)
(* initial state chooses one of them, or inputs of the pure operators.     *)
(***************************************************************************)
EXTENDS System

CONSTANTS t1, t2, t3

MCThreads == {t1, t2, t3}
Pair == {"main", "worker"}

MCLogSinks == {[minimum |-> 0, logs |-> TRUE], [minimum |-> 1, logs |-> FALSE]}
MCLogEvents ==
  {[level |-> 0, categoryMinimum |-> 0], [level |-> 1, categoryMinimum |-> 0],
   [level |-> 0, categoryMinimum |-> 1]}

Settings(tracked, leaks, budgets, buffer, policy) ==
  [tracking |-> tracked, leaks |-> leaks, budgets |-> budgets, buffer |-> buffer,
   policy |-> policy]
Request(size, valid, tracked, policy) ==
  [size |-> size, valid |-> valid, tracked |-> tracked, policy |-> policy]

\* One block fits the table of two, and the third registration has no slot; the
\* budget is two bytes; a buffer of reports holds one or two.
MCReportCapacity == [default |-> 2, own |-> 1]
MCMemoryDescs ==
  {Settings(TRUE, TRUE, FALSE, "own", "ReportAndReturnNull"),
   Settings(FALSE, TRUE, TRUE, "default", "Callback"),
   Settings(FALSE, FALSE, TRUE, "default", "ReturnNull")}
MCRequests ==
  {Request(1, TRUE, TRUE, "try"), Request(2, TRUE, FALSE, "CallHandlerThenAbort"),
   Request(0, FALSE, TRUE, "try")}

MCInfos ==
  [stack : {"default", "too small", "beyond 32 bits"},
   policies : {{}, {"name", "priority", "affinity"}}]

MCReleases == 0..5
MCSemaphoreDescs == {<<0, 2>>, <<1, 1>>, <<3, 3>>, <<0, 4>>, <<2, 1>>, <<0, 0>>}
MCMaxima == 0..6
MCTimeUnits == [ms |-> 1, s |-> 3, m |-> 6]
MCByteUnits == [none |-> 1, k |-> 2, g |-> 8]

Argument(kind, value, unit) == [kind |-> kind, number |-> value, unit |-> unit]
MCArguments ==
  {Argument(kind, 0, "none") :
     kind \in {"separator", "help", "list", "sequential", "unknown", "path"}}
  \cup {Argument("jobs", n, "none") : n \in {Opt!NotANumber, 0, 3, 64}}
  \cup {Argument("jobs", 0, "auto")}
  \cup {Argument("timeout", n, unit) : n \in {4, 5}, unit \in {"ms", "s", "none"}}
  \cup {Argument("max-output", n, unit) : n \in {2, 9}, unit \in {"none", "k", "g"}}
=============================================================================
