--------------------------- MODULE RuntimeContext ----------------------------
(***************************************************************************)
(* UiPathRuntimeContext (context.py): what surrounds a run, and what it    *)
(* leaves behind.  __enter__ takes the installed result sink and sets the  *)
(* main log interceptor up; __exit__ turns the result, or the exception    *)
(* of the body, into the arguments file, the result file and the output    *)
(* file, tells the sink, and, if any of that fails, tries to write a       *)
(* FAULTED result instead.                                                 *)
(*                                                                         *)
(* Every write may fail before it changed the file or half-way, and the    *)
(* process may end at any point.  A file is stale until this run opens it:   *)
(* there is none, or an earlier run of the job left it in the directory,   *)
(* where a reader would find it.  What surrounds the body is here, the     *)
(* body itself in JobRun.                                                  *)
(***************************************************************************)

VARIABLES
  job,     \* whether there is a job_id
  split,   \* split_output_arguments
  out,     \* whether an output_file was asked for
  sink,    \* the result sink: "none", "hears", or one that "raises"
  pc,      \* where the process is
  status,  \* result.status
  error,   \* result.error, by its origin
  resultFile, argsFile, outputFile, \* what the files hold
  told,    \* the status the sink was given, or "nothing"
  leaves   \* the exception that leaves the context

config == <<job, split, out, sink>>
files == <<resultFile, argsFile, outputFile>>
result == <<status, error>>
contextVars == <<config, pc, result, files, told, leaves>>

Statuses == {"successful", "faulted", "suspended"}
Errors == {"trigger", "contract", "generic"}

\* The part of the result file that matters: the status, where the error comes
\* from, and whether the file points to the arguments file.
Verdict(s, e, p) == [status |-> s, error |-> e, points |-> p]
Stale == Verdict("stale", "none", FALSE)
Half == Verdict("half", "none", FALSE)

ContextInit ==
  /\ job \in BOOLEAN /\ split \in BOOLEAN /\ out \in BOOLEAN
  /\ sink \in {"none", "hears", "raises"}
  /\ pc = "off" /\ status = "successful" /\ error = "none"
  /\ resultFile = Stale /\ argsFile = "stale" /\ outputFile = "stale"
  /\ told = "nothing" /\ leaves = "none"

-----------------------------------------------------------------------------
(* __enter__, and the end of the body                                      *)

Enter ==
  /\ pc' = "entered"
  /\ status' = "successful" /\ error' = "none"
  /\ resultFile' = Stale /\ argsFile' = "stale" /\ outputFile' = "stale"
  /\ told' = "nothing" /\ leaves' = "none"
  /\ UNCHANGED config

\* The interceptor cannot be built: __exit__ is never called.
EnterFails ==
  /\ pc = "entered" /\ pc' = "ended"
  /\ leaves' = "enter"
  /\ UNCHANGED <<config, result, files, told>>

\* The body set the result, or set none and gets the default one.
BodyReturns(s) ==
  /\ pc' = "building"
  /\ status' = s /\ error' = IF s = "faulted" THEN "contract" ELSE "none"
  /\ UNCHANGED <<config, files, told, leaves>>

\* The body raised: the error is built from a failed trigger, from the contract
\* the exception carries, or from the exception's type and text.
BodyRaises(e) ==
  /\ pc' = "building" /\ status' = "faulted" /\ error' = e /\ leaves' = e
  /\ UNCHANGED <<config, files, told>>

-----------------------------------------------------------------------------
(* __exit__                                                                *)

\* "Gated on job_id ...: the pointer only has a reader when there is a job"
Splits == split /\ job

\* result.to_dict()
Build ==
  /\ pc = "building" /\ pc' = "arguments"
  /\ UNCHANGED <<config, result, files, told, leaves>>

WriteArguments ==
  /\ pc = "arguments" /\ pc' = "result"
  /\ argsFile' = IF Splits THEN "whole" ELSE argsFile
  /\ UNCHANGED <<config, result, resultFile, outputFile, told, leaves>>

WriteResult ==
  /\ pc = "result" /\ pc' = "output"
  /\ resultFile' = IF job THEN Verdict(status, error, split) ELSE resultFile
  /\ UNCHANGED <<config, result, argsFile, outputFile, told, leaves>>

WriteOutput ==
  /\ pc = "output" /\ pc' = "sink"
  /\ outputFile' = IF out THEN "whole" ELSE outputFile
  /\ UNCHANGED <<config, result, resultFile, argsFile, told, leaves>>

\* Deviation: the arguments are written for the sink whether they were split
\* off or not.
SpillsAlways == TRUE

\* "Avoid re-spilling if split_output_arguments already wrote this file"
Spills == ~Splits

Tells == sink # "none" /\ status \in {"successful", "faulted"}

\* Deviation: a sink that raises is a failure of the shutdown.
AfterSinkFaults(raises) == IF raises THEN "rescue" ELSE "teardown"

\* "a sink failure must NOT reach the catch-all below"
AfterSink(raises) == "teardown"

Tell ==
  /\ pc = "sink"
  /\ IF Tells
     THEN /\ told' \in {status} \cup (IF sink = "raises" THEN {told} ELSE {})
          /\ pc' = AfterSink(sink = "raises")
          /\ argsFile' = IF Spills THEN "whole" ELSE argsFile
     ELSE pc' = "teardown" /\ UNCHANGED <<told, argsFile>>
  /\ UNCHANGED <<config, result, resultFile, outputFile, leaves>>

\* The file being written at pc, if any.
Writing ==
  CASE pc = "arguments" /\ Splits -> "arguments"
    [] pc = "sink" /\ Tells /\ Spills -> "arguments"
    [] pc \in {"result", "rescue"} /\ job -> "result"
    [] pc = "output" /\ out -> "output"
    [] OTHER -> "none"

\* It is left as it was, or holds a part of what was to be written.
TornWrite ==
  \/ UNCHANGED files
  \/ /\ Writing # "none"
     /\ resultFile' = IF Writing = "result" THEN Half ELSE resultFile
     /\ argsFile' = IF Writing = "arguments" THEN "half" ELSE argsFile
     /\ outputFile' = IF Writing = "output" THEN "half" ELSE outputFile

\* Building or writing raises in the try block, inside _deliver_result or not.
ExitFails ==
  /\ pc = "building" \/ (pc # "rescue" /\ Writing # "none")
  /\ TornWrite
  /\ pc' = IF pc = "sink" THEN AfterSink(TRUE) ELSE "rescue"
  /\ UNCHANGED <<config, result, told, leaves>>

\* The last-ditch result: always FAULTED, with the error of the shutdown.
Rescued == Verdict("faulted", "shutdown", FALSE)

Rescue ==
  /\ pc = "rescue" /\ pc' = "teardown"
  /\ resultFile' = IF job THEN Rescued ELSE resultFile
  /\ leaves' = "shutdown"
  /\ UNCHANGED <<config, result, argsFile, outputFile, told>>

RescueFails ==
  /\ pc = "rescue" /\ job /\ pc' = "teardown"
  /\ TornWrite
  /\ leaves' = "write"
  /\ UNCHANGED <<config, result, told>>

\* The interceptor is torn down; the exception, if any, goes on.
Teardown ==
  /\ pc = "teardown" /\ pc' = "ended"
  /\ UNCHANGED <<config, result, files, told, leaves>>

\* The process ends, wherever it is, and its memory with it.
Dies ==
  /\ pc \notin {"off", "ended", "dead"} /\ pc' = "dead"
  /\ TornWrite
  /\ status' = "successful" /\ error' = "none" /\ leaves' = "none"
  /\ UNCHANGED <<config, told>>

Exit ==
  \/ Build \/ WriteArguments \/ WriteResult \/ WriteOutput \/ Tell
  \/ ExitFails \/ Rescue \/ RescueFails \/ Teardown
=============================================================================
