------------------------------ MODULE ErrorLog ------------------------------
(***************************************************************************)
(* The error log (src/error.c from report_error on) and the requests that     *)
(* read and clear it (src/rest_errors.c).  Any task reports, the HTTP server    *)
(* reads and clears, and nobody takes a lock: an action is one access to the    *)
(* shared variables.  A code is the number of its report.                     *)
(* X_Variant is X with a plausible mistake.                                  *)
(***************************************************************************)
EXTENDS Integers, Sequences

CONSTANTS
    Reporters,   \* tasks
    LogSize,     \* ERROR_LOG_SIZE
    MaxReports,  \* bound: reports
    MaxCalls     \* bound: requests

ASSUME ErrorLogAssumption == LogSize \in Nat \ {0} /\ MaxReports \in Nat /\ MaxCalls \in Nat

VARIABLES
    errors,      \* error_log
    writeAt,     \* error_log_write_idx
    logged,    \* error_log_count
    lastError, \* last_error
    report,   \* per task: where it is in report_error, and its code
    reader,   \* the request: where it is, and what it has read
    recent,   \* the last LogSize codes reported since the log was cleared
    crossed,  \* two were at the log at the same time since then
    calls     \* reports and requests so far

logVars == <<errors, writeAt, logged, lastError, report, reader, recent, crossed, calls>>

LogSlots == 0..(LogSize - 1)
AtRest == [pc |-> "rest", code |-> 0]
NoReader == [pc |-> "rest", count |-> 0, read |-> <<>>]
Alone == (\A t \in Reporters : report[t] = AtRest) /\ reader = NoReader

ErrorLogInit ==
    /\ errors = [i \in LogSlots |-> 0] /\ writeAt = 0 /\ logged = 0 /\ lastError = 0
    /\ report = [t \in Reporters |-> AtRest] /\ reader = NoReader
    /\ recent = <<>> /\ crossed = FALSE /\ calls = [reports |-> 0, requests |-> 0]

-----------------------------------------------------------------------------
(* report_error                                                            *)
At(t, from, to) == report[t].pc = from /\ report' = [report EXCEPT ![t].pc = to]

ReportBegins(t) ==
    /\ report[t].pc = "rest" /\ calls.reports < MaxReports
    /\ calls' = [calls EXCEPT !.reports = @ + 1]
    /\ report' = [report EXCEPT ![t] = [pc |-> "store", code |-> calls.reports + 1]]
    /\ lastError' = calls.reports + 1
    /\ crossed' = (crossed \/ ~Alone)
    /\ UNCHANGED <<errors, writeAt, logged, reader, recent>>

ReportStores(t) ==
    /\ At(t, "store", "advance")
    /\ errors' = [errors EXCEPT ![writeAt] = report[t].code]
    /\ UNCHANGED <<writeAt, logged, lastError, reader, recent, crossed, calls>>

ReportAdvances(t) ==
    /\ At(t, "advance", "count")
    /\ writeAt' = (writeAt + 1) % LogSize
    /\ UNCHANGED <<errors, logged, lastError, reader, recent, crossed, calls>>

ReportCounts(t) ==
    /\ report[t].pc = "count" /\ report' = [report EXCEPT ![t] = AtRest]
    /\ logged' = IF logged < LogSize THEN logged + 1 ELSE logged
    /\ recent' = LET all == Append(recent, report[t].code) IN
                 IF Len(all) > LogSize THEN Tail(all) ELSE all
    /\ UNCHANGED <<errors, writeAt, lastError, reader, crossed, calls>>

-----------------------------------------------------------------------------
(* error_get_at                                                            *)
EntryAt_Variant(i) ==
    IF i >= reader.count THEN 0 ELSE errors[(writeAt + i) % LogSize]
EntryAt(i) ==
    IF i >= logged THEN 0
    ELSE IF logged < LogSize THEN errors[i] ELSE errors[(writeAt + i) % LogSize]

ReadBegins ==
    /\ reader = NoReader /\ calls.requests < MaxCalls
    /\ calls' = [calls EXCEPT !.requests = @ + 1]
    /\ reader' = [pc |-> "read", count |-> logged, read |-> <<>>]
    /\ crossed' = (crossed \/ ~Alone)
    /\ UNCHANGED <<errors, writeAt, logged, lastError, report, recent>>

ReadOne ==
    /\ reader.pc = "read" /\ Len(reader.read) < reader.count
    /\ reader' = [reader EXCEPT !.read = Append(@, EntryAt(Len(@)))]
    /\ UNCHANGED <<errors, writeAt, logged, lastError, report, recent, crossed, calls>>

ReadEnds ==
    /\ reader.pc = "read" /\ Len(reader.read) = reader.count
    /\ reader' = NoReader
    /\ UNCHANGED <<errors, writeAt, logged, lastError, report, recent, crossed, calls>>

(* error_clear_last: the last error and the count, then the index.             *)
ClearBegins ==
    /\ reader = NoReader /\ calls.requests < MaxCalls
    /\ calls' = [calls EXCEPT !.requests = @ + 1]
    /\ reader' = [NoReader EXCEPT !.pc = "clear"]
    /\ logged' = 0 /\ lastError' = 0 /\ recent' = <<>>
    /\ crossed' = ~Alone
    /\ UNCHANGED <<errors, writeAt, report>>

ClearEnds ==
    /\ reader.pc = "clear" /\ reader' = NoReader
    /\ writeAt' = 0
    /\ UNCHANGED <<errors, logged, lastError, report, recent, crossed, calls>>

ErrorLogNext ==
    \/ \E t \in Reporters :
          ReportBegins(t) \/ ReportStores(t) \/ ReportAdvances(t) \/ ReportCounts(t)
    \/ ReadBegins \/ ReadOne \/ ReadEnds \/ ClearBegins \/ ClearEnds
ErrorLogSpec == ErrorLogInit /\ [][ErrorLogNext]_logVars

-----------------------------------------------------------------------------
(* A page that asks is shown the last LogSize errors since the log was cleared, *)
(* oldest first, each once, also when the ring has wrapped around, was cleared   *)
(* half full, or was disturbed by two tasks at once before it was cleared        *)
(* (error_get_at against report_error and error_clear_last); if two were at it    *)
(* at once since, it may not.                                               *)
ShowsTheLatest ==
    reader.pc = "read" /\ Len(reader.read) = reader.count /\ ~crossed => reader.read = recent

(* The same without the exception: not so in this code.                        *)
AlwaysShowsTheLatest ==
    reader.pc = "read" /\ Len(reader.read) = reader.count /\ Alone => reader.read = recent
=============================================================================
