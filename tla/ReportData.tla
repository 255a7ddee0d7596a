----------------------------- MODULE ReportData -----------------------------
(***************************************************************************)
(* The performance report: a test case collects measures in rows           *)
(* (common/results.py of the evaluation-runner), which are uploaded as     *)
(* yaml files; the controller merges the files of a case group, turns the  *)
(* numbered keys into lists again, renders the template (report/markdown.py*)
(* of the controller) and serves what it wrote (service/result.py).        *)
(***************************************************************************)
EXTENDS Naturals, Sequences, FiniteSets, SequencesExt

CONSTANTS
    Cases,      \* test cases of one group, each with its yaml file
    Metrics,
    MaxRows,    \* a bound: rows of a case
    Gaps        \* a row may lack a metric that a later one has

VARIABLES
    measured,   \* data_dict: the rows in which each case has each metric
    files,      \* the cases whose yaml file was generated
    stage,      \* "testing", "uploaded", "loaded", "reported", "failed"
    merged,     \* merge(): what the template is rendered from
    written,    \* the directory of the report, "none" before it is written
    served      \* what GET /result/performance answered last

vars == <<measured, files, stage, merged, written, served>>

NoRows == [m \in Metrics |-> {}]

Init ==
    /\ measured = [c \in Cases |-> NoRows] /\ files = {} /\ stage = "testing"
    /\ merged = [c \in {} |-> NoRows] /\ written = "none" /\ served = "nothing"

-----------------------------------------------------------------------------
(* add_result_data: a row of some metrics, its index as the last part of   *)
(* the key.                                                                *)
AddResultData(c, row, ms) ==
    /\ stage = "testing" /\ c \notin files
    /\ \A m \in ms : Gaps \/ row = Cardinality(measured[c][m])
    /\ measured' = [measured EXCEPT ![c] =
           [m \in Metrics |-> IF m \in ms THEN @[m] \cup {row} ELSE @[m]]]
    /\ UNCHANGED <<files, stage, merged, written, served>>

(* teardown_class; no file without data.                                   *)
GenerateYamlFile(c) ==
    /\ stage = "testing" /\ measured[c] # NoRows
    /\ files' = files \cup {c}
    /\ UNCHANGED <<measured, stage, merged, written, served>>

PostZip ==
    /\ stage = "testing" /\ stage' = "uploaded"
    /\ UNCHANGED <<measured, files, merged, written, served>>

-----------------------------------------------------------------------------
(* get_performance_results: nothing without a yaml file.                   *)
NoFile ==
    /\ stage = "uploaded" /\ files = {} /\ stage' = "reported"
    /\ UNCHANGED <<measured, files, merged, written, served>>

(* Mutant of Update: the file that is read last is the group.              *)
UpdateLast(data, yaml) == yaml

(* dict.update: the cases of a group have keys of their own.               *)
Update(data, yaml) ==
    [c \in DOMAIN data \cup DOMAIN yaml |-> IF c \in DOMAIN yaml THEN yaml[c] ELSE data[c]]

(* One file after the other.                                               *)
Merged(order) ==
    LET data[i \in 0..Len(order)] ==
            IF i = 0 THEN [c \in {} |-> NoRows]
            ELSE Update(data[i - 1], [c \in {order[i]} |-> measured[c]])
    IN  data[Len(order)]

(* load_data and merge, the files as os.listdir finds them.                *)
Merge ==
    /\ stage = "uploaded" /\ files # {} /\ stage' = "loaded"
    /\ \E order \in SetToSeqs(files) : merged' = Merged(order)
    /\ UNCHANGED <<measured, files, written, served>>

(* get_report_template, Environment.render, write.                         *)
Write ==
    /\ stage = "loaded" /\ stage' = "reported" /\ written' = "report/markdown"
    /\ UNCHANGED <<measured, files, merged, served>>

(* An exception on the way, of a directory, a file or the template, is     *)
(* logged, and there is no report of any case.                             *)
ReportFails ==
    /\ stage \in {"uploaded", "loaded"} /\ files # {} /\ stage' = "failed"
    /\ UNCHANGED <<measured, files, merged, written, served>>

(* get_performance_md: the .md files of report, its directories left out.  *)
GetPerformanceMd ==
    /\ served' = IF written = "report" THEN "report" ELSE "empty"
    /\ UNCHANGED <<measured, files, stage, merged, written>>

Next ==
    \/ \E c \in Cases :
        \/ \E row \in 0..MaxRows - 1, ms \in (SUBSET Metrics) \ {{}} : AddResultData(c, row, ms)
        \/ GenerateYamlFile(c)
    \/ PostZip \/ NoFile \/ Merge \/ Write \/ ReportFails \/ GetPerformanceMd

Spec == Init /\ [][Next]_vars

-----------------------------------------------------------------------------
(* What the template sees: data.<case>.<metric>[row].                      *)

Digits(k) == IF k < 10 THEN <<k>> ELSE <<k \div 10, k % 10>>

(* The order of the numbers as strings.                                    *)
AsStrings(j, k) ==
    LET a == Digits(j)
        b == Digits(k)
    IN  a[1] < b[1] \/ (a[1] = b[1] /\ (Len(a) < Len(b) \/ (Len(a) = Len(b) /\ a[Len(a)] < b[Len(b)])))

(* The rows as a sequence; before holds the pairs that are in order.       *)
InOrder(rows, before) ==
    [i \in 1..Cardinality(rows) |->
        CHOOSE k \in rows : Cardinality({j \in rows : <<j, k>> \in before}) = i - 1]

(* Mutant of Keys: the other way round.                                    *)
KeysReversed(rows) == InOrder(rows, {p \in rows \X rows : p[1] > p[2]})

(* The keys of a dictionary in the order of the file: yaml.dump sorts them.*)
Keys(rows) == InOrder(rows, {p \in rows \X rows : AsStrings(p[1], p[2])})

(* A measure is known by its row.                                          *)
Measure(k) == <<k>>
Blank == <<>>

(* Dict2Obj, one numbered key: put in its place, or at the end.  The blanks*)
(* that are to fill a gap are len - k of them, so none.                    *)
Place(values, k) ==
    IF k < Len(values) THEN [values EXCEPT ![k + 1] = Measure(k)]
    ELSE Append(values, Measure(k))

Dict2Obj(rows) ==
    LET keys == Keys(rows)
        values[i \in 0..Len(keys)] == IF i = 0 THEN <<>> ELSE Place(values[i - 1], keys[i])
    IN  values[Len(keys)]

(* __getitem__: "" beyond the end.                                         *)
Item(values, k) == IF k < Len(values) THEN values[k + 1] ELSE Blank

-----------------------------------------------------------------------------
TypeOK ==
    /\ measured \in [Cases -> [Metrics -> SUBSET (0..MaxRows - 1)]]
    /\ files \subseteq Cases /\ DOMAIN merged \subseteq Cases
    /\ stage \in {"testing", "uploaded", "loaded", "reported", "failed"}

(* A report that is made has every case whose measures were uploaded, in   *)
(* whichever order their files are read and merged: all of them or none.   *)
NoCaseLost == stage = "reported" => DOMAIN merged = files

(* Each row of the report shows the measures of this row, though the keys  *)
(* were sorted as strings on the way.                                      *)
RowsAreMeasured ==
    stage = "loaded" =>
        \A c \in DOMAIN merged : \A m \in Metrics : \A k \in 0..MaxRows - 1 :
            Item(Dict2Obj(merged[c][m]), k) = IF k \in merged[c][m] THEN Measure(k) ELSE Blank
=============================================================================
