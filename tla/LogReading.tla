----------------------------- MODULE LogReading -----------------------------
(***************************************************************************)
(* A client that follows the log of a case through GET /result/log         *)
(* (get_log, result.py): each request asks for the lines after those it    *)
(* has.  get_log reads the copy that LogForward builds, or, as long as     *)
(* there is none, the log that came with the results.  One more name may   *)
(* be in Perturbations:                                                    *)
(*   earlyzip  the results arrive before the thread that posts has ended   *)
(***************************************************************************)
EXTENDS LogForward, SequencesExt

CONSTANTS
    PageSize,       \* line_size of the requests; 0 asks for everything
    ArchiveLines    \* number of lines of log/runner.log in the result archive

ASSUME PagesAssumption == PageSize \in Nat /\ ArchiveLines \in Nat

VARIABLES
    archived,   \* the results have been uploaded and unpacked
    got         \* the lines the client has been given

readVars == <<archived, got>>
vars == <<forwardVars, readVars>>

Init == ForwardInit /\ archived = FALSE /\ got = <<>>

(* push_results follows lc.stop() and does not wait for the thread.        *)
PostZip ==
    /\ stopped /\ ~archived /\ archived' = TRUE
    /\ pc \in {"ended", "dead"} \/ May("earlyzip")
    /\ UNCHANGED <<forwardVars, got>>

(* Every other piece ends a line.                                          *)
Newlines(s) == {i \in DOMAIN s : s[i] % 2 = 0}

UpTo(ends, i) == {j \in ends : j <= i}

(* Where the kth line ends.                                                *)
LineEnd(s, k) == CHOOSE i \in Newlines(s) : Cardinality(UpTo(Newlines(s), i)) = k

LineStart(s, k) == IF k = 1 THEN 1 ELSE LineEnd(s, k - 1) + 1

Split(s) ==
    [k \in 1..Cardinality(Newlines(s)) |-> SubSeq(s, LineStart(s, k), LineEnd(s, k))]

(* Mutant of LinesOf: a last line without newline counts as a line.        *)
LinesWithRest(s) ==
    LET rest == SubSeq(s, Max(Newlines(s) \cup {0}) + 1, Len(s))
    IN  IF rest = <<>> THEN Split(s) ELSE Append(Split(s), rest)

(* split("\n")[:-1]: what follows the last newline is left out.            *)
LinesOf(s) == Split(s)

Archive == [k \in 1..ArchiveLines |-> <<"archive", k>>]

(* os.path.exists: also a copy that nothing could be written to.           *)
LogFile == IF exists THEN LinesOf(stored) ELSE IF archived THEN Archive ELSE <<>>

(* Mutant of Sed: size ends the page, also where it is before the index.   *)
SedToSize(lines, index, size) ==
    SubSeq(lines, index, IF size < 1 THEN Len(lines) ELSE Min({size, Len(lines)}))

(* sed -n 'index,sizep': the second address is a line number too, and one  *)
(* that is not beyond the first selects the first line only.               *)
Sed(lines, index, size) ==
    SubSeq(lines, index,
           IF size < 1 THEN Len(lines) ELSE Min({Max({index, size}), Len(lines)}))

(* The line that a place of the copy is in.                                *)
LineAt(i) == Cardinality(UpTo(Newlines(stored), i)) + 1

(* The page has a part of a character: decode raises, the answer is 500.   *)
Undecodable(index, size) ==
    /\ exists
    /\ \E i \in broken : LineAt(i) >= index /\ (size < 1 \/ LineAt(i) <= Max({index, size}))

(* The client asks for what follows, and after a 500 for the same again.   *)
GetLog ==
    LET index == Len(got) + 1
    IN  /\ got' = IF Undecodable(index, PageSize) THEN got
                  ELSE got \o Sed(LogFile, index, PageSize)
        /\ UNCHANGED <<forwardVars, archived>>

Next == PostZip \/ GetLog \/ (ForwardNext /\ UNCHANGED readVars)

Spec == Init /\ [][Next]_vars

(* The thread runs, the test ends, the client asks until it is answered:   *)
(* sed and wc do not fail for ever.                                        *)
FairSpec ==
    /\ Spec
    /\ WF_vars(LogClient /\ UNCHANGED readVars) /\ WF_vars(Stop /\ UNCHANGED readVars)
    /\ WF_vars(GetLog)

-----------------------------------------------------------------------------
TypeOK ==
    /\ ForwardTypeOK
    /\ archived \in BOOLEAN
    /\ got \in Seq(Seq(1..written) \cup {Archive[k] : k \in 1..ArchiveLines})

(* A client that asks on from where it is sees the lines of the log, each  *)
(* as it is and once, though it reads while they are being appended, and   *)
(* sometimes cut in the middle.                                            *)
ReadsTheLog == IsPrefix(got, LogFile)

(* It comes to the end of whatever the controller has of the log, or to a  *)
(* page that a failed append has made unreadable.                          *)
ReadsItAll == <>[](got = LogFile \/ Undecodable(Len(got) + 1, PageSize))
=============================================================================
