---------------------------- MODULE MCLogReading ----------------------------
(***************************************************************************)
(* An instance of LogReading for TLC: six pieces are three lines, each of  *)
(* which can be read, refused or cut in the middle.                        *)
(***************************************************************************)
EXTENDS LogReading

(* The copy may be wrong, and the thread may die; the test is the only one *)
(* that writes the log.                                                    *)
Failures == {"disk", "wide", "net", "file"}
=============================================================================
