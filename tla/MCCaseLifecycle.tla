-------------------------- MODULE MCCaseLifecycle --------------------------
(***************************************************************************)
(* The instances of CaseLifecycle that TLC checks: which perturbations     *)
(* each run considers, and with which commands.                            *)
(***************************************************************************)
EXTENDS CaseLifecycle

(* One thread at a time writes a record, and every write arrives.          *)
OneWriter == AllPerturbations \ {"expire", "starved", "dbfail", "startrace", "earlystep"}

(* The pod can be uninstalled, and the manager lives to do it.             *)
Uninstallable == AllPerturbations \ {"io", "helm", "restart", "startrace", "dbfail", "starved",
                                   "upload"}

(* The tests may be faster than the process that starts them.              *)
EarlyStep == {"earlystep"}

Everyone == AllCommands

PauseAndResume == {"pause", "resume"}

PauseAndCancel == {"pause", "cancel"}
=============================================================================
