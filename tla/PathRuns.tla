------------------------------- MODULE PathRuns -------------------------------
(***************************************************************************)
(* What a caller of PipelineOrchestrator.run over several ASM paths is     *)
(* promised, whatever threads do the work: every path of the call comes to *)
(* an outcome of its own, the call is answered after the last of them, and *)
(* the answer is one result per path, in the order of the paths, or an     *)
(* error when some path failed.  WalkPipeline is the program.              *)
(***************************************************************************)
EXTENDS Naturals

CONSTANTS
  Run,      \* the calls
  Path,     \* the paths a call can be about
  None      \* no result

VARIABLES
  outcome,  \* of each path of each call
  answer    \* of each call

Outcome == {"none", "open", "ok", "failed", "lost"}
Pending == [kind |-> "pending", results |-> [p \in Path |-> None]]
Without(kind) == [kind |-> kind, results |-> [p \in Path |-> None]]

PromiseInit ==
  /\ outcome = [r \in Run |-> [p \in Path |-> "none"]]
  /\ answer = [r \in Run |-> Pending]

Has(r, value) == \E p \in Path : outcome[r][p] = value

\* run() was called for some paths.
Ask(r) ==
  /\ answer[r] = Pending /\ \A p \in Path : outcome[r][p] = "none"
  /\ \E asked \in (SUBSET Path) \ {{}} :
       outcome' = [outcome EXCEPT ![r] = [p \in Path |-> IF p \in asked THEN "open" ELSE "none"]]
  /\ UNCHANGED answer

\* A path was processed, or failed, once.
Settle(r, p) ==
  /\ outcome[r][p] = "open" /\ answer[r] = Pending
  /\ \E how \in {"ok", "failed"} : outcome' = [outcome EXCEPT ![r][p] = how]
  /\ UNCHANGED answer

\* run() returns: nothing is open and nothing failed, and each result is at its path's place.
Return(r) ==
  /\ answer[r] = Pending /\ Has(r, "ok") /\ ~Has(r, "open") /\ ~Has(r, "failed")
  /\ answer' = [answer EXCEPT ![r] =
       [kind |-> "returned", results |-> [p \in Path |-> IF outcome[r][p] = "ok" THEN p ELSE None]]]
  /\ UNCHANGED outcome

\* run() raises: nothing is open and something failed.
Raise(r) ==
  /\ answer[r] = Pending /\ Has(r, "failed") /\ ~Has(r, "open")
  /\ answer' = [answer EXCEPT ![r] = Without("raised")]
  /\ UNCHANGED outcome

\* The process of the caller dies.
Die(r) ==
  /\ answer[r] = Pending
  /\ answer' = [answer EXCEPT ![r] = Without("killed")]
  /\ outcome' = [outcome EXCEPT ![r] = [p \in Path |-> IF @[p] = "open" THEN "lost" ELSE @[p]]]

PromiseNext == \E r \in Run : Ask(r) \/ Return(r) \/ Raise(r) \/ Die(r) \/ \E p \in Path : Settle(r, p)

PromiseSpec == PromiseInit /\ [][PromiseNext]_<<outcome, answer>>
===============================================================================
