------------------------------ MODULE Approval ------------------------------
(***************************************************************************)
(* Questions to the user (packages/interaction/user-approval/src/index.ts). *)
(* A tool call asks, the answerers of its question are raced against the    *)
(* call's signal, and the outcome is logged before the caller has it.  An   *)
(* answerer keeps working on a question nobody waits for any more.          *)
(*                                                                         *)
(* Questions are numbered in the order they are asked, which stands for     *)
(* their random ids.                                                       *)
(***************************************************************************)
EXTENDS Integers

CONSTANTS
  Askers,       \* tool calls that ask
  MaxQuestions  \* bound: questions asked

VARIABLES
  policy,     \* the session's approval policy: "ask" or "never"
  asked,      \* questions asked so far
  question,   \* of each call: its question's number, 0 when it asks none
  outcome,    \* of each call: "none", or what its question has come to
  thinking,   \* questions whose answerers have not answered
  consents    \* history: questions the user allowed while they were waited for

approvalVars == <<policy, asked, question, outcome, thinking, consents>>

ApprovalInit ==
  /\ policy \in {"ask", "never"} /\ asked = 0
  /\ question = [c \in Askers |-> 0] /\ outcome = [c \in Askers |-> "none"]
  /\ thinking = {} /\ consents = {}

\* setPolicy()
SetPolicy ==
  /\ policy' \in {"ask", "never"} \ {policy}
  /\ UNCHANGED <<asked, question, outcome, thinking, consents>>

\* request() and the decisions that need no answerer.
Ask(c, signalled) ==
  /\ asked < MaxQuestions /\ question[c] = 0
  /\ asked' = asked + 1 /\ question' = [question EXCEPT ![c] = asked + 1]
  /\ outcome' = [outcome EXCEPT ![c] = IF signalled THEN "cancelled"
                                       ELSE IF policy = "never" THEN "rejected" ELSE "none"]
  /\ thinking' = IF outcome'[c] = "none" THEN thinking \cup {asked + 1} ELSE thinking
  /\ UNCHANGED <<policy, consents>>

\* An answerer that throws or answers something else comes to "unavailable".
Answers == {"allowed-once", "rejected", "cancelled", "unavailable"}

AwaitsAny(c, q) ==  \* mutant: the answer goes to whichever question waits
  question[c] # 0 /\ outcome[c] = "none"

\* The first of the answer and the abort settles the question.
Awaits(c, q) == question[c] = q /\ outcome[c] = "none"

Answer(q) ==
  /\ q \in thinking /\ thinking' = thinking \ {q}
  /\ \E a \in Answers :
       /\ outcome' = [c \in Askers |-> IF Awaits(c, q) THEN a ELSE outcome[c]]
       /\ consents' = IF a = "allowed-once" /\ \E c \in Askers : question[c] = q /\ outcome[c] = "none"
                      THEN consents \cup {q} ELSE consents
  /\ UNCHANGED <<policy, asked, question>>

\* What the abort of the signals of cs does to their questions.
Withdrawn(cs) ==
  [c \in Askers |-> IF c \in cs /\ question[c] # 0 /\ outcome[c] = "none" THEN "cancelled" ELSE outcome[c]]

\* The outcome is logged and returned.
Decided(c) ==
  /\ outcome[c] # "none"
  /\ question' = [question EXCEPT ![c] = 0] /\ outcome' = [outcome EXCEPT ![c] = "none"]
  /\ UNCHANGED <<policy, asked, thinking, consents>>

=============================================================================
