---------------------------- MODULE CohortSteps ----------------------------
(***************************************************************************)
(* Recruitment as it is meant: every handler reads, decides and writes at  *)
(* once, and there is nothing to lock.                                     *)
(***************************************************************************)
EXTENDS CohortRows

Create(c) ==
    /\ cohort[c] = "NONE"
    /\ cohort' = [cohort EXCEPT ![c] = "DRAFT"]
    /\ \E list \in Lists : questions' = [questions EXCEPT ![c] = list]
    /\ UNCHANGED <<applicationVars, withdrawn>>

PutQuestions(c, list) ==
    /\ Exists(c)
    /\ questions' = [questions EXCEPT ![c] = list]
    /\ UNCHANGED <<cohort, applicationVars, withdrawn>>

Remove(c) ==
    /\ Exists(c) /\ ~HasApplications(c)
    /\ cohort' = [cohort EXCEPT ![c] = "DELETED"]
    /\ UNCHANGED <<questions, applicationVars, withdrawn>>

Open(c) ==
    /\ cohort[c] \in {"DRAFT", "CLOSED"} /\ ~OtherOpen(c)
    /\ cohort' = [cohort EXCEPT ![c] = "OPEN"]
    /\ UNCHANGED <<questions, applicationVars, withdrawn>>

Close(c) ==
    /\ cohort[c] = "OPEN"
    /\ cohort' = [cohort EXCEPT ![c] = "CLOSED"]
    /\ UNCHANGED <<questions, applicationVars, withdrawn>>

(* What the cohort asks for, while it asks.                                *)
Welcome(c, given) == cohort[c] = "OPEN" /\ Fits(given, questions[c])

(* The first application, or another after a withdrawal.                   *)
Apply(c, u, given) ==
    /\ u \notin withdrawn
    /\ Welcome(c, given)
    /\ application[<<c, u>>] \in {"NONE", "WITHDRAWN"}
    /\ application' = [application EXCEPT ![<<c, u>>] = "SUBMITTED"]
    /\ answers' = [answers EXCEPT ![<<c, u>>] = given]
    /\ reviewed' = reviewed \ {<<c, u>>}
    /\ UNCHANGED <<cohortVars, withdrawn>>

Edit(c, u, given) ==
    /\ u \notin withdrawn
    /\ Welcome(c, given)
    /\ application[<<c, u>>] = "SUBMITTED"
    /\ answers' = [answers EXCEPT ![<<c, u>>] = given]
    /\ UNCHANGED <<cohortVars, application, reviewed, withdrawn>>

Leave(c, u) ==
    /\ application[<<c, u>>] = "SUBMITTED"
    /\ application' = [application EXCEPT ![<<c, u>>] = "WITHDRAWN"]
    /\ UNCHANGED <<cohortVars, answers, reviewed, withdrawn>>

Review(c, u, decision) ==
    /\ application[<<c, u>>] \notin {"NONE", "WITHDRAWN"}
    /\ application' = [application EXCEPT ![<<c, u>>] = decision]
    /\ reviewed' = reviewed \union {<<c, u>>}
    /\ UNCHANGED <<cohortVars, answers, withdrawn>>

(* An account ends, and with it all that waits for a decision.             *)
CloseAccount(u) ==
    /\ u \notin withdrawn
    /\ application' = [a \in Cohorts \X Users |->
                           IF a[2] = u /\ application[a] = "SUBMITTED"
                           THEN "WITHDRAWN" ELSE application[a]]
    /\ withdrawn' = withdrawn \union {u}
    /\ UNCHANGED <<cohortVars, answers, reviewed>>

Next ==
    \/ \E c \in Cohorts :
         \/ Create(c) \/ Remove(c) \/ Open(c) \/ Close(c)
         \/ \E list \in Lists : PutQuestions(c, list)
    \/ \E c \in Cohorts, u \in Users :
         \/ \E given \in SUBSET Questions : Apply(c, u, given) \/ Edit(c, u, given)
         \/ Leave(c, u)
         \/ \E decision \in ReviewDecisions : Review(c, u, decision)
    \/ \E u \in Users : CloseAccount(u)

Spec == NoCohorts /\ [][Next]_rowVars

=============================================================================
