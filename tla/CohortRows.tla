----------------------------- MODULE CohortRows -----------------------------
(***************************************************************************)
(* The rows of recruitment: cohorts with questions of their own, the       *)
(* applications to them and their reviews, and what is asked of them.      *)
(* CohortSteps takes each handler for one step, Cohorts takes it statement *)
(* by statement.                                                           *)
(*                                                                         *)
(* Of a list of questions only matters which there are and which of them   *)
(* have to be answered, of an application which are answered; names, texts *)
(* and choices are data.                                                   *)
(***************************************************************************)

CONSTANTS
    Users,
    Cohorts,    \* ids there are for cohorts (a bound)
    Questions   \* ids there are for questions (a bound)

VARIABLES
    cohort,       \* [Cohorts -> cohort.status, or "NONE" before, "DELETED" after]
    questions,    \* [Cohorts -> what is asked: [Questions -> ...]]
    application,  \* [Cohorts \X Users -> cohort_application.status, or "NONE"]
    answers,      \* [Cohorts \X Users -> the questions that are answered]
    reviewed,     \* applications with a reviewer, a note and a date
    withdrawn     \* users that have left

cohortVars == <<cohort, questions>>
applicationVars == <<application, answers, reviewed>>
rowVars == <<cohortVars, applicationVars, withdrawn>>

CohortStatus == {"NONE", "DRAFT", "OPEN", "CLOSED", "DELETED"}
ReviewDecisions == {"ACCEPTED", "REJECTED"}
ApplicationStatus == {"NONE", "SUBMITTED", "WITHDRAWN"} \union ReviewDecisions

Lists == [Questions -> {"ABSENT", "OPTIONAL", "REQUIRED"}]

(* No cohort yet.                                                          *)
NoCohorts ==
    /\ cohort = [c \in Cohorts |-> "NONE"]
    /\ questions = [c \in Cohorts |-> [q \in Questions |-> "ABSENT"]]
    /\ application = [a \in Cohorts \X Users |-> "NONE"]
    /\ answers = [a \in Cohorts \X Users |-> {}]
    /\ reviewed = {}
    /\ withdrawn = {}

Exists(c) == cohort[c] \notin {"NONE", "DELETED"}

HasApplications(c) == \E u \in Users : application[<<c, u>>] # "NONE"

OtherOpen(c) == \E d \in Cohorts \ {c} : cohort[d] = "OPEN"

(* validateAnswers: every answer is to a question there is, and no         *)
(* question that needs one is left out.                                    *)
Fits(given, list) ==
    \A q \in Questions : /\ q \in given => list[q] # "ABSENT"
                         /\ list[q] = "REQUIRED" => q \in given

=============================================================================
