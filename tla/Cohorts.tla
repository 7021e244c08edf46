------------------------------- MODULE Cohorts -------------------------------
(***************************************************************************)
(* Recruitment: cohorts with questions of their own, the applications to   *)
(* them, and their reviews (cohort-admin.service.ts,                       *)
(* cohort-applications.service.ts, cohort-application-admin.service.ts,    *)
(* cohort-withdrawal.ts, cohort-questions.ts).                             *)
(*                                                                         *)
(* Every handler is one transaction under READ COMMITTED.  An action runs  *)
(* from one statement that may have to wait for a row or for an entry of a *)
(* unique index to the next, and writes appear when the transaction        *)
(* commits: a handler that waits only once is one action.                  *)
(*                                                                         *)
(* Outside its window an open cohort refuses applications and edits, and   *)
(* any call may be refused for its input: a refusal changes nothing and is *)
(* Abort.  An id that is given to a new question may be any that is not in *)
(* the list.                                                               *)
(***************************************************************************)
EXTENDS CohortRows

CONSTANT Requests  \* transactions there may be at a time (a bound)

VARIABLE tx  \* [Requests -> what a transaction is doing]

vars == <<cohortVars, applicationVars, withdrawn, tx>>

(* What a transaction holds when it has reached a place: the row of its    *)
(* cohort, FOR SHARE or FOR UPDATE, that of its user, that of its          *)
(* application.                                                            *)
MutCohortShared == {"applicant", "row", "insert"}   \* an edit locks the application only
CohortShared == {"applicant", "row", "insert", "edited"}
CohortUpdated == {"open"}
MutUserShared == {}             \* apply reads the user and does not lock him
UserShared == {"row", "insert"}
UserUpdated == {"close"}
MutRowUpdated == {"form", "edited"}     \* withdraw reads the status and does not lock
RowUpdated == {"form", "edited", "leave"}

Idle == [at |-> "idle"]
Applying == [at : {"applicant", "row", "insert", "form", "edited", "leave"},
             cohort : Cohorts, user : Users, answers : SUBSET Questions]
Opening == [at : {"open"}, cohort : Cohorts]
Closing == [at : {"close"}, user : Users, need : SUBSET Cohorts, held : SUBSET Cohorts]

TypeOK ==
    /\ cohort \in [Cohorts -> CohortStatus]
    /\ questions \in [Cohorts -> Lists]
    /\ application \in [Cohorts \X Users -> ApplicationStatus]
    /\ answers \in [Cohorts \X Users -> SUBSET Questions]
    /\ reviewed \subseteq Cohorts \X Users
    /\ withdrawn \subseteq Users
    /\ tx \in [Requests -> Applying \union Opening \union Closing \union {Idle}]

Init == NoCohorts /\ tx = [r \in Requests |-> Idle]

-----------------------------------------------------------------------------
(* Locks *)

At(r, place) == tx[r].at = place

(* FOR SHARE and FOR UPDATE of a cohort.                                   *)
ShareCohort(r, c) == \A q \in Requests \ {r} : tx[q].at \in CohortUpdated => tx[q].cohort # c
UpdateCohort(r, c) ==
    \A q \in Requests \ {r} : tx[q].at \in CohortShared \union CohortUpdated => tx[q].cohort # c

(* FOR SHARE of a user, or the foreign key of a row that names him.        *)
ShareUser(r, u) == \A q \in Requests \ {r} : tx[q].at \in UserUpdated => tx[q].user # u
UpdateUser(r, u) ==
    \A q \in Requests \ {r} : tx[q].at \in UserShared \union UserUpdated => tx[q].user # u

Free(r, c, u) ==
    \A q \in Requests \ {r} :
        /\ tx[q].at \in RowUpdated => tx[q].cohort # c \/ tx[q].user # u
        /\ At(q, "close") => tx[q].user # u \/ c \notin tx[q].held

Start(r, what) == At(r, "idle") /\ tx' = [tx EXCEPT ![r] = what]
GoTo(r, place) == tx' = [tx EXCEPT ![r].at = place]
End(r) == tx' = [tx EXCEPT ![r] = Idle]

-----------------------------------------------------------------------------
(* CohortAdminService *)

Create(c) ==
    /\ cohort[c] = "NONE"
    /\ cohort' = [cohort EXCEPT ![c] = "DRAFT"]
    /\ \E list \in Lists : questions' = [questions EXCEPT ![c] = list]
    /\ UNCHANGED <<applicationVars, withdrawn, tx>>

PutQuestions(r, c, list) ==
    /\ At(r, "idle")
    /\ Exists(c)
    /\ UpdateCohort(r, c)
    /\ questions' = [questions EXCEPT ![c] = list]
    /\ UNCHANGED <<cohort, applicationVars, withdrawn, tx>>

MutRemove(r, c) ==              \* looks at the applications only
    /\ At(r, "idle")
    /\ Exists(c)
    /\ ~HasApplications(c)
    /\ cohort' = [cohort EXCEPT ![c] = "DELETED"]
    /\ UNCHANGED <<questions, applicationVars, withdrawn, tx>>
Remove(r, c) ==
    /\ At(r, "idle")
    /\ Exists(c)
    /\ UpdateCohort(r, c)
    /\ ~HasApplications(c)
    /\ cohort' = [cohort EXCEPT ![c] = "DELETED"]
    /\ UNCHANGED <<questions, applicationVars, withdrawn, tx>>

(* OPEN -> CLOSED; DRAFT -> OPEN and CLOSED -> OPEN have to pass the index *)
(* after the check.                                                        *)
Close(r, c) ==
    /\ At(r, "idle")
    /\ cohort[c] = "OPEN"
    /\ UpdateCohort(r, c)
    /\ cohort' = [cohort EXCEPT ![c] = "CLOSED"]
    /\ UNCHANGED <<questions, applicationVars, withdrawn, tx>>

OpenBegins(r, c) ==
    /\ cohort[c] \in {"DRAFT", "CLOSED"}
    /\ UpdateCohort(r, c)
    /\ ~OtherOpen(c)
    /\ Start(r, [at |-> "open", cohort |-> c])
    /\ UNCHANGED <<cohortVars, applicationVars, withdrawn>>

(* uq_cohort_single_open *)
MutOpened(r) ==                 \* relies on the check before
    /\ At(r, "open")
    /\ cohort' = [cohort EXCEPT ![tx[r].cohort] = "OPEN"]
    /\ End(r)
    /\ UNCHANGED <<questions, applicationVars, withdrawn>>
Opened(r) ==
    /\ At(r, "open")
    /\ cohort' = IF OtherOpen(tx[r].cohort) THEN cohort
                 ELSE [cohort EXCEPT ![tx[r].cohort] = "OPEN"]
    /\ End(r)
    /\ UNCHANGED <<questions, applicationVars, withdrawn>>

-----------------------------------------------------------------------------
(* CohortApplicationsService *)

(* apply: the cohort, then the user, then the application.                 *)
ApplyBegins(r, c, u, given) ==
    /\ cohort[c] \in {"OPEN", "CLOSED"}
    /\ ShareCohort(r, c)
    /\ Start(r, [at |-> "applicant", cohort |-> c, user |-> u, answers |-> given])
    /\ UNCHANGED <<cohortVars, applicationVars, withdrawn>>

Onboarded(r) ==
    /\ At(r, "applicant")
    /\ ShareUser(r, tx[r].user)
    /\ IF /\ tx[r].user \notin withdrawn
          /\ cohort[tx[r].cohort] = "OPEN"
          /\ Fits(tx[r].answers, questions[tx[r].cohort])
       THEN GoTo(r, "row")
       ELSE End(r)
    /\ UNCHANGED <<cohortVars, applicationVars, withdrawn>>

Key(r) == <<tx[r].cohort, tx[r].user>>

NoneYet(r) ==
    /\ At(r, "row")
    /\ application[Key(r)] = "NONE"
    /\ GoTo(r, "insert")
    /\ UNCHANGED <<cohortVars, applicationVars, withdrawn>>

Submits(r) ==
    /\ application' = [application EXCEPT ![Key(r)] = "SUBMITTED"]
    /\ answers' = [answers EXCEPT ![Key(r)] = tx[r].answers]

(* Only a withdrawn application is opened again, as if it were new.        *)
Reapply(r) ==
    /\ At(r, "row")
    /\ application[Key(r)] # "NONE"
    /\ Free(r, tx[r].cohort, tx[r].user)
    /\ IF application[Key(r)] = "WITHDRAWN"
       THEN Submits(r) /\ reviewed' = reviewed \ {Key(r)}
       ELSE UNCHANGED applicationVars
    /\ End(r)
    /\ UNCHANGED <<cohortVars, withdrawn>>

(* uq_cohort_application_user: another request of the user may have been   *)
(* faster.                                                                 *)
Insert(r) ==
    /\ At(r, "insert")
    /\ IF application[Key(r)] = "NONE" THEN Submits(r) ELSE UNCHANGED <<application, answers>>
    /\ End(r)
    /\ UNCHANGED <<cohortVars, reviewed, withdrawn>>

(* update: FOR UPDATE OF a FOR SHARE OF c, then the foreign key of audit.  *)
EditBegins(r, c, u, given) ==
    /\ application[<<c, u>>] # "NONE"
    /\ Free(r, c, u)
    /\ Start(r, [at |-> "form", cohort |-> c, user |-> u, answers |-> given])
    /\ UNCHANGED <<cohortVars, applicationVars, withdrawn>>

EditChecks(r) ==
    /\ At(r, "form")
    /\ ShareCohort(r, tx[r].cohort)
    /\ IF /\ application[Key(r)] = "SUBMITTED"
          /\ cohort[tx[r].cohort] = "OPEN"
          /\ Fits(tx[r].answers, questions[tx[r].cohort])
       THEN GoTo(r, "edited")
       ELSE End(r)
    /\ UNCHANGED <<cohortVars, applicationVars, withdrawn>>

Edited(r) ==
    /\ At(r, "edited")
    /\ ShareUser(r, tx[r].user)
    /\ answers' = [answers EXCEPT ![Key(r)] = tx[r].answers]
    /\ End(r)
    /\ UNCHANGED <<cohortVars, application, reviewed, withdrawn>>

(* withdraw: the application alone, also when the cohort is closed.        *)
LeaveBegins(r, c, u) ==
    /\ application[<<c, u>>] = "SUBMITTED"
    /\ Free(r, c, u)
    /\ Start(r, [at |-> "leave", cohort |-> c, user |-> u, answers |-> {}])
    /\ UNCHANGED <<cohortVars, applicationVars, withdrawn>>

Left(r) ==
    /\ At(r, "leave")
    /\ ShareUser(r, tx[r].user)
    /\ application' = [application EXCEPT ![Key(r)] = "WITHDRAWN"]
    /\ End(r)
    /\ UNCHANGED <<cohortVars, answers, reviewed, withdrawn>>

-----------------------------------------------------------------------------
(* CohortApplicationAdminService.review *)

Review(r, c, u, decision) ==
    /\ At(r, "idle")
    /\ application[<<c, u>>] \notin {"NONE", "WITHDRAWN"}
    /\ Free(r, c, u)
    /\ application' = [application EXCEPT ![<<c, u>>] = decision]
    /\ reviewed' = reviewed \union {<<c, u>>}
    /\ UNCHANGED <<cohortVars, answers, withdrawn, tx>>

-----------------------------------------------------------------------------
(* AccountWithdrawalService.withdraw, as far as it meets applications *)

CloseBegins(r, u) ==
    /\ u \notin withdrawn
    /\ UpdateUser(r, u)
    /\ Start(r, [at |-> "close", user |-> u, held |-> {},
                 need |-> {c \in Cohorts : application[<<c, u>>] = "SUBMITTED"}])
    /\ UNCHANGED <<cohortVars, applicationVars, withdrawn>>

CloseLocks(r) ==
    /\ At(r, "close")
    /\ \E c \in tx[r].need \ tx[r].held :
         /\ Free(r, c, tx[r].user)
         /\ tx' = [tx EXCEPT ![r].held = @ \union {c}]
    /\ UNCHANGED <<cohortVars, applicationVars, withdrawn>>

(* What was found is looked at again once it is locked.                    *)
MutLeaves(r, a) == a[2] = tx[r].user /\ a[1] \in tx[r].need
Leaves(r, a) == a[2] = tx[r].user /\ a[1] \in tx[r].need /\ application[a] = "SUBMITTED"

AccountClosed(r) ==
    /\ At(r, "close")
    /\ tx[r].need \subseteq tx[r].held
    /\ application' = [a \in Cohorts \X Users |->
                           IF Leaves(r, a) THEN "WITHDRAWN" ELSE application[a]]
    /\ withdrawn' = withdrawn \union {tx[r].user}
    /\ End(r)
    /\ UNCHANGED <<cohortVars, answers, reviewed>>

(* A refusal, a lost connection, a timeout, a deadlock that is broken.     *)
Abort(r) ==
    /\ ~At(r, "idle")
    /\ End(r)
    /\ UNCHANGED <<cohortVars, applicationVars, withdrawn>>

-----------------------------------------------------------------------------

Operator(r, c) ==
    \/ \E list \in Lists : PutQuestions(r, c, list)
    \/ Remove(r, c) \/ Close(r, c) \/ OpenBegins(r, c)
    \/ \E u \in Users, decision \in ReviewDecisions : Review(r, c, u, decision)

Applicant(r, c, u) ==
    \/ \E given \in SUBSET Questions : ApplyBegins(r, c, u, given) \/ EditBegins(r, c, u, given)
    \/ LeaveBegins(r, c, u)

Proceeds(r) ==
    \/ Onboarded(r) \/ NoneYet(r) \/ EditChecks(r) \/ CloseLocks(r) \/ Abort(r)

Commits(r) ==
    \/ Opened(r) \/ Reapply(r) \/ Insert(r) \/ Edited(r) \/ Left(r) \/ AccountClosed(r)

Next ==
    \/ \E c \in Cohorts : Create(c)
    \/ \E r \in Requests :
         \/ \E c \in Cohorts : Operator(r, c) \/ \E u \in Users : Applicant(r, c, u)
         \/ \E u \in Users : CloseBegins(r, u)
         \/ Proceeds(r) \/ Commits(r)

Spec == Init /\ [][Next]_vars

-----------------------------------------------------------------------------
(* Safety *)

(* There is one current cohort at most, also when two are opened at the    *)
(* same time and each finds no other open (cohort-admin.service.ts:157).   *)
SingleOpen == \A c, d \in Cohorts : cohort[c] = "OPEN" /\ cohort[d] = "OPEN" => c = d

(* A cohort that anyone has applied to, withdrawn or not, is published and *)
(* stays: its history is not deleted under an application on its way.      *)
HistoryIsKept ==
    \A c \in Cohorts, u \in Users :
        application[<<c, u>>] # "NONE" => cohort[c] \in {"OPEN", "CLOSED"}

(* An account that has left waits for no decision, whatever it had on its  *)
(* way when it left.                                                       *)
NobodyLeftWaits ==
    \A c \in Cohorts, u \in withdrawn : application[<<c, u>>] # "SUBMITTED"

(* A review is shown with the decision it gave and with nothing else: no   *)
(* overlap of reviews, withdrawals and new applications leaves the one     *)
(* without the other.                                                      *)
ReviewedMeansDecided ==
    \A c \in Cohorts, u \in Users :
        <<c, u>> \in reviewed <=> application[<<c, u>>] \in ReviewDecisions

(* A decision is changed by a reviewer only: a withdrawal that overlaps    *)
(* with it comes too late.                                                 *)
DecisionStands ==
    [][\A a \in Cohorts \X Users :
           application[a] \in ReviewDecisions => application'[a] \in ReviewDecisions]_vars

(* What is handed in, first, again or as an edit, answers the questions    *)
(* the cohort asks and reaches it while it is open, although both may      *)
(* change after they were read (cohort-applications.service.ts:50).        *)
HandedInFits ==
    [][\A a \in Cohorts \X Users :
           \/ application'[a] = "SUBMITTED" /\ application[a] # "SUBMITTED"
           \/ answers'[a] # answers[a]
           => cohort[a[1]] = "OPEN" /\ Fits(answers'[a], questions[a[1]])]_vars

-----------------------------------------------------------------------------
(* Seen from the rows, every transaction happens when it commits.          *)
Steps == INSTANCE CohortSteps

(* Whatever overlaps with a handler, the rows change as if it had run      *)
(* alone at the moment it commits.                                         *)
ActsAtCommit == Steps!Spec

=============================================================================
