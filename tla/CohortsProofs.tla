---------------------------- MODULE CohortsProofs ----------------------------
(* Theorems about Cohorts, for any number of cohorts, users and            *)
(* transactions.                                                           *)
EXTENDS Cohorts, TLAPS

(* Places of a transaction that has to do with one application.            *)
Forms == {"applicant", "row", "insert", "form", "edited", "leave"}

(* The application that is handed in is one the cohort would take now.     *)
Fitting(r) ==
    cohort[tx[r].cohort] = "OPEN" /\ Fits(tx[r].answers, questions[tx[r].cohort])

(* What a transaction has checked stays true while it holds the rows.      *)
Mine(r) ==
    /\ At(r, "applicant") => cohort[tx[r].cohort] \in {"OPEN", "CLOSED"}
    /\ tx[r].at \in {"row", "insert"} => Fitting(r) /\ tx[r].user \notin withdrawn
    /\ At(r, "edited") => Fitting(r)
    /\ tx[r].at \in {"edited", "leave"} => application[Key(r)] = "SUBMITTED"
    /\ At(r, "open") => cohort[tx[r].cohort] \in {"DRAFT", "CLOSED"}
    /\ At(r, "close") => /\ tx[r].user \notin withdrawn
                         /\ \A c \in Cohorts : application[<<c, tx[r].user>>] = "SUBMITTED"
                                               => c \in tx[r].need

(* The rows that two transactions hold differ, or are shared by both.      *)
Apart(r, q) ==
    /\ tx[r].at \in CohortUpdated /\ tx[q].at \in CohortShared \union CohortUpdated
       => tx[r].cohort # tx[q].cohort
    /\ tx[r].at \in UserUpdated /\ tx[q].at \in UserShared \union UserUpdated
       => tx[r].user # tx[q].user
    /\ tx[r].at \in RowUpdated /\ tx[q].at \in RowUpdated => Key(r) # Key(q)
    /\ tx[r].at \in RowUpdated /\ At(q, "close")
       => tx[r].user # tx[q].user \/ tx[r].cohort \notin tx[q].held

DataInv == SingleOpen /\ HistoryIsKept /\ NobodyLeftWaits /\ ReviewedMeansDecided

Inv ==
    /\ TypeOK
    /\ DataInv
    /\ \A r \in Requests : Mine(r)
    /\ \A r, q \in Requests : r # q => Apart(r, q)

Unchanged == UNCHANGED <<cohortVars, applicationVars, withdrawn>>

-----------------------------------------------------------------------------
(* What kind of record a transaction is follows from its place.            *)

LEMMA AtForm ==
    ASSUME TypeOK, NEW r \in Requests, tx[r].at \in Forms
    PROVE  /\ tx[r] \in Applying
           /\ tx[r].cohort \in Cohorts /\ tx[r].user \in Users
           /\ tx[r].answers \in SUBSET Questions
           /\ Key(r) \in Cohorts \X Users
           /\ Key(r)[1] = tx[r].cohort /\ Key(r)[2] = tx[r].user
<1>1. tx[r] \in Applying
  BY DEF TypeOK, Forms, Opening, Closing, Idle
<1> QED BY <1>1 DEF Applying, Key

LEMMA AtOpen ==
    ASSUME TypeOK, NEW r \in Requests, At(r, "open")
    PROVE  tx[r] \in Opening /\ tx[r].cohort \in Cohorts
BY DEF TypeOK, At, Applying, Opening, Closing, Idle

LEMMA AtClose ==
    ASSUME TypeOK, NEW r \in Requests, At(r, "close")
    PROVE  /\ tx[r] \in Closing /\ tx[r].user \in Users
           /\ tx[r].need \in SUBSET Cohorts /\ tx[r].held \in SUBSET Cohorts
BY DEF TypeOK, At, Applying, Opening, Closing, Idle

-----------------------------------------------------------------------------
(* Steps that only go on to another statement *)

(* The data is the same: one has to look at the transaction that moves.    *)
LEMMA QuietStep ==
    ASSUME Inv, NEW r \in Requests,
           NEW t \in Applying \union Opening \union Closing \union {Idle},
           Unchanged, tx' = [tx EXCEPT ![r] = t], Mine(r)',
           \A q \in Requests \ {r} : Apart(r, q)' /\ Apart(q, r)'
    PROVE  Inv'
<1>1. tx'[r] = t /\ \A q \in Requests \ {r} : tx'[q] = tx[q]
  BY DEF Inv, TypeOK
<1>2. TypeOK' /\ DataInv'
  BY DEF Inv, TypeOK, Unchanged, cohortVars, applicationVars, DataInv, SingleOpen,
         HistoryIsKept, NobodyLeftWaits, ReviewedMeansDecided
<1>3. ASSUME NEW q \in Requests PROVE Mine(q)'
  BY <1>1 DEF Inv, Mine, At, Key, Fitting, Unchanged, cohortVars, applicationVars
<1>4. ASSUME NEW p \in Requests, NEW q \in Requests, p # q PROVE Apart(p, q)'
  BY <1>1, <1>4 DEF Inv, Apart, At, Key
<1> QED BY <1>2, <1>3, <1>4 DEF Inv

LEMMA EndsQuietly ==
    ASSUME Inv, NEW r \in Requests, Unchanged, End(r)
    PROVE  Inv'
<1>1. tx'[r] = Idle
  BY DEF Inv, TypeOK, End
<1>2. Mine(r)' /\ \A q \in Requests \ {r} : Apart(r, q)' /\ Apart(q, r)'
  BY <1>1 DEF Mine, Apart, At, Idle, CohortUpdated, CohortShared, UserUpdated, UserShared, RowUpdated
<1> QED BY <1>2, QuietStep DEF End

LEMMA StartStep ==
    ASSUME Inv, NEW r \in Requests, NEW c \in Cohorts, NEW u \in Users,
           NEW given \in SUBSET Questions,
           \/ ApplyBegins(r, c, u, given) \/ EditBegins(r, c, u, given)
           \/ LeaveBegins(r, c, u)
    PROVE  Inv'
<1> DEFINE form(place, what) == [at |-> place, cohort |-> c, user |-> u, answers |-> what]
<1> USE DEF Start, At, Key, Fitting, CohortUpdated, CohortShared, UserUpdated, UserShared, RowUpdated
<1>1. CASE ApplyBegins(r, c, u, given)
  <2>1. form("applicant", given) \in Applying
    BY DEF Applying
  <2>2. tx' = [tx EXCEPT ![r] = form("applicant", given)] /\ tx'[r] = form("applicant", given)
    BY <1>1 DEF ApplyBegins, Inv, TypeOK
  <2>3. Mine(r)'
    BY <1>1, <2>2 DEF ApplyBegins, Mine, cohortVars
  <2>4. ASSUME NEW q \in Requests \ {r} PROVE Apart(r, q)' /\ Apart(q, r)'
    BY <1>1, <2>2 DEF ApplyBegins, ShareCohort, Apart
  <2> QED BY <1>1, <2>1, <2>2, <2>3, <2>4, QuietStep DEF ApplyBegins, Unchanged
<1>2. CASE EditBegins(r, c, u, given)
  <2>1. form("form", given) \in Applying
    BY DEF Applying
  <2>2. tx' = [tx EXCEPT ![r] = form("form", given)] /\ tx'[r] = form("form", given)
    BY <1>2 DEF EditBegins, Inv, TypeOK
  <2>3. Mine(r)'
    BY <2>2 DEF Mine
  <2>4. ASSUME NEW q \in Requests \ {r} PROVE Apart(r, q)' /\ Apart(q, r)'
    BY <1>2, <2>2 DEF EditBegins, Free, Apart
  <2> QED BY <1>2, <2>1, <2>2, <2>3, <2>4, QuietStep DEF EditBegins, Unchanged
<1>3. CASE LeaveBegins(r, c, u)
  <2>1. form("leave", {}) \in Applying
    BY DEF Applying
  <2>2. tx' = [tx EXCEPT ![r] = form("leave", {})] /\ tx'[r] = form("leave", {})
    BY <1>3 DEF LeaveBegins, Inv, TypeOK
  <2>3. Mine(r)'
    BY <1>3, <2>2 DEF LeaveBegins, Mine, applicationVars
  <2>4. ASSUME NEW q \in Requests \ {r} PROVE Apart(r, q)' /\ Apart(q, r)'
    BY <1>3, <2>2 DEF LeaveBegins, Free, Apart
  <2> QED BY <1>3, <2>1, <2>2, <2>3, <2>4, QuietStep DEF LeaveBegins, Unchanged
<1> QED BY <1>1, <1>2, <1>3

LEMMA OpenBeginsStep ==
    ASSUME Inv, NEW r \in Requests, NEW c \in Cohorts, OpenBegins(r, c)
    PROVE  Inv'
<1> DEFINE open == [at |-> "open", cohort |-> c]
<1> USE DEF Start, At, Key, Fitting, CohortUpdated, CohortShared, UserUpdated, UserShared, RowUpdated
<1>1. open \in Opening
  BY DEF Opening
<1>2. tx' = [tx EXCEPT ![r] = open] /\ tx'[r] = open
  BY DEF OpenBegins, Inv, TypeOK
<1>3. Mine(r)'
  BY <1>2 DEF OpenBegins, Mine, cohortVars
<1>4. ASSUME NEW q \in Requests \ {r} PROVE Apart(r, q)' /\ Apart(q, r)'
  BY <1>2 DEF OpenBegins, UpdateCohort, Apart
<1> QED BY <1>1, <1>2, <1>3, <1>4, QuietStep DEF OpenBegins, Unchanged

LEMMA CloseBeginsStep ==
    ASSUME Inv, NEW r \in Requests, NEW u \in Users, CloseBegins(r, u)
    PROVE  Inv'
<1> DEFINE close == [at |-> "close", user |-> u, held |-> {},
                     need |-> {d \in Cohorts : application[<<d, u>>] = "SUBMITTED"}]
<1> USE DEF Start, At, Key, Fitting, CohortUpdated, CohortShared, UserUpdated, UserShared, RowUpdated
<1>1. close \in Closing
  BY DEF Closing
<1>2. tx' = [tx EXCEPT ![r] = close] /\ tx'[r] = close
  BY DEF CloseBegins, Inv, TypeOK
<1>3. Mine(r)'
  BY <1>2 DEF CloseBegins, Mine, applicationVars
<1>4. ASSUME NEW q \in Requests \ {r} PROVE Apart(r, q)' /\ Apart(q, r)'
  BY <1>2 DEF CloseBegins, UpdateUser, Apart
<1> QED BY <1>1, <1>2, <1>3, <1>4, QuietStep DEF CloseBegins, Unchanged

(* Going on to the next place as one is.                                   *)
LEMMA GoToStep ==
    ASSUME Inv, NEW r \in Requests, Onboarded(r) \/ NoneYet(r) \/ EditChecks(r), ~End(r)
    PROVE  Inv'
<1> USE DEF GoTo, At, Key, Fitting, CohortUpdated, CohortShared, UserUpdated, UserShared, RowUpdated
<1>1. Unchanged /\ tx[r].at \in Forms
  BY DEF Onboarded, NoneYet, EditChecks, Unchanged, Forms
<1>2. PICK place \in {"row", "insert", "edited"} : tx' = [tx EXCEPT ![r].at = place]
  BY DEF Onboarded, NoneYet, EditChecks
<1> DEFINE t == [tx[r] EXCEPT !.at = place]
<1>3. tx[r] \in Applying
  BY <1>1, AtForm DEF Inv
<1>4. /\ t \in Applying /\ t.at = place /\ t.cohort = tx[r].cohort
      /\ t.user = tx[r].user /\ t.answers = tx[r].answers
  BY <1>3 DEF Applying
<1>5. tx' = [tx EXCEPT ![r] = t] /\ tx'[r] = t
  BY <1>2 DEF Inv, TypeOK
<1> HIDE DEF t
<1>6. CASE Onboarded(r)
  <2>1. place = "row" /\ At(r, "applicant") /\ Fitting(r) /\ tx[r].user \notin withdrawn
        /\ ShareUser(r, tx[r].user)
    BY <1>2, <1>3, <1>4, <1>5, <1>6 DEF Onboarded, Inv, TypeOK, Applying
  <2>2. Mine(r)'
    BY <1>1, <1>4, <1>5, <2>1 DEF Mine, Unchanged, cohortVars
  <2>3. ASSUME NEW q \in Requests \ {r} PROVE Apart(r, q)' /\ Apart(q, r)'
    BY <1>4, <1>5, <2>1 DEF Inv, Apart, ShareUser
  <2> QED BY <1>1, <1>4, <1>5, <2>2, <2>3, QuietStep
<1>7. CASE NoneYet(r)
  <2>1. place = "insert" /\ At(r, "row")
    BY <1>2, <1>3, <1>4, <1>5, <1>7 DEF NoneYet, Inv, TypeOK, Applying
  <2>2. Mine(r)'
    BY <1>1, <1>4, <1>5, <2>1 DEF Inv, Mine, Unchanged, cohortVars
  <2>3. ASSUME NEW q \in Requests \ {r} PROVE Apart(r, q)' /\ Apart(q, r)'
    BY <1>4, <1>5, <2>1 DEF Inv, Apart
  <2> QED BY <1>1, <1>4, <1>5, <2>2, <2>3, QuietStep
<1>8. CASE EditChecks(r)
  <2>1. /\ place = "edited" /\ At(r, "form") /\ Fitting(r)
        /\ application[Key(r)] = "SUBMITTED" /\ ShareCohort(r, tx[r].cohort)
    BY <1>2, <1>3, <1>4, <1>5, <1>8 DEF EditChecks, Inv, TypeOK, Applying
  <2>2. Mine(r)'
    BY <1>1, <1>4, <1>5, <2>1 DEF Mine, Unchanged, cohortVars, applicationVars
  <2>3. ASSUME NEW q \in Requests \ {r} PROVE Apart(r, q)' /\ Apart(q, r)'
    BY <1>4, <1>5, <2>1 DEF Inv, Apart, ShareCohort
  <2> QED BY <1>1, <1>4, <1>5, <2>2, <2>3, QuietStep
<1> QED BY <1>6, <1>7, <1>8

LEMMA CloseLocksStep ==
    ASSUME Inv, NEW r \in Requests, CloseLocks(r)
    PROVE  Inv'
<1> USE DEF At, Key, CohortUpdated, CohortShared, UserUpdated, UserShared, RowUpdated
<1>1. At(r, "close") /\ Unchanged /\ tx[r] \in Closing
  BY AtClose DEF CloseLocks, Unchanged, Inv
<1>2. PICK c \in Cohorts : Free(r, c, tx[r].user) /\ tx' = [tx EXCEPT ![r].held = @ \union {c}]
  BY <1>1, AtClose DEF CloseLocks, Inv
<1> DEFINE t == [tx[r] EXCEPT !.held = @ \union {c}]
<1>3. /\ t \in Closing /\ t.at = "close" /\ t.user = tx[r].user
      /\ t.need = tx[r].need /\ t.held = tx[r].held \union {c}
  BY <1>1 DEF Closing
<1>4. tx' = [tx EXCEPT ![r] = t] /\ tx'[r] = t
  BY <1>2 DEF Inv, TypeOK
<1> HIDE DEF t
<1>5. Mine(r)'
  <2>1. Mine(r)
    BY DEF Inv
  <2> QED BY <1>1, <1>3, <1>4, <2>1 DEF Mine, Unchanged, applicationVars
<1>6. ASSUME NEW q \in Requests \ {r} PROVE Apart(r, q)' /\ Apart(q, r)'
  BY <1>1, <1>2, <1>3, <1>4 DEF Inv, Apart, Free
<1> QED BY <1>1, <1>3, <1>4, <1>5, <1>6, QuietStep

-----------------------------------------------------------------------------
(* Commits *)

(* What a commit leaves to a transaction that is under way.                *)
Spared(q) ==
    /\ tx[q].at \in CohortShared \union CohortUpdated
       => cohort'[tx[q].cohort] = cohort[tx[q].cohort]
    /\ tx[q].at \in {"row", "insert", "edited"}
       => questions'[tx[q].cohort] = questions[tx[q].cohort]
    /\ tx[q].at \in UserShared \union UserUpdated => tx[q].user \notin withdrawn'
    /\ tx[q].at \in {"edited", "leave"} => application'[Key(q)] = application[Key(q)]
    /\ At(q, "close") => \A c \in Cohorts :
                            application'[<<c, tx[q].user>>] = "SUBMITTED"
                            => application[<<c, tx[q].user>>] = "SUBMITTED"

(* A transaction ends, or there was but one statement.                     *)
Over(r) == End(r) \/ (At(r, "idle") /\ UNCHANGED tx)

LEMMA CommitStep ==
    ASSUME Inv, NEW r \in Requests, Over(r), TypeOK', DataInv',
           \A q \in Requests \ {r} : Spared(q)
    PROVE  Inv'
<1> USE DEF At, Key, Idle, CohortUpdated, CohortShared, UserUpdated, UserShared, RowUpdated
<1>1. At(r, "idle")' /\ \A q \in Requests \ {r} : tx'[q] = tx[q]
  BY DEF Inv, TypeOK, Over, End
<1>2. ASSUME NEW q \in Requests PROVE Mine(q)'
  <2>1. CASE q = r
    BY <1>1, <2>1 DEF Mine
  <2>2. CASE q # r
    <3>1. Mine(q) /\ Spared(q) /\ tx'[q] = tx[q]
      BY <1>1, <2>2 DEF Inv
    <3> QED BY <3>1 DEF Mine, Spared, Fitting
  <2> QED BY <2>1, <2>2
<1>3. ASSUME NEW p \in Requests, NEW q \in Requests, p # q PROVE Apart(p, q)'
  BY <1>1, <1>3 DEF Inv, Apart
<1> QED BY <1>2, <1>3 DEF Inv

(* The operator's: the cohort is locked against everybody else.            *)
LEMMA CohortStep ==
    ASSUME Inv, NEW r \in Requests, NEW c \in Cohorts, NEW list \in Lists,
           \/ PutQuestions(r, c, list) \/ Remove(r, c) \/ Close(r, c)
           \/ Opened(r) /\ c = tx[r].cohort
    PROVE  Inv'
<1> USE DEF At, CohortUpdated, CohortShared, UserUpdated, UserShared
<1>1. UNCHANGED <<applicationVars, withdrawn>> /\ Over(r)
  BY DEF PutQuestions, Remove, Close, Opened, Over
<1>2. \A d \in Cohorts \ {c} : cohort'[d] = cohort[d] /\ questions'[d] = questions[d]
  BY DEF PutQuestions, Remove, Close, Opened, Inv, TypeOK
<1>3. TypeOK'
  <2>1. cohort' \in [Cohorts -> CohortStatus]
    BY DEF PutQuestions, Remove, Close, Opened, Inv, TypeOK, CohortStatus
  <2>2. questions' \in [Cohorts -> Lists]
    BY DEF PutQuestions, Remove, Close, Opened, Inv, TypeOK
  <2>3. tx' \in [Requests -> Applying \union Opening \union Closing \union {Idle}]
    BY <1>1 DEF Over, End, Inv, TypeOK
  <2> QED BY <1>1, <2>1, <2>2, <2>3 DEF Inv, TypeOK, applicationVars
<1>4. DataInv'
  <2>1. SingleOpen'
    BY <1>2 DEF Inv, TypeOK, DataInv, SingleOpen, PutQuestions, Remove, Close, Opened, OtherOpen
  <2>2. HistoryIsKept'
    <3>1. \/ cohort'[c] = cohort[c]
          \/ cohort'[c] \in {"OPEN", "CLOSED"}
          \/ ~HasApplications(c)
      BY DEF Inv, TypeOK, PutQuestions, Remove, Close, Opened
    <3> QED BY <1>1, <1>2, <3>1 DEF Inv, DataInv, HistoryIsKept, HasApplications, applicationVars
  <2> QED BY <1>1, <2>1, <2>2
        DEF Inv, DataInv, NobodyLeftWaits, ReviewedMeansDecided, applicationVars
<1>5. ASSUME NEW q \in Requests \ {r} PROVE Spared(q)
  <2>1. Mine(q) /\ Apart(r, q)
    BY DEF Inv
  <2>2. tx[q].at \in CohortShared \union CohortUpdated => tx[q].cohort \in Cohorts \ {c}
    <3>1. tx[q].at \in CohortShared \union CohortUpdated => tx[q].cohort \in Cohorts
      BY AtForm, AtOpen DEF Inv, Forms
    <3>2. tx[q].at \in CohortShared \union CohortUpdated => tx[q].cohort # c
      BY <2>1 DEF PutQuestions, Remove, Close, Opened, UpdateCohort, Apart
    <3> QED BY <3>1, <3>2
  <2> QED BY <1>1, <1>2, <2>1, <2>2 DEF Spared, Mine, applicationVars
<1> QED BY <1>1, <1>3, <1>4, <1>5, CommitStep

(* A new cohort is nobody's yet.                                           *)
LEMMA CreateStep ==
    ASSUME Inv, NEW c \in Cohorts, Create(c)
    PROVE  Inv'
<1> USE DEF At, CohortUpdated, CohortShared, UserUpdated, UserShared
<1>1. UNCHANGED <<applicationVars, withdrawn, tx>> /\ cohort[c] = "NONE"
  BY DEF Create
<1>2. /\ cohort' = [cohort EXCEPT ![c] = "DRAFT"]
      /\ \E list \in Lists : questions' = [questions EXCEPT ![c] = list]
  BY DEF Create
<1>3. TypeOK'
  <2>1. cohort' \in [Cohorts -> CohortStatus] /\ questions' \in [Cohorts -> Lists]
    BY <1>2 DEF Inv, TypeOK, CohortStatus
  <2> QED BY <1>1, <2>1 DEF Inv, TypeOK, applicationVars
<1>4. DataInv'
  BY <1>1, <1>2 DEF Inv, TypeOK, DataInv, SingleOpen, HistoryIsKept, NobodyLeftWaits,
                    ReviewedMeansDecided, applicationVars
<1>5. ASSUME NEW q \in Requests PROVE Mine(q)'
  <2>1. Mine(q)
    BY DEF Inv
  <2>2. tx[q].at \in CohortShared \union CohortUpdated
        => tx[q].cohort \in Cohorts /\ cohort[tx[q].cohort] # "NONE"
    BY <2>1, AtForm, AtOpen DEF Inv, Forms, Mine, Fitting
  <2>3. tx[q].at \in CohortShared \union CohortUpdated
        => cohort'[tx[q].cohort] = cohort[tx[q].cohort]
           /\ questions'[tx[q].cohort] = questions[tx[q].cohort]
    BY <1>1, <1>2, <2>2 DEF Inv, TypeOK
  <2> QED BY <1>1, <2>1, <2>3 DEF Mine, Fitting, Key, applicationVars
<1>6. ASSUME NEW p \in Requests, NEW q \in Requests, p # q PROVE Apart(p, q)'
  BY <1>1, <1>6 DEF Inv, Apart, Key
<1> QED BY <1>3, <1>4, <1>5, <1>6 DEF Inv

(* One application: its row is locked, or the index keeps it single.       *)
Written(a, t) ==
    /\ application' = [application EXCEPT ![a] = t]
    /\ reviewed' = IF t \in ReviewDecisions THEN reviewed \union {a} ELSE reviewed \ {a}

LEMMA RowStep ==
    ASSUME Inv, NEW r \in Requests, NEW a \in Cohorts \X Users, NEW t \in ApplicationStatus,
           Over(r), UNCHANGED <<cohortVars, withdrawn>>, Written(a, t),
           answers' \in [Cohorts \X Users -> SUBSET Questions],
           t # "NONE", cohort[a[1]] \in {"OPEN", "CLOSED"},
           t = "SUBMITTED" => /\ a[2] \notin withdrawn
                              /\ \A q \in Requests \ {r} : At(q, "close") => tx[q].user # a[2],
           \A q \in Requests \ {r} : tx[q].at \in {"edited", "leave"} => Key(q) # a
    PROVE  Inv'
<1>1. TypeOK'
  <2>1. tx' \in [Requests -> Applying \union Opening \union Closing \union {Idle}]
    BY DEF Over, End, Inv, TypeOK
  <2> QED BY <2>1 DEF Inv, TypeOK, Written, cohortVars
<1>2. \A b \in Cohorts \X Users : application'[b] = IF b = a THEN t ELSE application[b]
  BY DEF Written, Inv, TypeOK
<1>3. DataInv'
  <2>1. SingleOpen'
    BY DEF Inv, DataInv, SingleOpen, cohortVars
  <2>2. HistoryIsKept'
    BY <1>2 DEF Inv, DataInv, HistoryIsKept, cohortVars
  <2>3. NobodyLeftWaits'
    <3> SUFFICES ASSUME NEW c \in Cohorts, NEW u \in withdrawn
                 PROVE  application'[<<c, u>>] # "SUBMITTED"
      BY DEF NobodyLeftWaits
    <3>1. <<c, u>> \in Cohorts \X Users /\ application[<<c, u>>] # "SUBMITTED"
      BY DEF Inv, TypeOK, DataInv, NobodyLeftWaits
    <3>2. <<c, u>> = a => a[2] \in withdrawn
      OBVIOUS
    <3> QED BY <1>2, <3>1, <3>2
  <2>4. ReviewedMeansDecided'
    BY <1>2 DEF Inv, DataInv, ReviewedMeansDecided, Written
  <2> QED BY <2>1, <2>2, <2>3, <2>4 DEF DataInv
<1>4. ASSUME NEW q \in Requests \ {r} PROVE Spared(q)
  <2>1. Mine(q)
    BY DEF Inv
  <2>2. tx[q].at \in {"edited", "leave"} => application'[Key(q)] = application[Key(q)]
    BY <1>2, AtForm DEF Inv, Forms
  <2>3. ASSUME At(q, "close"), NEW c \in Cohorts,
               application'[<<c, tx[q].user>>] = "SUBMITTED"
        PROVE  application[<<c, tx[q].user>>] = "SUBMITTED"
    BY <1>2, <2>3, AtClose DEF Inv
  <2> QED BY <2>1, <2>2, <2>3
        DEF Spared, Mine, cohortVars, UserShared, UserUpdated, At
<1> QED BY <1>1, <1>3, <1>4, CommitStep

LEMMA ReviewStep ==
    ASSUME Inv, NEW r \in Requests, NEW c \in Cohorts, NEW u \in Users,
           NEW decision \in ReviewDecisions, Review(r, c, u, decision)
    PROVE  Inv'
<1> DEFINE a == <<c, u>>
<1>1. a \in Cohorts \X Users /\ a[1] = c /\ a[2] = u
  OBVIOUS
<1>2. Over(r) /\ Written(a, decision) /\ UNCHANGED <<cohortVars, withdrawn, answers>>
  BY DEF Review, Over, Written
<1>3. decision \in ApplicationStatus /\ decision # "NONE" /\ decision # "SUBMITTED"
  BY DEF ReviewDecisions, ApplicationStatus
<1>4. cohort[c] \in {"OPEN", "CLOSED"}
  BY DEF Review, Inv, DataInv, HistoryIsKept
<1>5. \A q \in Requests \ {r} : tx[q].at \in {"edited", "leave"} => Key(q) # a
  BY DEF Review, Free, RowUpdated, Key
<1>6. answers' \in [Cohorts \X Users -> SUBSET Questions]
  BY <1>2 DEF Inv, TypeOK
<1> QED BY <1>1, <1>2, <1>3, <1>4, <1>5, <1>6, RowStep

(* Nothing is written: the application was there already, or is not to be  *)
(* had.                                                                    *)
LEMMA RefusedStep ==
    ASSUME Inv, NEW r \in Requests, End(r), UNCHANGED <<cohortVars, applicationVars, withdrawn>>
    PROVE  Inv'
BY EndsQuietly DEF Unchanged

(* What holds of an application that is handed in.                         *)
LEMMA Submitting ==
    ASSUME Inv, NEW r \in Requests, tx[r].at \in {"row", "insert"}
    PROVE  /\ Key(r) \in Cohorts \X Users /\ tx[r].answers \in SUBSET Questions
           /\ cohort[Key(r)[1]] = "OPEN" /\ Key(r)[2] \notin withdrawn
           /\ Fits(tx[r].answers, questions[Key(r)[1]])
           /\ \A q \in Requests \ {r} : At(q, "close") => tx[q].user # Key(r)[2]
<1>1. /\ Key(r) \in Cohorts \X Users /\ tx[r].answers \in SUBSET Questions
      /\ Key(r)[1] = tx[r].cohort /\ Key(r)[2] = tx[r].user
  BY AtForm DEF Inv, Forms
<1>2. Mine(r) /\ \A q \in Requests \ {r} : Apart(q, r)
  BY DEF Inv
<1> QED BY <1>1, <1>2 DEF Mine, Fitting, Apart, UserUpdated, UserShared, At

LEMMA SubmitStep ==
    ASSUME Inv, NEW r \in Requests, Reapply(r) \/ Insert(r)
    PROVE  Inv'
<1>1. tx[r].at \in {"row", "insert"} /\ End(r) /\ UNCHANGED <<cohortVars, withdrawn>>
  BY DEF Reapply, Insert, At
<1>2. CASE UNCHANGED applicationVars
  BY <1>1, <1>2, RefusedStep
<1>3. CASE application[Key(r)] \in {"NONE", "WITHDRAWN"} /\ Submits(r)
  <2> DEFINE a == Key(r)
  <2>1. a \in Cohorts \X Users /\ a = <<a[1], a[2]>>
    BY <1>1, Submitting
  <2>2. a \notin reviewed
    BY <1>3, <2>1 DEF Inv, DataInv, ReviewedMeansDecided, ReviewDecisions
  <2>3. Written(a, "SUBMITTED")
    <3>1. reviewed' = reviewed \ {a}
      BY <1>3, <2>2 DEF Reapply, Insert, applicationVars, Submits
    <3> QED BY <1>3, <3>1 DEF Written, Submits, ReviewDecisions
  <2>4. answers' \in [Cohorts \X Users -> SUBSET Questions]
    BY <1>1, <1>3, Submitting DEF Submits, Inv, TypeOK
  <2>5. ASSUME NEW q \in Requests \ {r}, tx[q].at \in {"edited", "leave"} PROVE Key(q) # a
    BY <1>3, <2>5 DEF Inv, Mine
  <2> QED BY <1>1, <2>1, <2>3, <2>4, <2>5, Submitting, RowStep DEF Over, ApplicationStatus
<1> QED BY <1>2, <1>3 DEF Reapply, Insert, Submits, applicationVars

LEMMA EditedStep ==
    ASSUME Inv, NEW r \in Requests, Edited(r)
    PROVE  Inv'
<1>1. End(r) /\ UNCHANGED <<cohortVars, application, reviewed, withdrawn>> /\ At(r, "edited")
  BY DEF Edited
<1>2. Key(r) \in Cohorts \X Users /\ tx[r].answers \in SUBSET Questions
  BY <1>1, AtForm DEF Inv, Forms, At
<1>3. TypeOK'
  BY <1>1, <1>2 DEF Edited, End, Inv, TypeOK, cohortVars
<1>4. DataInv'
  BY <1>1 DEF Inv, DataInv, SingleOpen, HistoryIsKept, NobodyLeftWaits, ReviewedMeansDecided,
              cohortVars
<1>5. ASSUME NEW q \in Requests \ {r} PROVE Spared(q)
  <2>1. Mine(q)
    BY DEF Inv
  <2> QED BY <1>1, <2>1 DEF Spared, Mine, cohortVars, UserShared, UserUpdated, At
<1> QED BY <1>1, <1>3, <1>4, <1>5, CommitStep DEF Over

LEMMA LeftStep ==
    ASSUME Inv, NEW r \in Requests, Left(r)
    PROVE  Inv'
<1> DEFINE a == Key(r)
<1>1. End(r) /\ UNCHANGED <<cohortVars, answers, reviewed, withdrawn>> /\ At(r, "leave")
  BY DEF Left
<1>2. a \in Cohorts \X Users /\ a = <<a[1], a[2]>> /\ application[a] = "SUBMITTED"
  BY <1>1, AtForm DEF Inv, Forms, At, Mine
<1>3. a \notin reviewed /\ cohort[a[1]] \in {"OPEN", "CLOSED"}
  BY <1>2 DEF Inv, DataInv, ReviewedMeansDecided, HistoryIsKept, ReviewDecisions
<1>4. Written(a, "WITHDRAWN")
  BY <1>1, <1>3 DEF Left, Written, ReviewDecisions
<1>5. ASSUME NEW q \in Requests \ {r}, tx[q].at \in {"edited", "leave"} PROVE Key(q) # a
  BY <1>1, <1>5 DEF Inv, Apart, RowUpdated, At
<1>6. answers' \in [Cohorts \X Users -> SUBSET Questions]
  BY <1>1 DEF Inv, TypeOK
<1> QED BY <1>1, <1>2, <1>3, <1>4, <1>5, <1>6, RowStep DEF Over, ApplicationStatus

(* All that are open, each locked before it was looked at again.           *)
LEMMA AccountClosedStep ==
    ASSUME Inv, NEW r \in Requests, AccountClosed(r)
    PROVE  Inv'
<1> DEFINE u == tx[r].user
<1>1. /\ At(r, "close") /\ End(r) /\ UNCHANGED <<cohortVars, answers, reviewed>>
      /\ withdrawn' = withdrawn \union {u} /\ tx[r].need \subseteq tx[r].held
  BY DEF AccountClosed
<1>2. Mine(r) /\ u \in Users
  BY <1>1, AtClose DEF Inv
<1>3. \A b \in Cohorts \X Users :
        application'[b] = IF Leaves(r, b) THEN "WITHDRAWN" ELSE application[b]
  BY DEF AccountClosed
<1>4. TypeOK'
  BY <1>1, <1>2 DEF AccountClosed, End, Inv, TypeOK, cohortVars, ApplicationStatus
<1>5. DataInv'
  <2>1. SingleOpen'
    BY <1>1 DEF Inv, DataInv, SingleOpen, cohortVars
  <2>2. HistoryIsKept'
    BY <1>1, <1>3 DEF Inv, DataInv, HistoryIsKept, Leaves, cohortVars
  <2>3. NobodyLeftWaits'
    BY <1>1, <1>2, <1>3 DEF Inv, TypeOK, DataInv, NobodyLeftWaits, Leaves, Mine
  <2>4. ReviewedMeansDecided'
    BY <1>1, <1>3 DEF Inv, DataInv, ReviewedMeansDecided, Leaves, ReviewDecisions
  <2> QED BY <2>1, <2>2, <2>3, <2>4 DEF DataInv
<1>6. ASSUME NEW q \in Requests \ {r} PROVE Spared(q)
  <2>1. Mine(q) /\ Apart(r, q) /\ Apart(q, r)
    BY DEF Inv
  <2>2. tx[q].at \in {"edited", "leave"} => application'[Key(q)] = application[Key(q)]
    <3>1. ASSUME tx[q].at \in {"edited", "leave"} PROVE ~Leaves(r, Key(q))
      BY <1>1, <2>1, <3>1, AtForm DEF Inv, Forms, Apart, Leaves, RowUpdated, At
    <3> QED BY <1>3, <3>1, AtForm DEF Inv, Forms
  <2>3. ASSUME At(q, "close"), NEW c \in Cohorts,
               application'[<<c, tx[q].user>>] = "SUBMITTED"
        PROVE  application[<<c, tx[q].user>>] = "SUBMITTED"
    BY <1>3, <2>3, AtClose DEF Inv
  <2>4. tx[q].at \in UserShared \union UserUpdated => tx[q].user \notin withdrawn'
    BY <1>1, <2>1 DEF Mine, Apart, UserShared, UserUpdated, At
  <2> QED BY <1>1, <2>1, <2>2, <2>3, <2>4 DEF Spared, cohortVars
<1> QED BY <1>1, <1>4, <1>5, <1>6, CommitStep DEF Over

-----------------------------------------------------------------------------
(* The theorems *)

LEMMA InvInit == Init => Inv
<1> SUFFICES ASSUME Init PROVE Inv
  OBVIOUS
<1>1. TypeOK
  BY DEF Init, NoCohorts, TypeOK, CohortStatus, ApplicationStatus, Lists
<1>2. DataInv
  BY DEF Init, NoCohorts, DataInv, SingleOpen, HistoryIsKept, NobodyLeftWaits, ReviewedMeansDecided,
         ReviewDecisions
<1>3. \A r \in Requests : tx[r] = Idle
  BY DEF Init
<1> QED BY <1>1, <1>2, <1>3
     DEF Inv, Mine, Apart, At, Idle, CohortUpdated, UserUpdated, RowUpdated

LEMMA StutterStep ==
    ASSUME Inv, UNCHANGED vars
    PROVE  Inv'
<1>1. UNCHANGED <<cohort, questions, application, answers, reviewed, withdrawn, tx>>
  BY DEF vars, cohortVars, applicationVars
<1>2. TypeOK' /\ DataInv'
  BY <1>1 DEF Inv, TypeOK, DataInv, SingleOpen, HistoryIsKept, NobodyLeftWaits,
              ReviewedMeansDecided
<1>3. \A r \in Requests : Mine(r)'
  BY <1>1 DEF Inv, Mine, At, Key, Fitting
<1>4. \A r, q \in Requests : r # q => Apart(r, q)'
  BY <1>1 DEF Inv, Apart, At, Key
<1> QED BY <1>2, <1>3, <1>4 DEF Inv

LEMMA InvNext == Inv /\ [Next]_vars => Inv'
<1> SUFFICES ASSUME Inv, [Next]_vars PROVE Inv'
  OBVIOUS
<1>1. CASE UNCHANGED vars
  BY <1>1, StutterStep
<1>2. ASSUME NEW r \in Requests, NEW c \in Cohorts, Operator(r, c) PROVE Inv'
  <2>1. ASSUME NEW list \in Lists, PutQuestions(r, c, list) PROVE Inv'
    BY <2>1, CohortStep
  <2>2. ASSUME Remove(r, c) \/ Close(r, c) PROVE Inv'
    <3>1. cohort[c] \in CohortStatus /\ questions[c] \in Lists
      BY DEF Inv, TypeOK
    <3> QED BY <2>2, <3>1, CohortStep
  <2>3. ASSUME OpenBegins(r, c) PROVE Inv'
    BY <2>3, OpenBeginsStep
  <2> QED BY <1>2, <2>1, <2>2, <2>3, ReviewStep DEF Operator
<1>3. ASSUME NEW r \in Requests, NEW c \in Cohorts, NEW u \in Users, Applicant(r, c, u)
      PROVE  Inv'
  <2>1. LeaveBegins(r, c, u) => Inv'
    BY StartStep
  <2> QED BY <1>3, <2>1, StartStep DEF Applicant
<1>4. ASSUME NEW r \in Requests, NEW u \in Users, CloseBegins(r, u) PROVE Inv'
  BY <1>4, CloseBeginsStep
<1>5. ASSUME NEW r \in Requests, Proceeds(r) PROVE Inv'
  <2>1. CASE (Onboarded(r) \/ NoneYet(r) \/ EditChecks(r)) /\ ~End(r)
    BY <2>1, GoToStep
  <2>2. CASE (Onboarded(r) \/ NoneYet(r) \/ EditChecks(r) \/ Abort(r)) /\ End(r)
    BY <2>2, EndsQuietly DEF Onboarded, NoneYet, EditChecks, Abort, Unchanged
  <2> QED BY <1>5, <2>1, <2>2, CloseLocksStep DEF Proceeds, Abort
<1>6. ASSUME NEW r \in Requests, Commits(r) PROVE Inv'
  <2>1. ASSUME Opened(r) PROVE Inv'
    <3>1. tx[r].cohort \in Cohorts /\ questions[tx[r].cohort] \in Lists
      BY <2>1, AtOpen DEF Opened, Inv, TypeOK
    <3> QED BY <2>1, <3>1, CohortStep
  <2> QED BY <1>6, <2>1, SubmitStep, EditedStep, LeftStep, AccountClosedStep DEF Commits
<1> QED BY <1>1, <1>2, <1>3, <1>4, <1>5, <1>6, CreateStep DEF Next

(* Whatever a transaction has checked stays true until it commits.         *)
THEOREM Invariance == Spec => []Inv
<1> QED BY InvInit, InvNext, PTL DEF Spec

(* The rows and the transactions keep to their columns and statements.     *)
THEOREM TypeCorrect == Spec => []TypeOK
<1>1. Inv => TypeOK
  BY DEF Inv
<1> QED BY <1>1, Invariance, PTL

(* However many are opened at a time, one cohort is current at most.       *)
THEOREM OneIsOpen == Spec => []SingleOpen
<1>1. Inv => SingleOpen
  BY DEF Inv, DataInv
<1> QED BY <1>1, Invariance, PTL

(* No cohort is deleted under an application to it.                        *)
THEOREM HistoriesAreKept == Spec => []HistoryIsKept
<1>1. Inv => HistoryIsKept
  BY DEF Inv, DataInv
<1> QED BY <1>1, Invariance, PTL

(* No application of an account that has left waits for a decision.        *)
THEOREM NobodyWaits == Spec => []NobodyLeftWaits
<1>1. Inv => NobodyLeftWaits
  BY DEF Inv, DataInv
<1> QED BY <1>1, Invariance, PTL

(* Reviews and decisions come and go together.                             *)
THEOREM ReviewsMatch == Spec => []ReviewedMeansDecided
<1>1. Inv => ReviewedMeansDecided
  BY DEF Inv, DataInv
<1> QED BY <1>1, Invariance, PTL

(* What a step may do to an application.                                   *)
Kept(a) == application'[a] = application[a] /\ answers'[a] = answers[a]
HandedIn(a) ==
    /\ application[a] \notin ReviewDecisions /\ application'[a] = "SUBMITTED"
    /\ cohort[a[1]] = "OPEN" /\ Fits(answers'[a], questions[a[1]])
Settled(a) ==
    /\ application'[a] # "SUBMITTED" /\ answers'[a] = answers[a]
    /\ application[a] \in ReviewDecisions => application'[a] \in ReviewDecisions

LEMMA SubmitChanges ==
    ASSUME Inv, NEW r \in Requests, Reapply(r) \/ Insert(r), NEW a \in Cohorts \X Users
    PROVE  Kept(a) \/ HandedIn(a)
<1>1. tx[r].at \in {"row", "insert"}
  BY DEF Reapply, Insert, At
<1>2. CASE UNCHANGED applicationVars
  BY <1>2 DEF Kept, applicationVars
<1>3. CASE application[Key(r)] \in {"NONE", "WITHDRAWN"} /\ Submits(r)
  <2>1. /\ application' = [application EXCEPT ![Key(r)] = "SUBMITTED"]
        /\ answers' = [answers EXCEPT ![Key(r)] = tx[r].answers]
    BY <1>3 DEF Submits
  <2>2. CASE a = Key(r)
    <3>1. application'[a] = "SUBMITTED" /\ answers'[a] = tx[r].answers
      BY <2>1, <2>2 DEF Inv, TypeOK
    <3>2. cohort[a[1]] = "OPEN" /\ Fits(tx[r].answers, questions[a[1]])
      BY <1>1, <2>2, Submitting
    <3> QED BY <1>3, <2>2, <3>1, <3>2 DEF HandedIn, ReviewDecisions
  <2>3. CASE a # Key(r)
    BY <2>1, <2>3 DEF Kept, Inv, TypeOK
  <2> QED BY <2>2, <2>3
<1> QED BY <1>2, <1>3 DEF Reapply, Insert, Submits, applicationVars

LEMMA EditedChanges ==
    ASSUME Inv, NEW r \in Requests, Edited(r), NEW a \in Cohorts \X Users
    PROVE  Kept(a) \/ HandedIn(a)
<1>1. /\ answers' = [answers EXCEPT ![Key(r)] = tx[r].answers]
      /\ application' = application /\ At(r, "edited")
  BY DEF Edited
<1>2. CASE a = Key(r)
  <2>1. a[1] = tx[r].cohort /\ answers'[a] = tx[r].answers
    BY <1>1, <1>2, AtForm DEF Inv, TypeOK, Forms, At
  <2>2. Fitting(r) /\ application[a] = "SUBMITTED"
    BY <1>1, <1>2 DEF Inv, Mine, At
  <2> QED BY <1>1, <2>1, <2>2 DEF Fitting, HandedIn, ReviewDecisions
<1>3. CASE a # Key(r)
  BY <1>1, <1>3 DEF Kept, Inv, TypeOK
<1> QED BY <1>2, <1>3

LEMMA Changes ==
    ASSUME Inv, [Next]_vars, NEW a \in Cohorts \X Users
    PROVE  Kept(a) \/ HandedIn(a) \/ Settled(a)
<1>1. CASE UNCHANGED vars
  BY <1>1 DEF vars, applicationVars, Kept
<1>2. ASSUME NEW r \in Requests, NEW c \in Cohorts, Operator(r, c)
      PROVE  Kept(a) \/ Settled(a)
  <2>1. CASE UNCHANGED applicationVars
    BY <2>1 DEF applicationVars, Kept
  <2>2. ASSUME NEW u \in Users, NEW decision \in ReviewDecisions, Review(r, c, u, decision)
        PROVE  Kept(a) \/ Settled(a)
    BY <2>2 DEF Review, Inv, TypeOK, Kept, Settled, ReviewDecisions
  <2> QED BY <1>2, <2>1, <2>2 DEF Operator, PutQuestions, Remove, Close, OpenBegins
<1>3. ASSUME NEW r \in Requests, Commits(r) PROVE Kept(a) \/ HandedIn(a) \/ Settled(a)
  <2>1. CASE Opened(r)
    BY <2>1 DEF Opened, applicationVars, Kept
  <2>2. CASE Left(r)
    <3>1. application[Key(r)] = "SUBMITTED"
      BY <2>2 DEF Left, Inv, Mine, At
    <3> QED BY <2>2, <3>1 DEF Left, Inv, TypeOK, Kept, Settled, ReviewDecisions
  <2>3. CASE AccountClosed(r)
    BY <2>3 DEF AccountClosed, Leaves, Kept, Settled, ReviewDecisions
  <2> QED BY <1>3, <2>1, <2>2, <2>3, SubmitChanges, EditedChanges DEF Commits
<1>4. CASE UNCHANGED applicationVars
  BY <1>4 DEF applicationVars, Kept
<1>5. ASSUME NEW c \in Cohorts, Create(c) PROVE UNCHANGED applicationVars
  BY <1>5 DEF Create
<1>6. ASSUME NEW r \in Requests, NEW c \in Cohorts, NEW u \in Users,
             Applicant(r, c, u) \/ CloseBegins(r, u) \/ Proceeds(r)
      PROVE  UNCHANGED applicationVars
  BY <1>6 DEF Applicant, ApplyBegins, EditBegins, LeaveBegins, CloseBegins, Proceeds,
              Onboarded, NoneYet, EditChecks, CloseLocks, Abort
<1> QED BY <1>1, <1>2, <1>3, <1>4, <1>5, <1>6 DEF Next

(* A withdrawal that overlaps with a review never undoes the decision.     *)
THEOREM DecisionsStand == Spec => DecisionStands
<1>1. ASSUME Inv, [Next]_vars
      PROVE  [\A a \in Cohorts \X Users :
                  application[a] \in ReviewDecisions => application'[a] \in ReviewDecisions]_vars
  BY <1>1, Changes DEF Kept, HandedIn, Settled
<1> QED BY <1>1, Invariance, PTL DEF Spec, DecisionStands

(* Neither new questions nor a closing get in between the check and the    *)
(* moment an application is handed in.                                     *)
THEOREM HandInsFit == Spec => HandedInFits
<1>1. ASSUME Inv, [Next]_vars
      PROVE  [\A a \in Cohorts \X Users :
                  \/ application'[a] = "SUBMITTED" /\ application[a] # "SUBMITTED"
                  \/ answers'[a] # answers[a]
                  => cohort[a[1]] = "OPEN" /\ Fits(answers'[a], questions[a[1]])]_vars
  BY <1>1, Changes DEF Kept, HandedIn, Settled
<1> QED BY <1>1, Invariance, PTL DEF Spec, HandedInFits

-----------------------------------------------------------------------------
(* Every transaction acts when it commits: what it has checked is Mine,    *)
(* and Mine is what the step it maps to asks for.                          *)

LEMMA OperatorActs ==
    ASSUME Inv, NEW r \in Requests, NEW c \in Cohorts, Operator(r, c)
    PROVE  [Steps!Next]_Steps!rowVars
<1> USE DEF rowVars, cohortVars, applicationVars, Steps!rowVars, Steps!cohortVars,
            Steps!applicationVars
<1>1. ASSUME NEW list \in Lists, PutQuestions(r, c, list) PROVE Steps!PutQuestions(c, list)
  BY <1>1 DEF PutQuestions, Steps!PutQuestions, Exists, Steps!Exists
<1>2. Remove(r, c) => Steps!Remove(c)
  BY DEF Remove, Steps!Remove, Exists, Steps!Exists, HasApplications, Steps!HasApplications
<1>3. Close(r, c) => Steps!Close(c)
  BY DEF Close, Steps!Close
<1>4. OpenBegins(r, c) => UNCHANGED rowVars
  BY DEF OpenBegins, rowVars
<1>5. ASSUME NEW u \in Users, NEW decision \in ReviewDecisions, Review(r, c, u, decision)
      PROVE  Steps!Review(c, u, decision)
  BY <1>5 DEF Review, Steps!Review
<1> QED BY <1>1, <1>2, <1>3, <1>4, <1>5
     DEF Operator, Steps!Next, Lists, Steps!Lists, ReviewDecisions, Steps!ReviewDecisions

LEMMA OpenedActs ==
    ASSUME Inv, NEW r \in Requests, Opened(r)
    PROVE  [Steps!Next]_Steps!rowVars
<1> USE DEF rowVars, cohortVars, applicationVars, Steps!rowVars, Steps!cohortVars,
            Steps!applicationVars
<1> DEFINE c == tx[r].cohort
<1>1. At(r, "open") /\ UNCHANGED <<questions, applicationVars, withdrawn>>
  BY DEF Opened
<1>2. c \in Cohorts /\ cohort[c] \in {"DRAFT", "CLOSED"}
  BY <1>1, AtOpen DEF Inv, Mine
<1>3. CASE OtherOpen(c)
  BY <1>1, <1>3 DEF Opened, rowVars, cohortVars
<1>4. CASE ~OtherOpen(c)
  <2>1. Steps!Open(c)
    BY <1>1, <1>2, <1>4 DEF Opened, Steps!Open, OtherOpen, Steps!OtherOpen
  <2> QED BY <1>2, <2>1 DEF Steps!Next
<1> QED BY <1>3, <1>4

(* A first application has no review that would have to go.                *)
LEMMA SubmitActs ==
    ASSUME Inv, NEW r \in Requests, Reapply(r) \/ Insert(r)
    PROVE  [Steps!Next]_Steps!rowVars
<1> USE DEF rowVars, cohortVars, applicationVars, Steps!rowVars, Steps!cohortVars,
            Steps!applicationVars
<1> DEFINE c == tx[r].cohort
           u == tx[r].user
           given == tx[r].answers
<1>1. tx[r].at \in {"row", "insert"} /\ UNCHANGED <<cohortVars, withdrawn>>
  BY DEF Reapply, Insert, At
<1>2. c \in Cohorts /\ u \in Users /\ given \in SUBSET Questions /\ Key(r) = <<c, u>>
  BY <1>1, AtForm DEF Inv, Forms, Key
<1>3. CASE UNCHANGED applicationVars
  BY <1>1, <1>3 DEF rowVars
<1>4. CASE application[Key(r)] \in {"NONE", "WITHDRAWN"} /\ Submits(r)
  <2>1. u \notin withdrawn /\ cohort[c] = "OPEN" /\ Fits(given, questions[c])
    BY <1>1 DEF Inv, Mine, Fitting
  <2>2. <<c, u>> \notin reviewed
    BY <1>2, <1>4 DEF Inv, DataInv, ReviewedMeansDecided, ReviewDecisions
  <2>3. reviewed' = reviewed \ {<<c, u>>}
    BY <1>2, <1>4, <2>2 DEF Reapply, Insert, applicationVars
  <2>4. Steps!Apply(c, u, given)
    BY <1>1, <1>2, <1>4, <2>1, <2>3 
       DEF Submits, Steps!Apply, Steps!Welcome, Fits, Steps!Fits
  <2> QED BY <1>2, <2>4 DEF Steps!Next
<1> QED BY <1>3, <1>4 DEF Reapply, Insert, Submits, applicationVars

(* The account is still there: an application of one that has left is not  *)
(* open to edits.                                                          *)
LEMMA EditedActs ==
    ASSUME Inv, NEW r \in Requests, Edited(r)
    PROVE  [Steps!Next]_Steps!rowVars
<1> USE DEF rowVars, cohortVars, applicationVars, Steps!rowVars, Steps!cohortVars,
            Steps!applicationVars
<1> DEFINE c == tx[r].cohort
           u == tx[r].user
           given == tx[r].answers
<1>1. /\ At(r, "edited")
      /\ answers' = [answers EXCEPT ![Key(r)] = given]
      /\ UNCHANGED <<cohortVars, application, reviewed, withdrawn>>
  BY DEF Edited
<1>2. c \in Cohorts /\ u \in Users /\ given \in SUBSET Questions /\ Key(r) = <<c, u>>
  BY <1>1, AtForm DEF Inv, Forms, At, Key
<1>3. /\ cohort[c] = "OPEN" /\ Fits(given, questions[c])
      /\ application[<<c, u>>] = "SUBMITTED"
  BY <1>1, <1>2 DEF Inv, Mine, Fitting, At
<1>4. u \notin withdrawn
  BY <1>2, <1>3 DEF Inv, DataInv, NobodyLeftWaits
<1>5. Steps!Edit(c, u, given)
  BY <1>1, <1>2, <1>3, <1>4 DEF Steps!Edit, Steps!Welcome, Fits, Steps!Fits
<1> QED BY <1>2, <1>5 DEF Steps!Next

LEMMA LeftActs ==
    ASSUME Inv, NEW r \in Requests, Left(r)
    PROVE  [Steps!Next]_Steps!rowVars
<1> USE DEF rowVars, cohortVars, applicationVars, Steps!rowVars, Steps!cohortVars,
            Steps!applicationVars
<1>1. At(r, "leave")
  BY DEF Left
<1>2. tx[r].cohort \in Cohorts /\ tx[r].user \in Users /\ Key(r) = <<tx[r].cohort, tx[r].user>>
  BY <1>1, AtForm DEF Inv, Forms, At, Key
<1>3. application[Key(r)] = "SUBMITTED"
  BY <1>1 DEF Inv, Mine, At
<1>4. Steps!Leave(tx[r].cohort, tx[r].user)
  BY <1>2, <1>3 DEF Left, Steps!Leave
<1> QED BY <1>2, <1>4 DEF Steps!Next

(* Nothing was handed in since the rows were found, so all that is open    *)
(* has been found.                                                         *)
LEMMA AccountClosedActs ==
    ASSUME Inv, NEW r \in Requests, AccountClosed(r)
    PROVE  [Steps!Next]_Steps!rowVars
<1> USE DEF rowVars, cohortVars, applicationVars, Steps!rowVars, Steps!cohortVars,
            Steps!applicationVars
<1> DEFINE u == tx[r].user
<1>1. /\ At(r, "close") /\ withdrawn' = withdrawn \union {u}
      /\ application' = [a \in Cohorts \X Users |->
                             IF Leaves(r, a) THEN "WITHDRAWN" ELSE application[a]]
      /\ UNCHANGED <<cohortVars, answers, reviewed>>
  BY DEF AccountClosed
<1>2. u \in Users /\ Mine(r)
  BY <1>1, AtClose DEF Inv
<1>3. ASSUME NEW a \in Cohorts \X Users
      PROVE  Leaves(r, a) <=> a[2] = u /\ application[a] = "SUBMITTED"
  <2>1. a = <<a[1], a[2]>> /\ a[1] \in Cohorts
    OBVIOUS
  <2>2. a[2] = u /\ application[a] = "SUBMITTED" => a[1] \in tx[r].need
    BY <1>1, <1>2, <2>1 DEF Mine
  <2> QED BY <2>2 DEF Leaves
<1>4. Steps!CloseAccount(u)
  BY <1>1, <1>2, <1>3 DEF Mine, Steps!CloseAccount
<1> QED BY <1>2, <1>4 DEF Steps!Next

LEMMA CohortsAct == Inv /\ [Next]_vars => [Steps!Next]_Steps!rowVars
<1> USE DEF rowVars, cohortVars, applicationVars, Steps!rowVars, Steps!cohortVars,
            Steps!applicationVars
<1> SUFFICES ASSUME Inv, [Next]_vars PROVE [Steps!Next]_Steps!rowVars
  OBVIOUS
<1>1. CASE UNCHANGED vars
  BY <1>1 DEF vars, rowVars
<1>2. ASSUME NEW c \in Cohorts, Create(c) PROVE [Steps!Next]_Steps!rowVars
  <2>1. Steps!Create(c)
    BY <1>2 DEF Create, Steps!Create, Lists, Steps!Lists
  <2> QED BY <2>1 DEF Steps!Next
<1>3. ASSUME NEW r \in Requests, NEW c \in Cohorts, NEW u \in Users,
             Applicant(r, c, u)
      PROVE  UNCHANGED rowVars
  BY <1>3 DEF Applicant, ApplyBegins, EditBegins, LeaveBegins, rowVars
<1>4. ASSUME NEW r \in Requests, NEW u \in Users, CloseBegins(r, u) PROVE UNCHANGED rowVars
  BY <1>4 DEF CloseBegins, rowVars
<1>5. ASSUME NEW r \in Requests, Proceeds(r) PROVE UNCHANGED rowVars
  BY <1>5 DEF Proceeds, Onboarded, NoneYet, EditChecks, CloseLocks, Abort, rowVars
<1>6. ASSUME NEW r \in Requests, Commits(r) PROVE [Steps!Next]_Steps!rowVars
  BY <1>6, OpenedActs, SubmitActs, EditedActs, LeftActs, AccountClosedActs DEF Commits
<1> QED BY <1>1, <1>2, <1>3, <1>4, <1>5, <1>6, OperatorActs DEF Next

(* Whatever overlaps - openings, new questions, applications, edits,       *)
(* reviews, withdrawals, ends of accounts - the rows change as if each     *)
(* handler had run alone at the moment it commits.                         *)
THEOREM HandlersActAtCommit == Spec => ActsAtCommit
<1>1. Init => Steps!NoCohorts
  BY DEF Init, NoCohorts, Steps!NoCohorts
<1>2. Inv /\ [Next]_vars => [Steps!Next]_Steps!rowVars
  BY CohortsAct
<1> QED BY <1>1, <1>2, Invariance, PTL DEF Spec, ActsAtCommit, Steps!Spec

=============================================================================
