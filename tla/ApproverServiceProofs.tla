----------------------- MODULE ApproverServiceProofs -----------------------
(***************************************************************************)
(* Theorems about approvals and revocations as the server with the         *)
(* Postgres stores handles them (module ApproverService), for any number   *)
(* of requests, approvers, overlapping submissions and set creations.      *)
(*                                                                         *)
(* PgInv says what a submission owns between its INSERT and its commit: no *)
(* row and no other open transaction has its key or its approval id.       *)
(* RevocationInv says what is known of the approvers a handler has already *)
(* looked at while others are being revoked.                               *)
(***************************************************************************)
EXTENDS ApproverService, TLAPS

Answers ==
  {"none", "Inserted", "AlreadyRecorded", "DuplicateApproval", "Io", "Transport",
   "UnknownApprover", "InvalidApproval"}

SubmissionStates ==
  {NotSubmitted} \cup
  [pc : {"lookup", "select", "insert", "commit", "done"}, req : Requests, who : Approvers,
   appr : Approvals, outcome : Answers, wasRevoked : BOOLEAN]

PgTypeOK ==
  /\ rows \in [Requests -> [Approvers -> Approvals \cup {NoApproval}]]
  /\ by_commit \in [Requests -> Seq(Approvers)]
  /\ submission \in [Submissions -> SubmissionStates]

\* Submission t has inserted its row and not ended its transaction.
Open(t) == submission[t].pc = "commit"

OwnsKeys ==
  \A t \in Submissions : Open(t) => Row(t) = NoApproval /\ ~ IdTaken(submission[t].appr.id)

KeysAreDisjoint ==
  \A t, u \in Submissions : Open(t) /\ Open(u) /\ t # u =>
    /\ submission[t].appr.id # submission[u].appr.id
    /\ <<submission[t].req, submission[t].who>> # <<submission[u].req, submission[u].who>>

ListedIsStored ==
  \A r \in Requests : \A i \in DOMAIN by_commit[r] : rows[r][by_commit[r][i]] # NoApproval

\* One submission's part of PostgresAnswersHold.
AnswerHolds(t) ==
  submission[t].pc = "done" =>
    /\ submission[t].outcome = "Inserted" => Row(t) = submission[t].appr
    /\ submission[t].outcome = "AlreadyRecorded" =>
         Row(t) # NoApproval /\ Row(t).id = submission[t].appr.id
    /\ submission[t].outcome = "DuplicateApproval" =>
         Row(t) # NoApproval \/ IdTaken(submission[t].appr.id)

PgInv == PgTypeOK /\ OwnsKeys /\ KeysAreDisjoint /\ ListedIsStored /\ PostgresAnswersHold

\* A submission that has been called carries its arguments.
LEMMA Called ==
  ASSUME PgTypeOK, NEW t \in Submissions, submission[t] # NotSubmitted
  PROVE  /\ submission[t].req \in Requests /\ submission[t].who \in Approvers
         /\ submission[t].appr \in Approvals /\ submission[t].appr # NoApproval
         /\ submission[t] \in [pc : {"lookup", "select", "insert", "commit", "done"},
                               req : Requests, who : Approvers, appr : Approvals,
                               outcome : Answers, wasRevoked : BOOLEAN]
  BY NoApprovalAssumption DEF PgTypeOK, SubmissionStates

\* So does one whose program counter is past the start.
LEMMA Started ==
  ASSUME NEW t \in Submissions, submission[t].pc # "idle"
  PROVE  submission[t] # NotSubmitted
  BY DEF NotSubmitted

\* What ending or moving a submission leaves as it was.
Same(t, u) ==
  /\ submission'[u].req = submission[u].req /\ submission'[u].who = submission[u].who
  /\ submission'[u].appr = submission[u].appr
  /\ submission'[u].wasRevoked = submission[u].wasRevoked
  /\ u # t => submission'[u] = submission[u]

\* Moves changes the program counter of one submission.
LEMMA MovesEffect ==
  ASSUME PgTypeOK, NEW t \in Submissions, submission[t] # NotSubmitted,
         NEW pc \in {"select", "insert", "commit"}, Moves(t, pc)
  PROVE  /\ submission' \in [Submissions -> SubmissionStates]
         /\ submission'[t].pc = pc
         /\ \A u \in Submissions : Same(t, u)
  <1>1. submission[t] \in [pc : {"lookup", "select", "insert", "commit", "done"},
                           req : Requests, who : Approvers, appr : Approvals,
                           outcome : Answers, wasRevoked : BOOLEAN]
    BY Called
  <1>2. [submission[t] EXCEPT !.pc = pc] \in SubmissionStates
    BY <1>1 DEF SubmissionStates
  <1> QED
    BY <1>1, <1>2 DEF Moves, PgTypeOK, Same

\* Ends sets it to done and records the outcome.
LEMMA EndsEffect ==
  ASSUME PgTypeOK, NEW t \in Submissions, submission[t] # NotSubmitted,
         NEW outcome \in Answers, Ends(t, outcome)
  PROVE  /\ submission' \in [Submissions -> SubmissionStates]
         /\ submission'[t].pc = "done" /\ submission'[t].outcome = outcome
         /\ \A u \in Submissions : Same(t, u)
  <1>1. submission[t] \in [pc : {"lookup", "select", "insert", "commit", "done"},
                           req : Requests, who : Approvers, appr : Approvals,
                           outcome : Answers, wasRevoked : BOOLEAN]
    BY Called
  <1>2. [submission[t] EXCEPT !.pc = "done", !.outcome = outcome] \in SubmissionStates
    BY <1>1 DEF SubmissionStates
  <1> QED
    BY <1>1, <1>2 DEF Ends, PgTypeOK, Same

\* A step that leaves the table alone keeps PgInv when the submission it moves
\* ends with a true answer, or opens a transaction whose keys are free.
LEMMA TableKept ==
  ASSUME PgInv, NEW t \in Submissions, submission[t] # NotSubmitted,
         UNCHANGED <<rows, by_commit>>,
         submission' \in [Submissions -> SubmissionStates],
         \A u \in Submissions : Same(t, u),
         submission'[t].pc = "commit" =>
           /\ Row(t) = NoApproval /\ ~ IdTaken(submission[t].appr.id)
           /\ ~ InsertedElsewhere(t),
         submission'[t].pc = "done" =>
           /\ submission'[t].outcome # "Inserted"
           /\ submission'[t].outcome = "AlreadyRecorded" =>
                Row(t) # NoApproval /\ Row(t).id = submission[t].appr.id
           /\ submission'[t].outcome = "DuplicateApproval" =>
                Row(t) # NoApproval \/ IdTaken(submission[t].appr.id)
  PROVE  PgInv'
  <1>1. PgTypeOK'
    BY DEF PgInv, PgTypeOK
  <1>2. \A u \in Submissions : Row(u)' = Row(u)
    BY DEF Row, Same
  <1>3. \A id : IdTaken(id)' = IdTaken(id)
    BY DEF IdTaken
  <1>4. OwnsKeys'
    <2> SUFFICES ASSUME NEW u \in Submissions, Open(u)'
                 PROVE  Row(u) = NoApproval /\ ~ IdTaken(submission[u].appr.id)
      BY <1>2, <1>3 DEF OwnsKeys, Same
    <2> QED
      BY DEF PgInv, OwnsKeys, Open, Same
  <1>5. KeysAreDisjoint'
    <2> SUFFICES ASSUME NEW u \in Submissions, NEW v \in Submissions, Open(u)', Open(v)', u # v
                 PROVE  /\ submission[u].appr.id # submission[v].appr.id
                        /\ <<submission[u].req, submission[u].who>>
                             # <<submission[v].req, submission[v].who>>
      BY DEF KeysAreDisjoint, Same
    <2>1. CASE u # t /\ v # t
      BY <2>1 DEF PgInv, KeysAreDisjoint, Open, Same
    <2>2. CASE u = t
      BY <2>2 DEF InsertedElsewhere, Open, Same
    <2>3. CASE v = t
      BY <2>3 DEF InsertedElsewhere, Open, Same
    <2> QED
      BY <2>1, <2>2, <2>3
  <1>6. ListedIsStored'
    BY DEF PgInv, ListedIsStored
  <1>7. PostgresAnswersHold'
    <2> SUFFICES ASSUME NEW u \in Submissions
                 PROVE  AnswerHolds(u)'
      BY DEF PostgresAnswersHold, AnswerHolds
    <2>0. AnswerHolds(u)
      BY DEF PgInv, PostgresAnswersHold, AnswerHolds
    <2>1. CASE u = t
      BY <1>2, <1>3, <2>1 DEF Same, AnswerHolds
    <2>2. CASE u # t
      BY <1>2, <1>3, <2>0, <2>2 DEF Same, AnswerHolds
    <2> QED
      BY <2>1, <2>2
  <1> QED
    BY <1>1, <1>4, <1>5, <1>6, <1>7 DEF PgInv

\* A handler starts.
LEMMA SubmitKeeps ==
  ASSUME PgInv, NEW t \in Submissions, NEW r \in Requests, NEW a \in Approvers,
         NEW p \in Approvals, Submit(t, r, a, p)
  PROVE  PgInv'
  <1>1. /\ UNCHANGED <<rows, by_commit>> /\ submission \in [Submissions -> SubmissionStates]
        /\ submission' = [submission EXCEPT ![t] =
             [pc |-> "lookup", req |-> r, who |-> a, appr |-> p, outcome |-> "none",
              wasRevoked |-> approver[a] = "Revoked"]]
    BY DEF Submit, PgInv, PgTypeOK
  <1>2. submission' \in [Submissions -> SubmissionStates]
    <2>1. PICK b \in {TRUE, FALSE} : b = (approver[a] = "Revoked")
      OBVIOUS
    <2>2. [pc |-> "lookup", req |-> r, who |-> a, appr |-> p, outcome |-> "none",
           wasRevoked |-> b] \in SubmissionStates
      BY DEF SubmissionStates, Answers
    <2>3. submission' = [submission EXCEPT ![t] =
            [pc |-> "lookup", req |-> r, who |-> a, appr |-> p, outcome |-> "none",
             wasRevoked |-> b]]
      BY <1>1, <2>1, Zenon
    <2> QED
      BY <1>1, <2>2, <2>3
  <1>3. submission'[t].pc = "lookup" /\ \A u \in Submissions \ {t} : submission'[u] = submission[u]
    BY <1>1
  <1>4. \A u \in Submissions : (Open(u)' \/ submission'[u].pc = "done") =>
          submission'[u] = submission[u]
    BY <1>3 DEF Open
  <1>5. PgTypeOK'
    BY <1>1, <1>2 DEF PgInv, PgTypeOK
  <1>6. OwnsKeys'
    BY <1>1, <1>4 DEF PgInv, OwnsKeys, Open, Row, IdTaken
  <1>7. KeysAreDisjoint'
    BY <1>4 DEF PgInv, KeysAreDisjoint, Open
  <1>8. ListedIsStored'
    BY SMTT(60), <1>1 DEF PgInv, ListedIsStored
  <1>9. ASSUME NEW u \in Submissions PROVE AnswerHolds(u)'
    <2>1. AnswerHolds(u)
      BY DEF PgInv, PostgresAnswersHold, AnswerHolds
    <2> QED
      BY <1>1, <1>4, <2>1 DEF AnswerHolds, Row, IdTaken
  <1>10. PostgresAnswersHold'
    BY <1>9 DEF PostgresAnswersHold, AnswerHolds
  <1> QED
    BY <1>5, <1>6, <1>7, <1>8, <1>10 DEF PgInv

\* The look-up, the SELECT, the INSERT and a rollback leave the table alone.
LEMMA QueryKeeps ==
  ASSUME PgInv, NEW t \in Submissions,
         LookUp(t) \/ SelectRow(t) \/ InsertRow(t) \/ AbandonApproval(t)
  PROVE  PgInv'
  <1>0. /\ PgTypeOK /\ submission[t] # NotSubmitted /\ UNCHANGED <<rows, by_commit>>
    BY Started DEF PgInv, LookUp, SelectRow, InsertRow, AbandonApproval
  <1>1. ASSUME NEW outcome \in Answers, Ends(t, outcome), outcome # "Inserted",
               outcome = "AlreadyRecorded" =>
                 Row(t) # NoApproval /\ Row(t).id = submission[t].appr.id,
               outcome = "DuplicateApproval" =>
                 Row(t) # NoApproval \/ IdTaken(submission[t].appr.id)
        PROVE  PgInv'
    BY <1>0, <1>1, EndsEffect, TableKept
  <1>2. ASSUME NEW pc \in {"select", "insert", "commit"}, Moves(t, pc),
               pc = "commit" => /\ Row(t) = NoApproval /\ ~ IdTaken(submission[t].appr.id)
                                /\ ~ InsertedElsewhere(t)
        PROVE  PgInv'
    BY <1>0, <1>2, MovesEffect, TableKept
  <1>3. CASE LookUp(t)
    <2>1. PICK same \in BOOLEAN, genuine \in BOOLEAN, age \in Ages :
            LET verdict == Admit(submission[t].who, same, age, genuine) IN
            \/ verdict # "Ok" /\ Ends(t, verdict)
            \/ verdict = "Ok" /\ Moves(t, "select")
      BY <1>3 DEF LookUp
    <2>2. Admit(submission[t].who, same, age, genuine)
            \in {"Transport", "UnknownApprover", "InvalidApproval", "Ok"}
      BY DEF Admit
    <2>3. CASE Moves(t, "select")
      BY <1>2, <2>3
    <2>4. ASSUME NEW v \in {"Transport", "UnknownApprover", "InvalidApproval"}, Ends(t, v)
          PROVE  PgInv'
      <3>1. /\ v \in Answers /\ v # "Inserted" /\ v # "AlreadyRecorded"
            /\ v # "DuplicateApproval"
        BY DEF Answers
      <3> QED
        BY <1>1, <2>4, <3>1, Zenon
    <2> QED
      BY <2>1, <2>2, <2>3, <2>4
  <1>4. CASE SelectRow(t)
    <2>1. CASE Row(t) = NoApproval /\ Moves(t, "insert")
      BY <1>2, <2>1
    <2>2. CASE /\ Row(t) # NoApproval /\ Row(t).id = submission[t].appr.id
               /\ Ends(t, "AlreadyRecorded")
      <3>1. "AlreadyRecorded" \in Answers /\ "AlreadyRecorded" # "Inserted"
        BY DEF Answers
      <3> QED
        BY <1>1, <2>2, <3>1, Zenon
    <2>3. CASE Row(t) # NoApproval /\ Ends(t, "DuplicateApproval")
      <3>1. /\ "DuplicateApproval" \in Answers /\ "DuplicateApproval" # "Inserted"
            /\ "DuplicateApproval" # "AlreadyRecorded"
        BY DEF Answers
      <3> QED
        BY <1>1, <2>3, <3>1, Zenon
    <2> QED
      BY <1>4, <2>1, <2>2, <2>3 DEF SelectRow
  <1>5. CASE InsertRow(t)
    <2>1. CASE /\ Row(t) = NoApproval /\ ~ IdTaken(submission[t].appr.id)
               /\ ~ InsertedElsewhere(t) /\ Moves(t, "commit")
      BY <1>2, <2>1
    <2>2. CASE /\ Row(t) # NoApproval \/ IdTaken(submission[t].appr.id)
               /\ Ends(t, "DuplicateApproval")
      <3>1. /\ "DuplicateApproval" \in Answers /\ "DuplicateApproval" # "Inserted"
            /\ "DuplicateApproval" # "AlreadyRecorded"
        BY DEF Answers
      <3> QED
        BY <1>1, <2>2, <3>1, Zenon
    <2> QED
      BY <1>5, <2>1, <2>2 DEF InsertRow
  <1>6. CASE AbandonApproval(t)
    <2>1. /\ "Io" \in Answers /\ "Io" # "Inserted" /\ "Io" # "AlreadyRecorded"
          /\ "Io" # "DuplicateApproval"
      BY DEF Answers
    <2>2. Ends(t, "Io")
      BY <1>6 DEF AbandonApproval
    <2> QED
      BY <1>1, <2>1, <2>2, Zenon
  <1> QED
    BY <1>3, <1>4, <1>5, <1>6

\* The commit stores a row for a key that had none and lists it.
LEMMA CommitEffect ==
  ASSUME PgInv, NEW t \in Submissions, CommitApproval(t)
  PROVE  LET r == submission[t].req
             a == submission[t].who
         IN  /\ r \in Requests /\ a \in Approvers /\ submission[t].appr \in Approvals
             /\ rows[r][a] = NoApproval /\ a \notin Listed(by_commit[r])
             /\ rows' = [rows EXCEPT ![r] = [@ EXCEPT ![a] = submission[t].appr]]
             /\ by_commit' = [by_commit EXCEPT ![r] = Append(@, a)]
  <1>1. /\ submission[t].req \in Requests /\ submission[t].who \in Approvers
        /\ submission[t].appr \in Approvals
    BY Started, Called DEF PgInv, CommitApproval
  <1>2. Row(t) = NoApproval
    BY DEF PgInv, OwnsKeys, Open, CommitApproval
  <1>3. submission[t].who \notin Listed(by_commit[submission[t].req])
    BY <1>1, <1>2 DEF PgInv, ListedIsStored, Row, Listed
  <1> QED
    BY <1>1, <1>2, <1>3 DEF CommitApproval, Row

\* What Append does to a listing.
LEMMA ListedAppend ==
  ASSUME NEW S, NEW s \in Seq(S), NEW a \in S
  PROVE  /\ Append(s, a) \in Seq(S)
         /\ \A i \in DOMAIN Append(s, a) :
              (i \in DOMAIN s /\ Append(s, a)[i] = s[i]) \/ Append(s, a)[i] = a
  OBVIOUS

\* The commit keeps PgInv: the row it stores is nobody else's.
LEMMA CommitKeeps ==
  ASSUME PgInv, NEW t \in Submissions, CommitApproval(t)
  PROVE  PgInv'
  <1> DEFINE r == submission[t].req
             a == submission[t].who
             p == submission[t].appr
  <1>0. /\ PgTypeOK /\ submission[t] # NotSubmitted
    BY SMTT(60), Started DEF PgInv, CommitApproval
  <1>1. /\ r \in Requests /\ a \in Approvers /\ p \in Approvals /\ p # NoApproval
        /\ rows[r][a] = NoApproval /\ a \notin Listed(by_commit[r])
        /\ rows' = [rows EXCEPT ![r] = [@ EXCEPT ![a] = p]]
        /\ by_commit' = [by_commit EXCEPT ![r] = Append(@, a)]
    BY <1>0, CommitEffect, Called
  <1>2. PICK outcome \in {"Inserted", "Io"} : Ends(t, outcome)
    BY DEF CommitApproval
  <1>3. /\ submission' \in [Submissions -> SubmissionStates]
        /\ submission'[t].pc = "done" /\ submission'[t].outcome = outcome
        /\ \A u \in Submissions : Same(t, u)
    <2>1. outcome \in Answers
      BY DEF Answers
    <2> QED
      BY <1>0, <1>2, <2>1, EndsEffect
  <1>4. /\ rows \in [Requests -> [Approvers -> Approvals \cup {NoApproval}]]
        /\ by_commit \in [Requests -> Seq(Approvers)]
    BY <1>0 DEF PgTypeOK
  <1>5. \A q \in Requests, b \in Approvers :
          rows'[q][b] = IF q = r /\ b = a THEN p ELSE rows[q][b]
    BY <1>1, <1>4
  <1>6. PgTypeOK'
    <2>1. rows' \in [Requests -> [Approvers -> Approvals \cup {NoApproval}]]
      BY <1>1, <1>4
    <2>2. by_commit' \in [Requests -> Seq(Approvers)]
      BY <1>1, <1>4
    <2> QED
      BY <1>3, <2>1, <2>2 DEF PgTypeOK
  <1>7. \A u \in Submissions : submission'[u].pc # "idle" /\ u # t =>
          submission[u].req \in Requests /\ submission[u].who \in Approvers
    BY <1>0, <1>3, Started, Called DEF Same
  <1>8. OwnsKeys'
    <2> SUFFICES ASSUME NEW u \in Submissions, Open(u)'
                 PROVE  /\ rows'[submission[u].req][submission[u].who] = NoApproval
                        /\ \A q \in Requests, b \in Approvers :
                             rows'[q][b] # NoApproval => rows'[q][b].id # submission[u].appr.id
      BY <1>3 DEF OwnsKeys, Row, IdTaken, Same
    <2>1. u # t /\ Open(u) /\ Open(t)
      BY <1>3 DEF Open, Same, CommitApproval
    <2>2. /\ p.id # submission[u].appr.id
          /\ <<r, a>> # <<submission[u].req, submission[u].who>>
      BY <2>1 DEF PgInv, KeysAreDisjoint
    <2>3. Row(u) = NoApproval /\ ~ IdTaken(submission[u].appr.id)
      BY <2>1 DEF PgInv, OwnsKeys
    <2>4. submission[u].req \in Requests /\ submission[u].who \in Approvers
      BY <1>7, <2>1 DEF Open, Same
    <2> QED
      BY <1>5, <2>2, <2>3, <2>4 DEF Row, IdTaken
  <1>9. KeysAreDisjoint'
    <2>1. \A u \in Submissions : Open(u)' => u # t /\ submission'[u] = submission[u]
      BY <1>3 DEF Open, Same
    <2> QED
      BY <2>1 DEF PgInv, KeysAreDisjoint, Open
  <1>10. ListedIsStored'
    <2> SUFFICES ASSUME NEW q \in Requests, NEW i \in DOMAIN by_commit'[q]
                 PROVE  rows'[q][by_commit'[q][i]] # NoApproval
      BY DEF ListedIsStored
    <2>1. by_commit[q] \in Seq(Approvers)
      BY SMTT(60), <1>4
    <2>2. \/ i \in DOMAIN by_commit[q] /\ by_commit'[q][i] = by_commit[q][i]
          \/ q = r /\ by_commit'[q][i] = a
      BY SMTT(60), <1>1, <1>4, <2>1, ListedAppend
    <2>3. CASE i \in DOMAIN by_commit[q] /\ by_commit'[q][i] = by_commit[q][i]
      <3>1. rows[q][by_commit[q][i]] # NoApproval /\ by_commit[q][i] \in Approvers
        BY SMTT(60), <2>1, <2>3 DEF PgInv, ListedIsStored
      <3> QED
        BY <1>1, <1>5, <2>3, <3>1
    <2>4. CASE q = r /\ by_commit'[q][i] = a
      BY <1>1, <1>5, <2>4
    <2> QED
      BY <2>2, <2>3, <2>4
  <1>11. ASSUME NEW u \in Submissions PROVE AnswerHolds(u)'
    <2>1. CASE u = t
      BY SMTT(60), <1>1, <1>2, <1>3, <1>5, <2>1 DEF AnswerHolds, Row, Same
    <2>2. CASE u # t /\ submission'[u].pc = "done"
      <3>1. submission'[u] = submission[u] /\ AnswerHolds(u)
        BY <1>3, <2>2 DEF Same, PgInv, PostgresAnswersHold, AnswerHolds
      <3>2. submission[u] # NotSubmitted
        BY <2>2, <3>1, Started
      <3>3. submission[u].req \in Requests /\ submission[u].who \in Approvers
            /\ submission[u].appr # NoApproval
        BY SMTT(60), <1>0, <3>2, Called
      <3>4. Row(u) # NoApproval => Row(u)' = Row(u)
        BY SMTT(60), <1>1, <1>5, <3>1, <3>3 DEF Row
      <3>5. IdTaken(submission[u].appr.id) => IdTaken(submission[u].appr.id)'
        BY <1>1, <1>5, <3>1 DEF IdTaken
      <3> QED
        BY <3>1, <3>3, <3>4, <3>5 DEF AnswerHolds
    <2>3. CASE submission'[u].pc # "done"
      BY <2>3 DEF AnswerHolds
    <2> QED
      BY SMTT(60), <2>1, <2>2, <2>3
  <1>12. PostgresAnswersHold'
    BY SMTT(60), <1>11 DEF PostgresAnswersHold, AnswerHolds
  <1> QED
    BY <1>6, <1>8, <1>9, <1>10, <1>12 DEF PgInv

\* A step that is not the submissions' leaves all of it as it was.
LEMMA StoreUnmoved ==
  ASSUME PgInv, UNCHANGED pgStoreVars
  PROVE  PgInv'
  BY DEF PgInv, PgTypeOK, OwnsKeys, KeysAreDisjoint, ListedIsStored, PostgresAnswersHold,
         pgStoreVars, Open, Row, IdTaken

\* PgInv is preserved by every step of the service.
LEMMA PgStep ==
  ASSUME PgInv, [ServiceNext]_serviceVars
  PROVE  PgInv'
  <1>1. ASSUME NEW t \in Submissions, StoreStep(t)
        PROVE  PgInv'
    BY <1>1, QueryKeeps, CommitKeeps DEF StoreStep
  <1>2. CASE SubmissionNext
    BY <1>1, <1>2, SubmitKeeps, QueryKeeps DEF SubmissionNext
  <1>3. CASE UNCHANGED pgStoreVars
    BY <1>3, StoreUnmoved
  <1> QED
    BY <1>2, <1>3 DEF ServiceNext, serviceVars

\* PgInv holds initially.
LEMMA PgInitInv ==
  ASSUME ServiceInit
  PROVE  PgInv
  <1>1. PgTypeOK
    BY DEF ServiceInit, PgStoreInit, PgTypeOK, SubmissionStates
  <1>2. \A t \in Submissions : submission[t].pc = "idle"
    BY DEF ServiceInit, PgStoreInit, NotSubmitted
  <1>3. \A r \in Requests : by_commit[r] = <<>>
    BY DEF ServiceInit, PgStoreInit
  <1> QED
    BY <1>1, <1>2, <1>3
    DEF PgInv, OwnsKeys, KeysAreDisjoint, ListedIsStored, PostgresAnswersHold, Open

\* PgInv holds in every state of the server.
THEOREM PgInvariance == ServiceSpec => []PgInv
  <1>1. ServiceInit => PgInv
    BY PgInitInv
  <1>2. PgInv /\ [ServiceNext]_serviceVars => PgInv'
    BY PgStep
  <1> QED
    BY <1>1, <1>2, PTL DEF ServiceSpec

\* What record_approval of the Postgres store answers stays true, for any number
\* of overlapping transactions (store/postgres.rs record_approval).
THEOREM PostgresTellsTheTruth == ServiceSpec => []PostgresAnswersHold
  <1>1. PgInv => PostgresAnswersHold
    BY DEF PgInv
  <1> QED
    BY <1>1, PgInvariance, PTL

\* The Postgres store implements the ledger that every ApprovalStore promises:
\* a commit is the ledger's RecordListed, every other step a stutter.
THEOREM PostgresImplementsLedger == ServiceSpec => PostgresStoreIsLedger
  <1>1. ServiceInit => PgLedger!LedgerInit
    BY DEF ServiceInit, PgStoreInit, PgLedger!LedgerInit
  <1>2. ASSUME PgInv, NEW t \in Submissions, CommitApproval(t)
        PROVE  PgLedger!LedgerNext
    <2>1. /\ submission[t].req \in Requests /\ submission[t].who \in Approvers
          /\ submission[t].appr \in Approvals
          /\ PgLedger!RecordListed(submission[t].req, submission[t].who, submission[t].appr)
      BY ZenonT(60), <1>2, CommitEffect DEF PgLedger!RecordListed, PgLedger!Listed, Listed
    <2> QED
      BY SMTT(60), <2>1 DEF PgLedger!LedgerNext, Approvals, PgLedger!Approvals, Decisions,
                  PgLedger!Decisions
  <1>3. PgInv /\ [ServiceNext]_serviceVars => [PgLedger!LedgerNext]_(PgLedger!ledgerVars)
    BY <1>2 DEF ServiceNext, SubmissionNext, StoreStep, Submit, LookUp, SelectRow, InsertRow,
                AbandonApproval, serviceVars, pgStoreVars, PgLedger!ledgerVars
  <1> QED
    BY <1>1, <1>3, PgInvariance, PTL
    DEF ServiceSpec, PostgresStoreIsLedger, PgLedger!LedgerSpec
-----------------------------------------------------------------------------
\* A call of create_approver_set that has passed its shape check and not ended.
Creating(c) == call[c].pc \in {"members", "walk", "insert"}

OpenCalls ==
  [pc : {"members", "walk", "insert"}, members : Seq(Approvers), checked : Nat, begun : Nat,
   revoked : SUBSET Approvers]

StoredSets ==
  [members : Seq(Approvers), begun : Nat, revoked : SUBSET Approvers, live : BOOLEAN]

RegistryTypeOK ==
  /\ backend \in {"memory", "postgres"}
  /\ approver \in [Approvers -> {"absent", "Active", "Revoked"}]
  /\ sets \in Seq(StoredSets)
  /\ DOMAIN call = Calls
  /\ \A c \in Calls : Creating(c) => call[c] \in OpenCalls

\* The members of a call up to `checked` were not revoked when it began, and
\* with Postgres, whose row locks it holds, they are still active.  Past the
\* checks it has looked at all of them.
CallInv(c) ==
  Creating(c) =>
    /\ call[c].pc = "members" => call[c].checked < Len(call[c].members)
    /\ call[c].pc # "members" => call[c].checked = Len(call[c].members)
    /\ \A a \in call[c].revoked : approver[a] = "Revoked"
    /\ \A i \in 1 .. call[c].checked :
         /\ call[c].members[i] \notin call[c].revoked
         /\ backend = "postgres" => approver[call[c].members[i]] = "Active"

\* A handler that began after its approver's revocation still finds them revoked
\* when it looks them up, so none gets past the look-up.
SubmissionInv(t) ==
  /\ submission[t].pc = "lookup" /\ submission[t].wasRevoked =>
       approver[submission[t].who] = "Revoked"
  /\ submission[t].pc \in {"select", "insert", "commit"} => ~ submission[t].wasRevoked

SetsInv ==
  /\ \A k \in DOMAIN sets : \A i \in DOMAIN sets[k].members :
       sets[k].members[i] \notin sets[k].revoked
  /\ backend = "postgres" => \A k \in DOMAIN sets : sets[k].live

RevocationInv ==
  /\ RegistryTypeOK /\ SetsInv
  /\ \A c \in Calls : CallInv(c)
  /\ \A t \in Submissions : SubmissionInv(t)

\* Approvers come and go: a revoked one stays revoked, and one whose row a call
\* has locked stays active.
LEMMA ApproverStep ==
  ASSUME RevocationInv, PgTypeOK, NEW a \in Approvers, AddApprover(a) \/ RevokeApprover(a),
         UNCHANGED pgStoreVars
  PROVE  RevocationInv'
  <1>1. /\ UNCHANGED <<backend, sets, call, submission>>
        /\ approver \in [Approvers -> {"absent", "Active", "Revoked"}]
        /\ approver' \in [Approvers -> {"absent", "Active", "Revoked"}]
        /\ \A b \in Approvers : approver[b] = "Revoked" => approver'[b] = "Revoked"
    BY DEF AddApprover, RevokeApprover, RevocationInv, RegistryTypeOK, pgStoreVars
  <1>2. RegistryTypeOK'
    BY <1>1 DEF RevocationInv, RegistryTypeOK, Creating
  <1>3. SetsInv'
    BY <1>1 DEF RevocationInv, SetsInv
  <1>4. ASSUME NEW c \in Calls, Creating(c), backend = "postgres", NEW i \in 1 .. call[c].checked
        PROVE  approver'[call[c].members[i]] = "Active"
    <2>1. /\ call[c] \in OpenCalls /\ i \in DOMAIN call[c].members
          /\ approver[call[c].members[i]] = "Active"
      BY <1>4 DEF RevocationInv, CallInv, RegistryTypeOK, Creating, OpenCalls
    <2>2. call[c].members[i] \in Approvers
      BY <2>1 DEF OpenCalls
    <2>3. CASE AddApprover(a)
      BY <1>1, <2>1, <2>2, <2>3 DEF AddApprover
    <2>4. CASE RevokeApprover(a)
      <3>1. call[c].members[i] \in Locked(c)
        BY <1>4 DEF Locked, Creating
      <3>2. call[c].members[i] # a
        BY <2>4, <3>1 DEF RevokeApprover
      <3> QED
        BY <1>1, <2>1, <2>2, <2>4, <3>2 DEF RevokeApprover
    <2> QED
      BY <2>3, <2>4
  <1>5. ASSUME NEW c \in Calls, Creating(c)
        PROVE  \A b \in call[c].revoked : approver'[b] = "Revoked"
    BY SMTT(60), <1>1, <1>5 DEF RevocationInv, CallInv, RegistryTypeOK, OpenCalls
  <1>6. \A c \in Calls : CallInv(c)'
    BY <1>1, <1>4, <1>5 DEF RevocationInv, CallInv, Creating
  <1>7. \A t \in Submissions : SubmissionInv(t)'
    <2> TAKE t \in Submissions
    <2>1. submission[t].pc = "lookup" => submission[t].who \in Approvers
      BY Started, Called
    <2> QED
      BY <1>1, <2>1 DEF RevocationInv, SubmissionInv
  <1> QED
    BY <1>2, <1>3, <1>6, <1>7 DEF RevocationInv

\* A step of one call that stores nothing keeps RevocationInv when that call
\* ends or comes to satisfy CallInv.
LEMMA CallMoves ==
  ASSUME RevocationInv, NEW c \in Calls, UNCHANGED <<backend, approver, sets, submission>>,
         NEW k, call' = [call EXCEPT ![c] = k],
         k.pc = "done" \/ (k \in OpenCalls /\ CallInv(c)')
  PROVE  RevocationInv'
  <1>1. /\ DOMAIN call' = Calls /\ call'[c] = k
        /\ \A d \in Calls : d # c => call'[d] = call[d]
    BY DEF RevocationInv, RegistryTypeOK
  <1>2. RegistryTypeOK'
    BY SMTT(60), <1>1 DEF RevocationInv, RegistryTypeOK, Creating
  <1>3. \A d \in Calls : CallInv(d)'
    BY <1>1 DEF RevocationInv, CallInv, Creating
  <1> QED
    BY <1>2, <1>3 DEF RevocationInv, SetsInv, SubmissionInv

\* A call that answers is done.
LEMMA AnswerKeeps ==
  ASSUME RevocationInv, NEW c \in Calls, UNCHANGED <<backend, approver, sets, submission>>,
         NEW answer, Answered(c, answer)
  PROVE  RevocationInv'
  <1>1. [pc |-> "done", answer |-> answer].pc = "done"
    OBVIOUS
  <1> QED
    BY <1>1, CallMoves DEF Answered

\* A member list of the registry is a sequence of approvers.
LEMMA MemberListType ==
  ASSUME NEW m \in MemberLists
  PROVE  m \in Seq(Approvers)
  BY RegistryAssumption DEF MemberLists

\* The call begins: the shape check leaves it with at least one member.
LEMMA BeginKeeps ==
  ASSUME RevocationInv, NEW c \in Calls, NEW m \in MemberLists, NEW threshold \in Thresholds,
         NEW total \in Thresholds, BeginCreate(c, m, threshold, total), UNCHANGED pgStoreVars
  PROVE  RevocationInv'
  <1> DEFINE revoked == {a \in Approvers : approver[a] = "Revoked"}
             k == [pc |-> "members", members |-> m, checked |-> 0, begun |-> Len(sets),
                   revoked |-> revoked]
  <1>0. UNCHANGED <<backend, approver, sets, submission>>
    BY DEF BeginCreate, pgStoreVars
  <1>1. ASSUME NEW answer, Answered(c, answer) PROVE RevocationInv'
    BY <1>0, <1>1, AnswerKeeps
  <1>2. CASE validate_set_shape(m, threshold, total) = "Ok" /\ call' = [call EXCEPT ![c] = k]
    <2>1. threshold \in Nat /\ total \in Nat /\ m \in Seq(Approvers) /\ Len(sets) \in Nat
      BY RegistryAssumption, MemberListType DEF RevocationInv, RegistryTypeOK
    <2>2. 0 < Len(m)
      BY <1>2, <2>1 DEF validate_set_shape
    <2>3. k \in OpenCalls
      BY <2>1 DEF OpenCalls
    <2>4. call'[c] = k
      BY <1>2 DEF RevocationInv, RegistryTypeOK
    <2>5. CallInv(c)'
      BY <1>0, <2>1, <2>2, <2>4 DEF CallInv, Creating
    <2> QED
      BY ZenonT(60), <1>0, <1>2, <2>3, <2>5, CallMoves
  <1> QED
    BY <1>1, <1>2 DEF BeginCreate

\* What is known of an open call.
LEMMA OpenCall ==
  ASSUME RevocationInv, NEW c \in Calls, Creating(c)
  PROVE  /\ call[c] \in OpenCalls /\ CallInv(c)
         /\ call[c].members \in Seq(Approvers) /\ call[c].checked \in Nat
         /\ Len(call[c].members) \in Nat
         /\ DOMAIN call[c].members = 1 .. Len(call[c].members)
         /\ \A i \in 1 .. Len(call[c].members) : call[c].members[i] \in Approvers
  <1>1. call[c] \in OpenCalls /\ CallInv(c)
    BY DEF RevocationInv, RegistryTypeOK
  <1> QED
    BY <1>1 DEF OpenCalls

\* In memory all members are checked at once, in Postgres one after the other.
LEMMA MembersKeep ==
  ASSUME RevocationInv, NEW c \in Calls, CheckMembers(c) \/ LockMember(c),
         UNCHANGED pgStoreVars
  PROVE  RevocationInv'
  <1>0. UNCHANGED <<backend, approver, sets, submission>> /\ Creating(c)
    BY DEF CheckMembers, LockMember, pgStoreVars, Creating
  <1>1. ASSUME NEW answer, Answered(c, answer) PROVE RevocationInv'
    BY SMTT(60), <1>0, <1>1, AnswerKeeps
  <1>2. /\ call[c] \in OpenCalls /\ CallInv(c)
        /\ call[c].members \in Seq(Approvers) /\ call[c].checked \in Nat
        /\ Len(call[c].members) \in Nat
        /\ DOMAIN call[c].members = 1 .. Len(call[c].members)
        /\ \A i \in 1 .. Len(call[c].members) : call[c].members[i] \in Approvers
    BY <1>0, OpenCall
  <1>3. \A a \in Approvers : MemberVerdict(a) = "Ok" => approver[a] = "Active"
    BY DEF MemberVerdict, RevocationInv, RegistryTypeOK
  <1>4. ASSUME NEW n \in 1 .. Len(call[c].members), NEW pc \in {"members", "walk"},
               call[c].pc = "members",
               pc = "members" => n < Len(call[c].members),
               pc = "walk" => n = Len(call[c].members),
               \A i \in 1 .. n : i <= call[c].checked \/ approver[call[c].members[i]] = "Active",
               call' = [call EXCEPT ![c] = [call[c] EXCEPT !.pc = pc, !.checked = n]]
        PROVE  RevocationInv'
    <2> DEFINE k == [call[c] EXCEPT !.pc = pc, !.checked = n]
    <2>0. n \in Nat /\ call[c] \in OpenCalls
      BY <1>2
    <2>1. /\ k \in OpenCalls /\ k.pc = pc /\ k.checked = n
          /\ k.members = call[c].members /\ k.revoked = call[c].revoked
      BY <2>0 DEF OpenCalls
    <2>2. call'[c] = k
      BY <1>4 DEF RevocationInv, RegistryTypeOK
    <2>3. \A a \in call[c].revoked : approver[a] = "Revoked"
      BY <1>0, <1>2 DEF CallInv
    <2>4. \A i \in 1 .. n : /\ call[c].members[i] \notin call[c].revoked
                            /\ backend = "postgres" => approver[call[c].members[i]] = "Active"
      <3> TAKE i \in 1 .. n
      <3>1. CASE i <= call[c].checked
        BY SMTT(60), <1>0, <1>2, <3>1 DEF CallInv
      <3>2. CASE approver[call[c].members[i]] = "Active"
        BY <2>3, <3>2
      <3> QED
        BY <1>4, <3>1, <3>2
    <2> HIDE DEF k
    <2>5. CallInv(c)'
      BY <1>0, <1>4, <2>1, <2>2, <2>3, <2>4, Zenon DEF CallInv
    <2> USE DEF k
    <2> QED
      BY <1>0, <1>4, <2>1, <2>5, CallMoves
  <1>5. CASE CheckMembers(c)
    <2> DEFINE bad == {i \in DOMAIN call[c].members : MemberVerdict(call[c].members[i]) # "Ok"}
    <2>1. CASE /\ bad = {}
               /\ call' = [call EXCEPT ![c] = [call[c] EXCEPT !.pc = "walk",
                                                 !.checked = Len(call[c].members)]]
      <3>1. \A i \in 1 .. Len(call[c].members) : approver[call[c].members[i]] = "Active"
        BY <1>2, <1>3, <2>1
      <3>2. Len(call[c].members) \in 1 .. Len(call[c].members) /\ call[c].pc = "members"
        BY <1>0, <1>2, <1>5 DEF CallInv, CheckMembers
      <3> QED
        BY <1>4, <2>1, <3>1, <3>2
    <2> QED
      BY <1>1, <1>5, <2>1 DEF CheckMembers
  <1>6. CASE LockMember(c)
    <2> DEFINE n == call[c].checked + 1
               pc == IF n = Len(call[c].members) THEN "walk" ELSE "members"
    <2>1. CASE /\ MemberVerdict(call[c].members[n]) = "Ok"
               /\ call' = [call EXCEPT ![c] = [call[c] EXCEPT !.checked = n, !.pc = pc]]
      <3>1. call[c].pc = "members" /\ n \in 1 .. Len(call[c].members)
        BY <1>0, <1>2, <1>6 DEF CallInv, LockMember
      <3>2. approver[call[c].members[n]] = "Active"
        BY <1>2, <1>3, <2>1, <3>1
      <3>3. \A i \in 1 .. n : i <= call[c].checked \/ approver[call[c].members[i]] = "Active"
        BY <1>2, <3>2
      <3>4. [call[c] EXCEPT !.checked = n, !.pc = pc] = [call[c] EXCEPT !.pc = pc, !.checked = n]
        BY <1>2 DEF OpenCalls
      <3>5. /\ pc \in {"members", "walk"}
            /\ pc = "members" => n < Len(call[c].members)
            /\ pc = "walk" => n = Len(call[c].members)
        BY <1>2, <3>1
      <3> HIDE DEF n, pc
      <3> QED
        BY ZenonT(60), <1>4, <2>1, <3>1, <3>3, <3>4, <3>5
    <2> QED
      BY SMTT(60), <1>1, <1>6, <2>1 DEF LockMember
  <1> QED
    BY <1>5, <1>6

\* The walk over the nested wallets changes nothing but where the call is.
LEMMA WalkKeeps ==
  ASSUME RevocationInv, NEW c \in Calls, WalkSets(c), UNCHANGED pgStoreVars
  PROVE  RevocationInv'
  <1>0. /\ UNCHANGED <<backend, approver, sets, submission>> /\ Creating(c)
        /\ call[c].pc = "walk"
    BY DEF WalkSets, pgStoreVars, Creating
  <1>1. ASSUME NEW answer, Answered(c, answer) PROVE RevocationInv'
    BY <1>0, <1>1, AnswerKeeps
  <1>2. CASE call' = [call EXCEPT ![c] = [call[c] EXCEPT !.pc = "insert"]]
    <2> DEFINE k == [call[c] EXCEPT !.pc = "insert"]
    <2>1. call[c] \in OpenCalls /\ CallInv(c)
      BY <1>0, OpenCall
    <2>2. /\ k \in OpenCalls /\ k.pc = "insert" /\ k.checked = call[c].checked
          /\ k.members = call[c].members /\ k.revoked = call[c].revoked
      BY <2>1 DEF OpenCalls
    <2>3. call'[c] = k
      BY <1>2 DEF RevocationInv, RegistryTypeOK
    <2> HIDE DEF k
    <2>4. "insert" # "members" /\ "walk" # "members"
      OBVIOUS
    <2>5. CallInv(c)'
      BY <1>0, <2>1, <2>2, <2>3, <2>4, Zenon DEF CallInv
    <2> USE DEF k
    <2> QED
      BY ZenonT(60), <1>0, <1>2, <2>2, <2>5, CallMoves
  <1> QED
    BY <1>1, <1>2 DEF WalkSets

\* The insert stores a set whose members were all checked.
LEMMA InsertKeeps ==
  ASSUME RevocationInv, NEW c \in Calls, InsertSet(c), UNCHANGED pgStoreVars
  PROVE  RevocationInv'
  <1>0. /\ UNCHANGED <<backend, approver, submission>> /\ Creating(c)
        /\ call[c].pc = "insert" /\ sets \in Seq(StoredSets)
    BY DEF InsertSet, pgStoreVars, Creating, RevocationInv, RegistryTypeOK
  <1>1. /\ call[c] \in OpenCalls /\ CallInv(c)
        /\ DOMAIN call[c].members = 1 .. Len(call[c].members)
    BY SMTT(60), <1>0, OpenCall
  <1>2. /\ call[c].checked = Len(call[c].members)
        /\ \A i \in DOMAIN call[c].members :
             /\ call[c].members[i] \notin call[c].revoked
             /\ backend = "postgres" => approver[call[c].members[i]] = "Active"
    <2>1. call[c].checked = Len(call[c].members)
      BY <1>0, <1>1 DEF CallInv
    <2> QED
      BY SMTT(60), <1>0, <1>1, <2>1 DEF CallInv
  <1>3. PICK live \in {TRUE, FALSE} :
          /\ backend = "postgres" => live = TRUE
          /\ sets' = Append(sets, [members |-> call[c].members, begun |-> call[c].begun,
                                   revoked |-> call[c].revoked, live |-> live])
    <2>1. PICK live \in {TRUE, FALSE} :
            live = (\A i \in DOMAIN call[c].members : approver[call[c].members[i]] = "Active")
      OBVIOUS
    <2>2. sets' = Append(sets, [members |-> call[c].members, begun |-> call[c].begun,
                                revoked |-> call[c].revoked, live |-> live])
      BY <2>1, Zenon DEF InsertSet
    <2> QED
      BY <1>2, <2>1, <2>2, Zenon
  <1> DEFINE s == [members |-> call[c].members, begun |-> call[c].begun,
                   revoked |-> call[c].revoked, live |-> live]
  <1>4. s \in StoredSets /\ s.members = call[c].members /\ s.revoked = call[c].revoked
        /\ s.live = live
    BY ZenonT(60), <1>1 DEF OpenCalls, StoredSets
  <1> HIDE DEF s
  <1>5. /\ sets' \in Seq(StoredSets)
        /\ \A j \in DOMAIN sets' : (j \in DOMAIN sets /\ sets'[j] = sets[j]) \/ sets'[j] = s
    BY <1>0, <1>3, <1>4, ListedAppend DEF s
  <1>6. SetsInv'
    <2>1. SetsInv
      BY DEF RevocationInv
    <2>2. ASSUME NEW j \in DOMAIN sets'
          PROVE  /\ \A i \in DOMAIN sets'[j].members :
                      sets'[j].members[i] \notin sets'[j].revoked
                 /\ backend = "postgres" => sets'[j].live
      BY <1>2, <1>3, <1>4, <1>5, <2>1, <2>2, Zenon DEF SetsInv
    <2> QED
      BY <1>0, <2>2, Zenon DEF SetsInv
  <1>7. PICK answer : call' = [call EXCEPT ![c] = [pc |-> "done", answer |-> answer]]
    BY DEF InsertSet, Answered
  <1>8. /\ DOMAIN call' = Calls /\ call'[c].pc = "done"
        /\ \A d \in Calls : d # c => call'[d] = call[d]
    BY <1>7 DEF RevocationInv, RegistryTypeOK
  <1>9. RegistryTypeOK'
    BY <1>0, <1>5, <1>8 DEF RevocationInv, RegistryTypeOK, Creating
  <1>10. \A d \in Calls : CallInv(d)'
    BY <1>0, <1>8 DEF RevocationInv, CallInv, Creating
  <1> QED
    BY <1>0, <1>6, <1>9, <1>10 DEF RevocationInv, SubmissionInv

\* A step of the submissions: only the look-up lets one through.
LEMMA SubmissionStep ==
  ASSUME RevocationInv, PgTypeOK, SubmissionNext
  PROVE  RevocationInv'
  <1>0. /\ UNCHANGED registryVars
        /\ approver \in [Approvers -> {"absent", "Active", "Revoked"}]
    BY SMTT(60) DEF SubmissionNext, Submit, LookUp, StoreStep, registryVars, RevocationInv, RegistryTypeOK
  <1>1. ASSUME \A u \in Submissions : SubmissionInv(u)'
        PROVE  RevocationInv'
    BY <1>0, <1>1 DEF registryVars, RevocationInv, RegistryTypeOK, SetsInv, CallInv, Creating
  <1>2. ASSUME NEW t \in Submissions, NEW r \in Requests, NEW a \in Approvers,
               NEW p \in Approvals, Submit(t, r, a, p), NEW u \in Submissions
        PROVE  SubmissionInv(u)'
    <2>1. PICK b \in {TRUE, FALSE} : b = (approver[a] = "Revoked")
      OBVIOUS
    <2>2. submission' = [submission EXCEPT ![t] =
            [pc |-> "lookup", req |-> r, who |-> a, appr |-> p, outcome |-> "none",
             wasRevoked |-> b]]
      BY <1>2, <2>1, Zenon DEF Submit
    <2>3. CASE u = t
      <3>1. /\ submission'[u].pc = "lookup" /\ submission'[u].who = a
            /\ submission'[u].wasRevoked = b
        BY <2>2, <2>3 DEF PgTypeOK
      <3>2. "lookup" \notin {"select", "insert", "commit"}
        OBVIOUS
      <3> QED
        BY <1>0, <2>1, <3>1, <3>2, Zenon DEF SubmissionInv, registryVars
    <2>4. CASE u # t
      BY <1>0, <2>2, <2>4 DEF PgTypeOK, RevocationInv, SubmissionInv, registryVars
    <2> QED
      BY <2>3, <2>4
  <1>3. ASSUME NEW t \in Submissions, submission[t] # NotSubmitted,
               submission'[t].pc # "lookup",
               submission'[t].pc \in {"select", "insert", "commit"} => ~ submission[t].wasRevoked,
               \A u \in Submissions : Same(t, u),
               NEW u \in Submissions
        PROVE  SubmissionInv(u)'
    BY <1>0, <1>3 DEF Same, RevocationInv, SubmissionInv, registryVars
  <1>4. ASSUME NEW t \in Submissions, NEW outcome \in Answers, submission[t] # NotSubmitted,
               Ends(t, outcome), NEW u \in Submissions
        PROVE  SubmissionInv(u)'
    BY <1>3, <1>4, EndsEffect
  <1>5. ASSUME NEW t \in Submissions, NEW pc \in {"select", "insert", "commit"},
               submission[t] # NotSubmitted, Moves(t, pc), ~ submission[t].wasRevoked,
               NEW u \in Submissions
        PROVE  SubmissionInv(u)'
    BY SMTT(60), <1>3, <1>5, MovesEffect
  <1>6. ASSUME NEW t \in Submissions, LookUp(t), NEW u \in Submissions
        PROVE  SubmissionInv(u)'
    <2>0. submission[t] # NotSubmitted /\ submission[t].pc = "lookup"
      BY SMTT(60), <1>6, Started DEF LookUp
    <2>1. PICK same \in BOOLEAN, genuine \in BOOLEAN, age \in Ages :
            LET verdict == Admit(submission[t].who, same, age, genuine) IN
            \/ verdict # "Ok" /\ Ends(t, verdict)
            \/ verdict = "Ok" /\ Moves(t, "select")
      BY <1>6 DEF LookUp
    <2>2. Admit(submission[t].who, same, age, genuine) \in Answers \cup {"Ok"}
      BY DEF Admit, Answers
    <2>3. Admit(submission[t].who, same, age, genuine) = "Ok" =>
            approver[submission[t].who] # "Revoked"
      BY DEF Admit
    <2>4. approver[submission[t].who] # "Revoked" => ~ submission[t].wasRevoked
      BY <2>0 DEF RevocationInv, SubmissionInv
    <2> QED
      BY SMTT(60), <1>4, <1>5, <2>0, <2>1, <2>2, <2>3, <2>4
  <1>7. ASSUME NEW t \in Submissions, StoreStep(t), NEW u \in Submissions
        PROVE  SubmissionInv(u)'
    <2>0. submission[t] # NotSubmitted /\ ~ submission[t].wasRevoked
      BY SMTT(60), <1>7, Started DEF StoreStep, SelectRow, InsertRow, CommitApproval, AbandonApproval,
                           RevocationInv, SubmissionInv
    <2>1. \/ \E outcome \in Answers : Ends(t, outcome)
          \/ \E pc \in {"select", "insert", "commit"} : Moves(t, pc)
      BY <1>7 DEF StoreStep, SelectRow, InsertRow, CommitApproval, AbandonApproval, Answers
    <2> QED
      BY SMTT(60), <1>4, <1>5, <2>0, <2>1
  <1> QED
    BY SMTT(60), <1>1, <1>2, <1>6, <1>7 DEF SubmissionNext

\* Every step of the server keeps RevocationInv.
LEMMA RevocationStep ==
  ASSUME RevocationInv, PgTypeOK, [ServiceNext]_serviceVars
  PROVE  RevocationInv'
  <1>1. CASE SubmissionNext
    BY <1>1, SubmissionStep
  <1>2. CASE RegistryNext /\ UNCHANGED pgStoreVars
    <2>1. ASSUME NEW c \in Calls, AbandonCreate(c)
          PROVE  RevocationInv'
      BY SMTT(60), <1>2, <2>1, AnswerKeeps DEF AbandonCreate, pgStoreVars
    <2> QED
      BY <1>2, <2>1, ApproverStep, BeginKeeps, MembersKeep, WalkKeeps, InsertKeeps
      DEF RegistryNext
  <1>3. CASE UNCHANGED serviceVars
    BY <1>3 DEF serviceVars, registryVars, pgStoreVars, RevocationInv, RegistryTypeOK, SetsInv,
                CallInv, SubmissionInv, Creating
  <1> QED
    BY <1>1, <1>2, <1>3 DEF ServiceNext

\* A revocation that has returned is respected by every later submission and
\* every later set, for any number of approvers and of calls that overlap
\* (service.rs record_approval, registry/memory.rs and registry/postgres.rs).
THEOREM RevocationsAreRespected == ServiceSpec => []RevocationIsRespected
  <1>1. ServiceInit => RevocationInv
    <2> SUFFICES ASSUME ServiceInit PROVE RevocationInv
      OBVIOUS
    <2>1. /\ \A c \in Calls : call[c].pc = "idle"
          /\ \A t \in Submissions : submission[t].pc = "idle"
          /\ sets = <<>>
      BY DEF ServiceInit, RegistryInit, PgStoreInit, Pending, NotSubmitted
    <2>2. RegistryTypeOK
      BY <2>1 DEF ServiceInit, RegistryInit, RegistryTypeOK, Creating
    <2> QED
      BY <2>1, <2>2 DEF RevocationInv, SetsInv, CallInv, SubmissionInv, Creating
  <1>2. RevocationInv /\ PgInv /\ [ServiceNext]_serviceVars => RevocationInv'
    BY RevocationStep DEF PgInv
  <1>3. RevocationInv => RevocationIsRespected
    BY DEF RevocationInv, SubmissionInv, SetsInv, RevocationIsRespected
  <1> QED
    BY <1>1, <1>2, <1>3, PgInvariance, PTL DEF ServiceSpec
=============================================================================
