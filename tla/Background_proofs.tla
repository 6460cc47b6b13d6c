------------------------- MODULE Background_proofs -------------------------
(***************************************************************************)
(* What holds of the work that goes on behind people's backs: of the       *)
(* agents' queue, for every number of conversations, services, requests    *)
(* and rows, and any length of lease; of schedules, for every set of them, *)
(* every period and every bound (a slot has one ticket, and only an active *)
(* schedule has a slot); of the notifications that pages live on, for any  *)
(* projects, pages, writes and faults.  The three share no state.          *)
(***************************************************************************)
EXTENDS AgentJobs, Schedules, LiveUpdates, WellFoundedInduction, TLAPS

-----------------------------------------------------------------------------
(* The agents' queue: the inductive invariant. *)

\* A row that is used names a conversation.
UsedRowsAreFiled == \A j \in Jobs : job[j].status # "none" => job[j].conv \in Convs

\* A run is on the service its conversation is pinned to.
RunsArePinned ==
    \A j \in Running(job) : /\ job[j].by \in Services
                            /\ conv[job[j].conv].service = job[j].by

\* A turn that is asked and not answered is the last thing said.
QuestionIsLast ==
    \A j \in Jobs : job[j].status \in Unfinished /\ job[j].conv \in Chats \cup Bugs =>
        LET s == said[job[j].conv]
        IN  Len(s) > 0 /\ s[Len(s)] = [role |-> "user", job |-> j]

JobsInv ==
    /\ JobsTypeOK /\ UsedRowsAreFiled /\ RunsArePinned /\ QuestionIsLast
    /\ OneTurnAtATime /\ OneRunPerService /\ ThreadStaysHome
    /\ RepliesFollowQuestions /\ RequestRunsOnce

-----------------------------------------------------------------------------
(* Rows that fade: they keep what they are, and may only end. *)

Fades(rows) ==
    /\ rows \in [Jobs -> Rows]
    /\ \A j \in Jobs :
        /\ rows[j].conv = job[j].conv /\ rows[j].by = job[j].by
        /\ rows[j].asker = job[j].asker /\ rows[j].request = job[j].request
        /\ \/ rows[j].status = job[j].status
           \/ job[j].status \in Unfinished /\ rows[j].status \in Finished

LEMMA EndedRows ==
    ASSUME NEW row \in Rows, NEW status \in Finished
    PROVE  /\ Ended(row, status) \in Rows
           /\ Ended(row, status).conv = row.conv /\ Ended(row, status).by = row.by
           /\ Ended(row, status).asker = row.asker /\ Ended(row, status).request = row.request
           /\ Ended(row, status).result = row.result /\ Ended(row, status).status = status
           /\ Ended(row, status).cancelled = row.cancelled
<1>1. 0 \in 0 .. Lease /\ 0 \in 0 .. MaxRun
  BY JobsAssumption
<1> QED BY <1>1 DEF Ended, Rows

\* What expires only fades.
LEMMA ExpiredFades == JobsTypeOK => Fades(Expired)
<1> SUFFICES ASSUME JobsTypeOK
             PROVE  Fades(Expired)
  OBVIOUS
<1>1. ASSUME NEW j \in Jobs
      PROVE  /\ Expired[j] \in Rows
             /\ Expired[j].conv = job[j].conv /\ Expired[j].by = job[j].by
             /\ Expired[j].asker = job[j].asker /\ Expired[j].request = job[j].request
             /\ \/ Expired[j].status = job[j].status
                \/ job[j].status \in Unfinished /\ Expired[j].status \in Finished
  <2>1. job[j] \in Rows /\ "failed" \in Finished
    BY DEF JobsTypeOK, Finished
  <2>2. CASE TimeIsUp(j) \/ Interrupted(j)
    <3>1. Expired[j] = Ended(job[j], "failed")
      BY <2>2 DEF Expired
    <3>2. job[j].status \in Unfinished
      BY <2>2 DEF TimeIsUp, Interrupted, Unfinished
    <3> QED BY <2>1, <3>1, <3>2, EndedRows
  <2>3. CASE ~(TimeIsUp(j) \/ Interrupted(j))
    BY <2>1, <2>3 DEF Expired
  <2> QED BY <2>2, <2>3
<1>2. Expired = [j \in Jobs |-> Expired[j]]
  BY DEF Expired
<1> QED BY <1>1, <1>2 DEF Fades

\* So do the queued jobs of a conversation that are superseded, after which
\* nothing in it is queued.
LEMMA SupersededFades ==
    ASSUME JobsTypeOK, NEW c \in Convs
    PROVE  /\ Fades(Superseded(c))
           /\ \A j \in Jobs : job[j].conv = c => Superseded(c)[j].status # "queued"
<1>1. ASSUME NEW j \in Jobs
      PROVE  /\ Superseded(c)[j] \in Rows
             /\ Superseded(c)[j].conv = job[j].conv /\ Superseded(c)[j].by = job[j].by
             /\ Superseded(c)[j].asker = job[j].asker
             /\ Superseded(c)[j].request = job[j].request
             /\ \/ Superseded(c)[j].status = job[j].status
                \/ job[j].status \in Unfinished /\ Superseded(c)[j].status \in Finished
             /\ job[j].conv = c => Superseded(c)[j].status # "queued"
  <2>1. job[j] \in Rows /\ "failed" \in Finished
    BY DEF JobsTypeOK, Finished
  <2>2. CASE job[j].conv = c /\ job[j].status = "queued"
    <3>1. Superseded(c)[j] = Ended(job[j], "failed")
      BY <2>2 DEF Superseded
    <3> QED BY <2>1, <2>2, <3>1, EndedRows DEF Unfinished, Finished
  <2>3. CASE ~(job[j].conv = c /\ job[j].status = "queued")
    BY <2>1, <2>3 DEF Superseded
  <2> QED BY <2>2, <2>3
<1>2. Superseded(c) = [j \in Jobs |-> Superseded(c)[j]]
  BY DEF Superseded
<1> QED BY <1>1, <1>2 DEF Fades

\* A step in which rows fade, and of which a conversation notices at most a
\* thread, keeps the invariant.
LEMMA FadeStep ==
    ASSUME JobsInv, Fades(job'), UNCHANGED <<coalesced, said>>,
           conv' \in [Convs -> Pins], \A c \in Convs : conv'[c].service = conv[c].service,
           ThreadStaysHome',
           frozen' \in BOOLEAN, shelved' \subseteq Bugs, switches' \in Nat
    PROVE  JobsInv'
<1> USE DEF JobsInv
<1>1. JobsTypeOK'
  BY DEF JobsTypeOK, Fades
<1>2. UsedRowsAreFiled'
  BY DEF UsedRowsAreFiled, Fades, Unfinished
<1>3. RunsArePinned'
  BY DEF RunsArePinned, UsedRowsAreFiled, Fades, Running, Finished
<1>4. QuestionIsLast'
  BY DEF QuestionIsLast, Fades, Unfinished, Finished
<1>5. OneTurnAtATime'
  BY DEF OneTurnAtATime, Active, OfConv, Fades, Unfinished, Finished
<1>6. OneRunPerService'
  BY DEF OneRunPerService, Running, Fades, Finished
<1>7. RepliesFollowQuestions'
  BY DEF RepliesFollowQuestions
<1>8. RequestRunsOnce'
  <2>1. \A c, a, q : OfConv(job', c) = OfConv(job, c)
    BY DEF OfConv, Fades
  <2>2. \A c, a, q : Serving(c, a, q)' = Serving(c, a, q)
    BY <2>1 DEF Serving, OfConv, Fades
  <2> QED BY <2>2 DEF RequestRunsOnce
<1> QED BY <1>1, <1>2, <1>3, <1>4, <1>5, <1>6, <1>7, <1>8

-----------------------------------------------------------------------------
(* A job joins the queue. *)

LEMMA QueuedIsARow ==
    ASSUME NEW c \in Convs, NEW a \in Actors, NEW q \in Requests
    PROVE  /\ Queued(c, a, q) \in Rows
           /\ Queued(c, a, q).status = "queued" /\ Queued(c, a, q).conv = c
           /\ Queued(c, a, q).asker = a /\ Queued(c, a, q).request = q
<1>1. 0 \in 0 .. Lease /\ 0 \in 0 .. MaxRun
  BY JobsAssumption
<1> QED BY <1>1 DEF Queued, NoRow, Rows, Unfinished

\* A step that adds the row j, of a conversation in which nothing else waits or
\* runs and of a request nothing else serves.
Queues(rows, j, c, a, q) ==
    /\ Fades(rows) /\ NextRow(j)
    /\ job' = [rows EXCEPT ![j] = Queued(c, a, q)]
    /\ \A i \in Jobs : job[i].conv = c => rows[i].status \notin Unfinished
    /\ Serving(c, a, q) = {}
    /\ IF c \in Chats \cup Bugs THEN Say(c, "user", j) ELSE UNCHANGED said
    /\ conv' \in {conv, [conv EXCEPT ![c] = Unpinned]}
    /\ UNCHANGED <<coalesced, frozen, shelved, switches>>

\* The new row is the conversation's only turn and the request's only row, and
\* its question is the last thing said.
LEMMA QueueStep ==
    ASSUME JobsInv, NEW rows, NEW j \in Jobs,
           NEW c \in Convs, NEW a \in Actors, NEW q \in Requests,
           Queues(rows, j, c, a, q)
    PROVE  JobsInv'
<1> USE DEF JobsInv, Queues
<1>1. /\ job'[j].status = "queued" /\ job'[j].conv = c
      /\ job'[j].asker = a /\ job'[j].request = q
      /\ \A i \in Jobs : i # j => job'[i] = rows[i]
      /\ job' \in [Jobs -> Rows]
  BY QueuedIsARow DEF Fades
<1>2. job[j].status = "none" /\ job[j].conv = NoJob /\ NoJob \notin Convs
  BY JobsAssumption DEF NextRow, NoRow
<1>3. \A i \in Jobs : i # j =>
        /\ job'[i].conv = job[i].conv /\ job'[i].by = job[i].by
        /\ job'[i].asker = job[i].asker /\ job'[i].request = job[i].request
        /\ job'[i].status \in Unfinished =>
            job'[i].status = job[i].status /\ job[i].conv # c
  BY <1>1 DEF Fades, Unfinished, Finished
<1>4. ASSUME c \in Chats \cup Bugs
      PROVE  /\ said' = [said EXCEPT ![c] = Append(said[c], [role |-> "user", job |-> j])]
             /\ said[c] \in Seq([role : {"user", "assistant"}, job : Jobs])
  BY <1>4 DEF Say, JobsTypeOK
<1>0. conv' = conv \/ conv' = [conv EXCEPT ![c] = Unpinned]
  OBVIOUS
<1>5. JobsTypeOK'
  <2>1. conv' \in [Convs -> Pins]
    <3>1. Unpinned \in Pins /\ conv \in [Convs -> Pins]
      BY DEF JobsTypeOK, Pins, Unpinned
    <3> QED BY <1>0, <3>1
  <2>2. said' \in [Convs -> Seq([role : {"user", "assistant"}, job : Jobs])]
    <3> DEFINE M == [role : {"user", "assistant"}, job : Jobs]
               e == [role |-> "user", job |-> j]
    <3>1. said \in [Convs -> Seq(M)] /\ e \in M
      BY DEF JobsTypeOK
    <3> HIDE DEF M, e
    <3>2. Append(said[c], e) \in Seq(M)
      BY <3>1
    <3>3. CASE c \in Chats \cup Bugs
      <4>1. said' = [said EXCEPT ![c] = Append(said[c], e)]
        BY <1>4, <3>3 DEF e
      <4> QED BY <3>1, <3>2, <4>1 DEF M
    <3>4. CASE c \notin Chats \cup Bugs
      BY <3>1, <3>4 DEF M
    <3> QED BY <3>3, <3>4
  <2> QED BY <1>1, <2>1, <2>2 DEF JobsTypeOK
<1>6. UsedRowsAreFiled'
  BY <1>1 DEF UsedRowsAreFiled, Fades, Unfinished
<1>7. RunsArePinned'
  <2>1. ASSUME NEW i \in Jobs, job'[i].status = "running"
        PROVE  /\ job'[i].by = job[i].by /\ job'[i].conv = job[i].conv
               /\ job[i].status = "running" /\ job[i].conv \in Convs \ {c}
    BY <1>1, <1>3, <2>1 DEF UsedRowsAreFiled, Unfinished
  <2>2. \A d \in Convs \ {c} : conv'[d] = conv[d]
    BY DEF JobsTypeOK
  <2> QED BY <2>1, <2>2 DEF RunsArePinned, Running
<1>8. QuestionIsLast'
  <2> SUFFICES ASSUME NEW i \in Jobs, job'[i].status \in Unfinished,
                      job'[i].conv \in Chats \cup Bugs
               PROVE  LET s == said'[job'[i].conv]
                      IN  Len(s) > 0 /\ s[Len(s)] = [role |-> "user", job |-> i]
    BY DEF QuestionIsLast
  <2>1. CASE i = j
    <3> DEFINE s == said[c]  e == [role |-> "user", job |-> j]
    <3>1. said'[c] = Append(s, e)
      BY <1>1, <1>4, <2>1 DEF JobsTypeOK
    <3>2. s \in Seq([role : {"user", "assistant"}, job : Jobs])
      BY <1>1, <1>4, <2>1
    <3> HIDE DEF s, e
    <3>3. Len(Append(s, e)) > 0 /\ Append(s, e)[Len(Append(s, e))] = e
      BY <3>2
    <3> QED BY <1>1, <2>1, <3>1, <3>3 DEF e
  <2>2. CASE i # j
    <3>1. job'[i].conv # c /\ job[i].status \in Unfinished /\ job'[i].conv = job[i].conv
      BY <1>3, <2>2
    <3>2. said'[job[i].conv] = said[job[i].conv]
      BY <1>4, <3>1 DEF JobsTypeOK, Convs
    <3> QED BY <3>1, <3>2 DEF QuestionIsLast
  <2> QED BY <2>1, <2>2
<1>9. OneTurnAtATime'
  BY <1>1, <1>3 DEF OneTurnAtATime, Active, OfConv
<1>10. OneRunPerService'
  BY <1>1, <1>3 DEF OneRunPerService, Running, Unfinished
<1>11. ThreadStaysHome'
  <2>1. \A d \in Convs : conv'[d] = conv[d] \/ conv'[d] = Unpinned
    BY <1>0 DEF JobsTypeOK
  <2> QED BY <2>1 DEF ThreadStaysHome, Unpinned
<1>12. RepliesFollowQuestions'
  <2> SUFFICES ASSUME NEW d \in Chats \cup Bugs, NEW n \in 1 .. Len(said'[d]),
                      said'[d][n].role = "assistant"
               PROVE  /\ n > 1
                      /\ said'[d][n - 1] = [role |-> "user", job |-> said'[d][n].job]
    BY DEF RepliesFollowQuestions
  <2>1. CASE d # c
    <3>1. said'[d] = said[d]
      BY <1>4, <2>1 DEF JobsTypeOK, Convs
    <3> QED BY <3>1 DEF RepliesFollowQuestions
  <2>2. CASE d = c
    <3> DEFINE s == said[c]  e == [role |-> "user", job |-> j]
    <3>1. said'[c] = Append(s, e) /\ s \in Seq([role : {"user", "assistant"}, job : Jobs])
      BY <1>4, <2>2 DEF JobsTypeOK
    <3>2. e.role # "assistant"
      OBVIOUS
    <3> HIDE DEF e
    <3>3. n \in 1 .. Len(s) /\ Append(s, e)[n] = s[n]
      BY <2>2, <3>1, <3>2
    <3>4. n > 1 /\ s[n - 1] = [role |-> "user", job |-> s[n].job]
      <4>1. s[n].role = "assistant" /\ c \in Chats \cup Bugs /\ n \in 1 .. Len(said[c])
        BY <2>2, <3>1, <3>3
      <4>2. RepliesFollowQuestions
        OBVIOUS
      <4> QED BY <4>1, <4>2 DEF RepliesFollowQuestions
    <3>5. Append(s, e)[n - 1] = s[n - 1]
      BY <3>1, <3>3, <3>4
    <3> QED BY <2>2, <3>1, <3>3, <3>4, <3>5
  <2> QED BY <2>1, <2>2
<1>13. RequestRunsOnce'
  <2>1. \A i \in Jobs : ~(job[i].conv = c /\ job[i].asker = a /\ job[i].request = q)
    BY DEF Serving, OfConv
  <2> SUFFICES ASSUME NEW d \in Convs, NEW b \in Actors, NEW r \in Requests
               PROVE  \A i, k \in Serving(d, b, r)' : i = k
    BY DEF RequestRunsOnce
  <2>2. CASE d = c /\ b = a /\ r = q
    <3>1. Serving(c, a, q)' = {j}
      BY <1>1, <1>3, <2>1 DEF Serving, OfConv
    <3> QED BY <2>2, <3>1
  <2>3. CASE ~(d = c /\ b = a /\ r = q)
    <3>1. \A i \in Jobs : job'[i].conv = d /\ job'[i].asker = b /\ job'[i].request = r
                            => job[i].conv = d /\ job[i].asker = b /\ job[i].request = r
      BY <1>1, <1>3, <2>3
    <3>2. Serving(d, b, r)' \subseteq Serving(d, b, r)
      BY <3>1 DEF Serving, OfConv
    <3> QED BY <3>2 DEF RequestRunsOnce
  <2> QED BY <2>2, <2>3
<1> QED BY <1>5, <1>6, <1>7, <1>8, <1>9, <1>10, <1>11, <1>12, <1>13

-----------------------------------------------------------------------------
(* The steps. *)

\* Whoever asks, the turns of a conversation are read before and after the
\* expiry alike.
LEMMA AskedOfExpired ==
    ASSUME JobsTypeOK, NEW c, NEW a, NEW q
    PROVE  Asked(Expired, c, a, q) <=> Asked(job, c, a, q)
BY ExpiredFades DEF Asked, OfConv, Fades

LEMMA AskStep ==
    ASSUME JobsInv, NEW c \in Convs, NEW a \in Actors, NEW q \in Requests,
           Ask(c, a, q) \/ (c \in Bugs /\ Research(c, a, q))
    PROVE  JobsInv'
<1>1. PICK j \in Jobs : /\ NextRow(j)
                        /\ job' = [Expired EXCEPT ![j] = Queued(c, a, q)]
                        /\ Say(c, "user", j)
  BY DEF Ask, Research
<1>2. /\ c \in Chats \cup Bugs
      /\ conv' \in {conv, [conv EXCEPT ![c] = Unpinned]}
      /\ UNCHANGED <<coalesced, frozen, shelved, switches>>
  BY DEF Ask, Research, Convs, Asked, Heard, Active
<1>3. JobsTypeOK /\ Fades(Expired)
  BY ExpiredFades DEF JobsInv
<1>4. \A i \in Jobs : job[i].conv = c => Expired[i].status \notin Unfinished
  BY <1>3 DEF Ask, Research, Active, OfConv, Fades
<1>5. Serving(c, a, q) = {}
  BY <1>3, AskedOfExpired, JobsAssumption DEF Ask, Research, Heard, Asked, Serving, OfConv
<1>6. IF c \in Chats \cup Bugs THEN Say(c, "user", j) ELSE UNCHANGED said
  BY <1>1, <1>2
<1>7. Queues(Expired, j, c, a, q)
  BY <1>1, <1>2, <1>3, <1>4, <1>5, <1>6 DEF Queues
<1> QED BY <1>7, QueueStep

LEMMA ClassifyStep ==
    ASSUME JobsInv, NEW c \in Notes, NEW a \in Actors, NEW q \in Requests,
           Classify(c, a, q)
    PROVE  JobsInv'
<1>1. PICK j \in Jobs : NextRow(j) /\ job' = [Superseded(c) EXCEPT ![j] = Queued(c, a, q)]
  BY DEF Classify
<1>2. /\ c \in Convs /\ c \notin Chats \cup Bugs
      /\ conv' = [conv EXCEPT ![c] = Unpinned]
      /\ UNCHANGED <<coalesced, said, frozen, shelved, switches>>
  BY JobsAssumption DEF Classify, Convs
<1>3. /\ Fades(Superseded(c))
      /\ \A i \in Jobs : job[i].conv = c => Superseded(c)[i].status # "queued"
  BY <1>2, SupersededFades DEF JobsInv
<1>4. \A i \in Jobs : job[i].conv = c => Superseded(c)[i].status \notin Unfinished
  BY <1>3 DEF Classify, OfConv, Fades, Unfinished, Finished
<1>5. Serving(c, a, q) = {}
  BY <1>2 DEF Classify, Asked, Serving, OfConv
<1>6. IF c \in Chats \cup Bugs THEN Say(c, "user", j) ELSE UNCHANGED said
  BY <1>2
<1>7. /\ conv' \in {conv, [conv EXCEPT ![c] = Unpinned]}
      /\ UNCHANGED <<coalesced, frozen, shelved, switches>>
  BY <1>2
<1>8. Queues(Superseded(c), j, c, a, q)
  BY <1>1, <1>2, <1>3, <1>4, <1>5, <1>6, <1>7 DEF Queues
<1> QED BY <1>2, <1>8, QueueStep

\* A request that joins a run is served by that run and nothing else.
LEMMA JoinStep ==
    ASSUME JobsInv, NEW b \in Bugs, NEW a \in Actors, NEW q \in Requests,
           ResearchJoins(b, a, q)
    PROVE  JobsInv'
<1> USE DEF JobsInv
<1>1. PICK j \in Jobs : coalesced' = [coalesced EXCEPT ![b][a][q] = j]
  BY DEF ResearchJoins, Active, OfConv
<1>2. job' = Expired /\ UNCHANGED <<conv, said, frozen, shelved, switches>> /\ Fades(job')
  BY ExpiredFades DEF ResearchJoins
<1>3. /\ \A i \in Jobs : ~(job[i].conv = b /\ job[i].asker = a /\ job[i].request = q)
      /\ coalesced[b][a][q] = NoJob
  BY AskedOfExpired DEF ResearchJoins, Heard, Asked, OfConv
<1>4. /\ coalesced' \in [Bugs -> [Actors -> [Requests -> Jobs \cup {NoJob}]]]
      /\ coalesced'[b][a][q] = j
      /\ \A d \in Bugs, e \in Actors, r \in Requests :
            ~(d = b /\ e = a /\ r = q) => coalesced'[d][e][r] = coalesced[d][e][r]
  BY <1>1 DEF JobsTypeOK
<1>5. JobsTypeOK'
  BY <1>2, <1>4 DEF JobsTypeOK, Fades
<1>6. UsedRowsAreFiled' /\ RunsArePinned' /\ ThreadStaysHome'
  BY <1>2 DEF UsedRowsAreFiled, RunsArePinned, ThreadStaysHome, Fades, Running, Unfinished,
              Finished
<1>7. QuestionIsLast' /\ RepliesFollowQuestions'
  BY <1>2 DEF QuestionIsLast, RepliesFollowQuestions, Fades, Unfinished, Finished
<1>8. OneTurnAtATime' /\ OneRunPerService'
  BY <1>2 DEF OneTurnAtATime, OneRunPerService, Active, Running, OfConv, Fades, Unfinished,
              Finished
<1>9. RequestRunsOnce'
  <2> SUFFICES ASSUME NEW d \in Convs, NEW e \in Actors, NEW r \in Requests
               PROVE  \A i, k \in Serving(d, e, r)' : i = k
    BY DEF RequestRunsOnce
  <2>1. CASE d = b /\ e = a /\ r = q
    <3>1. Serving(d, e, r)' = {j}
      BY <1>2, <1>3, <1>4, <2>1, JobsAssumption DEF Serving, OfConv, Fades
    <3> QED BY <3>1
  <2>2. CASE ~(d = b /\ e = a /\ r = q)
    <3>1. Serving(d, e, r)' = Serving(d, e, r)
      BY <1>2, <1>4, <2>2 DEF Serving, OfConv, Fades
    <3> QED BY <3>1 DEF RequestRunsOnce
  <2> QED BY <2>1, <2>2
<1> QED BY <1>5, <1>6, <1>7, <1>8, <1>9

\* The oldest job a service can take is taken by a service that runs none.
LEMMA ClaimStep ==
    ASSUME JobsInv, NEW s \in Services, Claim(s)
    PROVE  JobsInv'
<1> USE DEF JobsInv
<1>1. PICK j \in Jobs :
        /\ Claimable(Expired, j, s)
        /\ job' = [Expired EXCEPT ![j].status = "running", ![j].by = s,
                                  ![j].lease = Lease, ![j].deadline = MaxRun]
        /\ conv' = [conv EXCEPT ![Expired[j].conv].service = s]
  BY DEF Claim
<1>2. /\ ~Busy(Expired, s) /\ Fades(Expired)
      /\ UNCHANGED <<coalesced, said, frozen, shelved, switches>>
  BY ExpiredFades DEF Claim
<1>3. /\ job[j].status = "queued" /\ job[j].conv \in Convs
      /\ conv[job[j].conv].service \in {NoService, s}
      /\ Expired[j].conv = job[j].conv /\ Expired[j] \in Rows
  BY <1>1, <1>2 DEF Claimable, Fades, UsedRowsAreFiled, Unfinished, Finished
<1>4. /\ job'[j].status = "running" /\ job'[j].by = s /\ job'[j].conv = job[j].conv
      /\ job'[j].asker = job[j].asker /\ job'[j].request = job[j].request
      /\ job' \in [Jobs -> Rows]
      /\ \A i \in Jobs : i # j => job'[i] = Expired[i]
  <2>1. Lease \in 0 .. Lease /\ MaxRun \in 0 .. MaxRun
    BY JobsAssumption
  <2>2. job'[j] = [Expired[j] EXCEPT !.status = "running", !.by = s,
                                     !.lease = Lease, !.deadline = MaxRun]
    BY <1>1, <1>2 DEF Fades
  <2>3. job'[j] \in Rows
    BY <1>3, <2>1, <2>2 DEF Rows, Unfinished
  <2> QED BY <1>1, <1>2, <1>3, <2>2, <2>3 DEF Fades, Rows
<1>5. /\ conv' \in [Convs -> Pins] /\ conv'[job[j].conv].service = s
      /\ conv'[job[j].conv].thread = conv[job[j].conv].thread
      /\ \A d \in Convs : d # job[j].conv => conv'[d] = conv[d]
  BY <1>1, <1>3 DEF JobsTypeOK, Pins
<1>6. \A i \in Jobs : i # j =>
        /\ job'[i].conv = job[i].conv /\ job'[i].by = job[i].by
        /\ job'[i].asker = job[i].asker /\ job'[i].request = job[i].request
        /\ job'[i].status \in Unfinished => job'[i].status = job[i].status
  BY <1>2, <1>4 DEF Fades, Unfinished, Finished
<1>7. JobsTypeOK'
  BY <1>2, <1>4, <1>5 DEF JobsTypeOK
<1>8. UsedRowsAreFiled'
  BY <1>2, <1>3, <1>4 DEF UsedRowsAreFiled, Fades, Unfinished
<1>9. RunsArePinned'
  <2> SUFFICES ASSUME NEW i \in Jobs, job'[i].status = "running"
               PROVE  job'[i].by \in Services /\ conv'[job'[i].conv].service = job'[i].by
    BY DEF RunsArePinned, Running
  <2>1. CASE i = j
    BY <1>4, <1>5, <2>1
  <2>2. CASE i # j
    <3>1. job[i].status = "running" /\ job'[i].conv = job[i].conv /\ job'[i].by = job[i].by
      BY <1>6, <2>2 DEF Unfinished
    <3>2. job[i].conv # job[j].conv /\ job[i].conv \in Convs
      BY <1>3, <2>2, <3>1
         DEF OneTurnAtATime, Active, OfConv, Unfinished, UsedRowsAreFiled
    <3> QED BY <1>5, <3>1, <3>2 DEF RunsArePinned, Running
  <2> QED BY <2>1, <2>2
<1>10. QuestionIsLast'
  BY <1>2, <1>3, <1>4, <1>6 DEF QuestionIsLast, Unfinished
<1>11. OneTurnAtATime'
  BY <1>3, <1>4, <1>6 DEF OneTurnAtATime, Active, OfConv, Unfinished
<1>12. OneRunPerService'
  <2>1. \A i \in Jobs : i # j /\ job'[i].status = "running" => job'[i].by # s
    BY <1>2, <1>4 DEF Busy, Running
  <2> QED BY <1>4, <1>6, <2>1 DEF OneRunPerService, Running, Unfinished
<1>13. ThreadStaysHome'
  BY <1>3, <1>5 DEF ThreadStaysHome
<1>14. RepliesFollowQuestions'
  BY <1>2 DEF RepliesFollowQuestions
<1>15. RequestRunsOnce'
  <2>1. \A c, a, q : Serving(c, a, q)' = Serving(c, a, q)
    BY <1>2, <1>4, <1>6 DEF Serving, OfConv
  <2> QED BY <2>1 DEF RequestRunsOnce
<1> QED BY <1>7, <1>8, <1>9, <1>10, <1>11, <1>12, <1>13, <1>14, <1>15

\* A report of the thread pins nothing anew: the run's service is the
\* conversation's.
LEMMA SessionKeeps ==
    ASSUME JobsInv, NEW j \in Jobs, job[j].status = "running", Session(j)
    PROVE  /\ conv' \in [Convs -> Pins]
           /\ \A c \in Convs : conv'[c].service = conv[c].service
           /\ ThreadStaysHome'
<1>1. /\ job[j].conv \in Convs /\ job[j].by \in Services
      /\ conv[job[j].conv].service = job[j].by
      /\ conv \in [Convs -> Pins]
  BY DEF JobsInv, JobsTypeOK, UsedRowsAreFiled, RunsArePinned, Running
<1>2. CASE UNCHANGED conv
  BY <1>1, <1>2 DEF JobsInv, ThreadStaysHome
<1>3. CASE conv' = [conv EXCEPT ![job[j].conv].thread = job[j].by]
  BY <1>1, <1>3 DEF JobsInv, ThreadStaysHome, Pins
<1> QED BY <1>2, <1>3 DEF Session

\* A row of its own that changes and the others that stay: rows fade.
LEMMA OneRowFades ==
    ASSUME JobsTypeOK, NEW j \in Jobs, NEW row \in Rows, job' = [job EXCEPT ![j] = row],
           row.conv = job[j].conv, row.by = job[j].by,
           row.asker = job[j].asker, row.request = job[j].request,
           \/ row.status = job[j].status
           \/ job[j].status \in Unfinished /\ row.status \in Finished
    PROVE  Fades(job')
BY DEF JobsTypeOK, Fades

Done(row, status, r) == [Ended(row, status) EXCEPT !.result = r]

LEMMA ResultRows ==
    ASSUME NEW row \in Rows, NEW status \in Finished, NEW r \in {"reply", "error"}
    PROVE  /\ Done(row, status, r) \in Rows
           /\ Done(row, status, r).conv = row.conv /\ Done(row, status, r).by = row.by
           /\ Done(row, status, r).asker = row.asker
           /\ Done(row, status, r).request = row.request
           /\ Done(row, status, r).status = status
<1>1. /\ Ended(row, status) \in Rows
      /\ Ended(row, status).conv = row.conv /\ Ended(row, status).by = row.by
      /\ Ended(row, status).asker = row.asker /\ Ended(row, status).request = row.request
      /\ Ended(row, status).status = status
  BY EndedRows
<1> QED BY <1>1 DEF Rows, Done

\* An answer stands behind its question.
LEMMA FinishStep ==
    ASSUME JobsInv, NEW j \in Jobs, Finish(j)
    PROVE  JobsInv'
<1> USE DEF JobsInv
<1>1. /\ job[j].status = "running" /\ job[j].result = "none" /\ Session(j)
      /\ UNCHANGED <<coalesced, frozen, shelved, switches>>
  BY DEF Finish, Delivers, Live
<1>2. job[j] \in Rows /\ job[j].conv \in Convs
      /\ "completed" \in Finished /\ "failed" \in Finished /\ "running" \in Unfinished
  BY <1>1 DEF JobsTypeOK, UsedRowsAreFiled, Finished, Unfinished
<1>3. CASE /\ job' = [job EXCEPT ![j] = [Ended(@, "failed") EXCEPT !.result = "error"]]
           /\ UNCHANGED said
  <2>1. Fades(job')
    <3>1. job' = [job EXCEPT ![j] = Done(job[j], "failed", "error")]
      BY <1>3 DEF JobsTypeOK, Done
    <3> QED BY <1>1, <1>2, <3>1, ResultRows, OneRowFades
  <2> QED BY <1>1, <1>3, <2>1, SessionKeeps, FadeStep DEF JobsTypeOK
<1>4. CASE /\ job' = [job EXCEPT ![j] = [Ended(@, "completed") EXCEPT !.result = "reply"]]
           /\ Say(job[j].conv, "assistant", j)
  <2> DEFINE M == [role : {"user", "assistant"}, job : Jobs]
             c == job[j].conv  s == said[c]  e == [role |-> "assistant", job |-> j]
  <2>1. Fades(job') /\ job'[j].status = "completed"
    <3>1. job' = [job EXCEPT ![j] = Done(job[j], "completed", "reply")]
      BY <1>4 DEF JobsTypeOK, Done
    <3>2. Fades(job')
      BY <1>1, <1>2, <3>1, ResultRows, OneRowFades
    <3> QED BY <1>2, <3>1, <3>2, ResultRows DEF JobsTypeOK
  <2>2. /\ said \in [Convs -> Seq(M)] /\ s \in Seq(M) /\ e \in M
        /\ said' = [said EXCEPT ![c] = Append(s, e)]
    BY <1>2, <1>4 DEF JobsTypeOK, Say
  <2>3. Append(s, e) \in Seq(M)
    BY <2>2
  <2>4. \A d \in Convs : d # c => said'[d] = said[d]
    BY <2>2
  <2>5. JobsTypeOK'
    <3> HIDE DEF M
    <3>1. said' \in [Convs -> Seq(M)]
      BY <1>2, <2>2, <2>3
    <3> QED BY <1>1, <2>1, <3>1, SessionKeeps DEF M, JobsTypeOK, Fades
  <2>6. UsedRowsAreFiled' /\ ThreadStaysHome'
    BY <1>1, <2>1, SessionKeeps DEF UsedRowsAreFiled, Fades, Unfinished
  <2>7. RunsArePinned'
    BY <1>1, <2>1, SessionKeeps DEF RunsArePinned, UsedRowsAreFiled, Fades, Running, Finished
  <2>8. OneTurnAtATime' /\ OneRunPerService'
    BY <2>1 DEF OneTurnAtATime, OneRunPerService, Active, Running, OfConv, Fades,
                Unfinished, Finished
  <2>9. RequestRunsOnce'
    <3>1. \A d, a, q : Serving(d, a, q)' = Serving(d, a, q)
      BY <1>1, <2>1 DEF Serving, OfConv, Fades
    <3> QED BY <3>1 DEF RequestRunsOnce
  <2>10. QuestionIsLast'
    <3> SUFFICES ASSUME NEW i \in Jobs, job'[i].status \in Unfinished,
                        job'[i].conv \in Chats \cup Bugs
                 PROVE  LET t == said'[job'[i].conv]
                        IN  Len(t) > 0 /\ t[Len(t)] = [role |-> "user", job |-> i]
      BY DEF QuestionIsLast
    <3>1. job'[i].conv = job[i].conv /\ job[i].status \in Unfinished /\ i # j
      BY <2>1 DEF Fades, Unfinished, Finished
    <3>2. job[i].conv # c
      BY <1>2, <1>1, <3>1 DEF OneTurnAtATime, Active, OfConv
    <3>3. said'[job[i].conv] = said[job[i].conv]
      BY <2>4, <3>1, <3>2 DEF Convs
    <3> QED BY <3>1, <3>3 DEF QuestionIsLast
  <2>11. RepliesFollowQuestions'
    <3> SUFFICES ASSUME NEW d \in Chats \cup Bugs, NEW n \in 1 .. Len(said'[d]),
                        said'[d][n].role = "assistant"
                 PROVE  /\ n > 1
                        /\ said'[d][n - 1] = [role |-> "user", job |-> said'[d][n].job]
      BY DEF RepliesFollowQuestions
    <3>1. CASE d # c
      <4>1. said'[d] = said[d]
        BY <2>4, <3>1 DEF Convs
      <4> QED BY <4>1 DEF RepliesFollowQuestions
    <3>2. CASE d = c
      <4>1. said'[c] = Append(s, e)
        BY <1>2, <2>2
      <4>2. Len(s) > 0 /\ s[Len(s)] = [role |-> "user", job |-> j]
        BY <1>1, <1>2, <3>2 DEF QuestionIsLast
      <4>3. e.job = j
        OBVIOUS
      <4>4. CASE n = Len(s) + 1
        <5> HIDE DEF e
        <5>1. Append(s, e)[n] = e /\ Append(s, e)[n - 1] = s[Len(s)] /\ n > 1
          BY <2>2, <4>2, <4>4
        <5> QED BY <3>2, <4>1, <4>2, <4>3, <5>1
      <4>5. CASE n # Len(s) + 1
        <5> HIDE DEF e
        <5>1. n \in 1 .. Len(s) /\ Append(s, e)[n] = s[n]
          BY <2>2, <3>2, <4>1, <4>5
        <5>2. n > 1 /\ s[n - 1] = [role |-> "user", job |-> s[n].job]
          BY <3>2, <4>1, <5>1 DEF RepliesFollowQuestions
        <5>3. Append(s, e)[n - 1] = s[n - 1]
          BY <2>2, <5>1, <5>2
        <5> QED BY <3>2, <4>1, <5>1, <5>2, <5>3
      <4> QED BY <4>4, <4>5
    <3> QED BY <3>1, <3>2
  <2> QED BY <2>5, <2>6, <2>7, <2>8, <2>9, <2>10, <2>11
<1> QED BY <1>3, <1>4 DEF Finish

\* Every other step lets rows fade at most.
LEMMA QuietStep ==
    ASSUME JobsInv,
           \/ \E c \in Convs, a \in Actors, q \in Requests :
                AskAgain(c, a, q) \/ ResearchAgain(c, a, q)
           \/ \E j \in Jobs : Cancel(j) \/ Heartbeat(j) \/ LeaveEvidence(j)
           \/ Tick \/ SweepJobs \/ ArchiveProject \/ (\E b \in Bugs : ArchiveBug(b))
           \/ UNCHANGED jobVars
    PROVE  JobsInv'
<1>1. JobsTypeOK /\ Fades(Expired) /\ Fades(job)
  BY ExpiredFades DEF JobsInv, JobsTypeOK, Fades
<1> DEFINE Stays == /\ UNCHANGED <<coalesced, said>>
                    /\ conv' \in [Convs -> Pins]
                    /\ \A c \in Convs : conv'[c].service = conv[c].service
                    /\ ThreadStaysHome'
                    /\ frozen' \in BOOLEAN /\ shelved' \subseteq Bugs /\ switches' \in Nat
<1>2. ASSUME UNCHANGED <<conv, coalesced, said, frozen, shelved, switches>>
      PROVE  Stays
  BY <1>2 DEF JobsInv, JobsTypeOK, ThreadStaysHome
<1>3. ASSUME Stays, Fades(job')
      PROVE  JobsInv'
  BY <1>3, FadeStep
<1> HIDE DEF Stays
<1>4. CASE \E c \in Convs, a \in Actors, q \in Requests :
                AskAgain(c, a, q) \/ ResearchAgain(c, a, q)
  BY <1>1, <1>2, <1>3, <1>4 DEF AskAgain, ResearchAgain
<1>5. ASSUME NEW j \in Jobs, Cancel(j)
      PROVE  JobsInv'
  <2> DEFINE row == [Ended(job[j], "failed") EXCEPT !.cancelled = TRUE]
  <2>1. job[j] \in Rows /\ "failed" \in Finished /\ job[j].status \in Unfinished
    BY <1>1, <1>5 DEF Cancel, JobsTypeOK, Finished
  <2>2. /\ row \in Rows /\ row.conv = job[j].conv /\ row.by = job[j].by
        /\ row.asker = job[j].asker /\ row.request = job[j].request /\ row.status = "failed"
    <3>1. /\ Ended(job[j], "failed") \in Rows
          /\ Ended(job[j], "failed").conv = job[j].conv
          /\ Ended(job[j], "failed").by = job[j].by
          /\ Ended(job[j], "failed").asker = job[j].asker
          /\ Ended(job[j], "failed").request = job[j].request
          /\ Ended(job[j], "failed").status = "failed"
      BY <2>1, EndedRows
    <3> QED BY <3>1 DEF Rows
  <2>3. job' = [job EXCEPT ![j] = row]
    BY <1>1, <1>5 DEF Cancel, JobsTypeOK
  <2> HIDE DEF row
  <2>4. Fades(job')
    BY <1>1, <2>1, <2>2, <2>3, OneRowFades
  <2> QED BY <1>2, <1>3, <1>5, <2>4 DEF Cancel
<1>6. ASSUME NEW j \in Jobs, Heartbeat(j)
      PROVE  JobsInv'
  <2> DEFINE row == [job[j] EXCEPT !.lease = IF Lease < job[j].deadline THEN Lease
                                             ELSE job[j].deadline]
  <2>1. /\ job[j] \in Rows /\ job[j].status = "running" /\ Session(j)
        /\ UNCHANGED <<coalesced, said, frozen, shelved, switches>>
        /\ job' = [job EXCEPT ![j] = row]
    BY <1>1, <1>6 DEF Heartbeat, Live, JobsTypeOK
  <2>2. /\ row \in Rows /\ row.conv = job[j].conv /\ row.by = job[j].by
        /\ row.asker = job[j].asker /\ row.request = job[j].request
        /\ row.status = job[j].status
    <3>1. (IF Lease < job[j].deadline THEN Lease ELSE job[j].deadline) \in 0 .. Lease
      BY <2>1, JobsAssumption DEF Rows
    <3> QED BY <2>1, <3>1 DEF Rows
  <2> HIDE DEF row
  <2>3. Fades(job')
    BY <1>1, <2>1, <2>2, OneRowFades
  <2>4. Stays
    BY <1>1, <2>1, SessionKeeps DEF Stays, JobsTypeOK
  <2> QED BY <1>3, <2>3, <2>4
<1>7. ASSUME NEW j \in Jobs, LeaveEvidence(j)
      PROVE  JobsInv'
  <2> DEFINE row == [job[j] EXCEPT !.result = "evidence"]
  <2>1. /\ row \in Rows /\ row.conv = job[j].conv /\ row.by = job[j].by
        /\ row.asker = job[j].asker /\ row.request = job[j].request
        /\ row.status = job[j].status /\ job' = [job EXCEPT ![j] = row]
    <3>1. job[j] \in Rows
      BY <1>1 DEF JobsTypeOK
    <3> QED BY <1>1, <1>7, <3>1 DEF LeaveEvidence, JobsTypeOK, Rows
  <2> HIDE DEF row
  <2>2. Fades(job')
    BY <1>1, <2>1, OneRowFades
  <2> QED BY <1>2, <1>3, <1>7, <2>2 DEF LeaveEvidence
<1>8. CASE Tick
  <2>1. ASSUME NEW j \in Jobs
        PROVE  /\ job'[j] \in Rows /\ job'[j].conv = job[j].conv /\ job'[j].by = job[j].by
               /\ job'[j].asker = job[j].asker /\ job'[j].request = job[j].request
               /\ job'[j].status = job[j].status
    <3>1. job[j] \in Rows
      BY <1>1 DEF JobsTypeOK
    <3>2. Left(job[j].lease) \in 0 .. Lease /\ Left(job[j].deadline) \in 0 .. MaxRun
      BY <3>1, JobsAssumption DEF Rows, Left
    <3>3. job'[j] = IF job[j].status = "running"
                    THEN [job[j] EXCEPT !.lease = Left(@), !.deadline = Left(@)] ELSE job[j]
      BY <1>8 DEF Tick
    <3> QED BY <3>1, <3>2, <3>3 DEF Rows
  <2>2. job' = [j \in Jobs |-> job'[j]]
    BY <1>8 DEF Tick
  <2>3. Fades(job')
    BY <2>1, <2>2 DEF Fades
  <2> QED BY <1>2, <1>3, <1>8, <2>3 DEF Tick
<1>9. CASE SweepJobs
  BY <1>1, <1>2, <1>3, <1>9 DEF SweepJobs
<1>10. CASE ArchiveProject \/ (\E b \in Bugs : ArchiveBug(b)) \/ UNCHANGED jobVars
  <2>1. UNCHANGED <<job, conv, coalesced, said>>
        /\ frozen' \in BOOLEAN /\ shelved' \subseteq Bugs /\ switches' \in Nat
    <3>1. frozen \in BOOLEAN /\ shelved \subseteq Bugs /\ switches \in Nat
      BY <1>1 DEF JobsTypeOK
    <3>2. CASE ArchiveProject
      <4>1. (~frozen) \in BOOLEAN
        OBVIOUS
      <4> QED BY <3>1, <3>2, <4>1 DEF ArchiveProject, Switch
    <3>3. CASE \E b \in Bugs : ArchiveBug(b)
      BY <3>1, <3>3 DEF ArchiveBug, Switch
    <3>4. CASE UNCHANGED jobVars
      BY <3>1, <3>4 DEF jobVars
    <3> QED BY <1>10, <3>2, <3>3, <3>4
  <2>2. Stays
    BY <2>1 DEF Stays, JobsInv, JobsTypeOK, ThreadStaysHome
  <2> QED BY <1>1, <1>3, <2>1, <2>2
<1> QED BY <1>4, <1>5, <1>6, <1>7, <1>8, <1>9, <1>10

LEMMA JobsInitGood == JobsInit => JobsInv
<1> SUFFICES ASSUME JobsInit
             PROVE  JobsInv
  OBVIOUS
<1>1. NoRow \in Rows /\ NoRow.status = "none" /\ NoRow.conv = NoJob /\ NoJob \notin Convs
  <2>1. 0 \in 0 .. Lease /\ 0 \in 0 .. MaxRun
    BY JobsAssumption
  <2> QED BY <2>1, JobsAssumption DEF NoRow, Rows
<1>2. /\ \A j \in Jobs : job[j] = NoRow
      /\ \A c \in Convs : said[c] = <<>> /\ conv[c] = Unpinned
      /\ \A b \in Bugs, a \in Actors, q \in Requests : coalesced[b][a][q] = NoJob
  BY DEF JobsInit
<1>3. JobsTypeOK
  <2>1. <<>> \in Seq([role : {"user", "assistant"}, job : Jobs]) /\ Unpinned \in Pins
    BY DEF Pins, Unpinned
  <2> QED BY <1>1, <2>1 DEF JobsInit, JobsTypeOK
<1>4. UsedRowsAreFiled /\ RunsArePinned /\ QuestionIsLast
  BY <1>1, <1>2 DEF UsedRowsAreFiled, RunsArePinned, QuestionIsLast, Running, Unfinished
<1>5. OneTurnAtATime /\ OneRunPerService /\ ThreadStaysHome
  BY <1>1, <1>2 DEF OneTurnAtATime, OneRunPerService, ThreadStaysHome, Active, Running,
                    OfConv, Unfinished, Unpinned
<1>6. RepliesFollowQuestions
  BY <1>2 DEF RepliesFollowQuestions, Convs
<1>7. RequestRunsOnce
  BY <1>1, <1>2 DEF RequestRunsOnce, Serving, OfConv
<1> QED BY <1>3, <1>4, <1>5, <1>6, <1>7 DEF JobsInv

LEMMA JobsStep == JobsInv /\ [JobsNext]_jobVars => JobsInv'
<1> SUFFICES ASSUME JobsInv, [JobsNext]_jobVars
             PROVE  JobsInv'
  OBVIOUS
<1>1. ASSUME NEW a \in Actors, NEW q \in Requests, NEW c \in Chats, Ask(c, a, q)
      PROVE  JobsInv'
  BY <1>1, AskStep DEF Convs
<1>2. ASSUME NEW a \in Actors, NEW q \in Requests, NEW b \in Bugs, Research(b, a, q)
      PROVE  JobsInv'
  BY <1>2, AskStep DEF Convs
<1>3. ASSUME NEW a \in Actors, NEW q \in Requests, NEW b \in Bugs, ResearchJoins(b, a, q)
      PROVE  JobsInv'
  BY <1>3, JoinStep
<1>4. ASSUME NEW a \in Actors, NEW q \in Requests, NEW c \in Notes, Classify(c, a, q)
      PROVE  JobsInv'
  BY <1>4, ClassifyStep
<1>5. ASSUME NEW s \in Services, Claim(s)
      PROVE  JobsInv'
  BY <1>5, ClaimStep
<1>6. ASSUME NEW j \in Jobs, Finish(j)
      PROVE  JobsInv'
  BY <1>6, FinishStep
<1>7. ASSUME NEW a \in Actors, NEW q \in Requests, NEW c \in Convs,
             AskAgain(c, a, q) \/ ResearchAgain(c, a, q)
      PROVE  JobsInv'
  BY <1>7, QuietStep
<1>8. ASSUME NEW j \in Jobs, Cancel(j) \/ Heartbeat(j) \/ LeaveEvidence(j)
      PROVE  JobsInv'
  BY <1>8, QuietStep
<1>9. CASE Tick \/ SweepJobs \/ ArchiveProject \/ (\E b \in Bugs : ArchiveBug(b))
           \/ UNCHANGED jobVars
  BY <1>9, QuietStep
<1> QED BY <1>1, <1>2, <1>3, <1>4, <1>5, <1>6, <1>7, <1>8, <1>9 DEF JobsNext, Convs

-----------------------------------------------------------------------------
(* The theorems. *)

\* The invariant holds, with no assumption of fairness.
THEOREM JobsInvariant == JobsSpec => []JobsInv
<1> QED BY JobsInitGood, JobsStep, PTL DEF JobsSpec

\* Every variable of the queue keeps to its type (agent_jobs and its
\* neighbours in agent_chat.rs).
THEOREM JobsTyped == JobsSpec => []JobsTypeOK
<1>1. JobsInv => JobsTypeOK
  BY DEF JobsInv
<1> QED BY <1>1, JobsInvariant, PTL

\* A conversation has one turn at a time (the partial check in
\* send_agent_message, start_bug_research and enqueue).
THEOREM OneTurnAtATimeHolds == JobsSpec => []OneTurnAtATime
<1>1. JobsInv => OneTurnAtATime
  BY DEF JobsInv
<1> QED BY <1>1, JobsInvariant, PTL

\* A service runs one job at a time (the first query of claim_agent_job).
THEOREM OneRunPerServiceHolds == JobsSpec => []OneRunPerService
<1>1. JobsInv => OneRunPerService
  BY DEF JobsInv
<1> QED BY <1>1, JobsInvariant, PTL

\* A reply stands right after its question (finish_agent_job takes a result
\* from a live attempt only).
THEOREM RepliesFollowQuestionsHolds == JobsSpec => []RepliesFollowQuestions
<1>1. JobsInv => RepliesFollowQuestions
  BY DEF JobsInv
<1> QED BY <1>1, JobsInvariant, PTL

\* One request is one job, retried and folded requests included
\* (start_bug_research's two look-ups).
THEOREM RequestRunsOnceHolds == JobsSpec => []RequestRunsOnce
<1>1. JobsInv => RequestRunsOnce
  BY DEF JobsInv
<1> QED BY <1>1, JobsInvariant, PTL

\* One run per service and one job per request, whoever repeats himself.
THEOREM OneRunEachHolds == JobsSpec => []OneRunEach
<1>1. JobsInv => OneRunEach
  BY DEF JobsInv, OneRunEach
<1> QED BY <1>1, JobsInvariant, PTL

\* The thread of a conversation is on the service it is pinned to (session and
\* claim_agent_job).
THEOREM ThreadStaysHomeHolds == JobsSpec => []ThreadStaysHome
<1>1. JobsInv => ThreadStaysHome
  BY DEF JobsInv
<1> QED BY <1>1, JobsInvariant, PTL

-----------------------------------------------------------------------------
(* What has ended stays ended. *)

\* Rows that keep their results and fade run once.
OnlyEnds(rows) ==
    \A j \in Jobs : /\ rows[j].result = job[j].result
                    /\ \/ rows[j].status = job[j].status
                       \/ job[j].status \in Unfinished /\ rows[j].status \in Finished

LEMMA ExpiredEnds == JobsTypeOK => OnlyEnds(Expired)
<1> SUFFICES ASSUME JobsTypeOK, NEW j \in Jobs
             PROVE  /\ Expired[j].result = job[j].result
                    /\ \/ Expired[j].status = job[j].status
                       \/ job[j].status \in Unfinished /\ Expired[j].status \in Finished
  BY DEF OnlyEnds
<1>1. job[j] \in Rows /\ "failed" \in Finished
  BY DEF JobsTypeOK, Finished
<1>2. CASE TimeIsUp(j) \/ Interrupted(j)
  <2>1. Expired[j] = Ended(job[j], "failed") /\ job[j].status \in Unfinished
    BY <1>2 DEF Expired, TimeIsUp, Interrupted, Unfinished
  <2> QED BY <1>1, <2>1, EndedRows
<1>3. CASE ~(TimeIsUp(j) \/ Interrupted(j))
  BY <1>3 DEF Expired
<1> QED BY <1>2, <1>3

LEMMA SupersededEnds ==
    ASSUME JobsTypeOK, NEW c
    PROVE  OnlyEnds(Superseded(c))
<1> SUFFICES ASSUME NEW j \in Jobs
             PROVE  /\ Superseded(c)[j].result = job[j].result
                    /\ \/ Superseded(c)[j].status = job[j].status
                       \/ /\ job[j].status \in Unfinished
                          /\ Superseded(c)[j].status \in Finished
  BY DEF OnlyEnds
<1>1. job[j] \in Rows /\ "failed" \in Finished
  BY DEF JobsTypeOK, Finished
<1>2. CASE job[j].conv = c /\ job[j].status = "queued"
  <2>1. Superseded(c)[j] = Ended(job[j], "failed")
    BY <1>2 DEF Superseded
  <2> QED BY <1>1, <1>2, <2>1, EndedRows DEF Unfinished
<1>3. CASE ~(job[j].conv = c /\ job[j].status = "queued")
  BY <1>3 DEF Superseded
<1> QED BY <1>2, <1>3

LEMMA EndsRunsOnce ==
    ASSUME NEW rows, OnlyEnds(rows), NEW j \in Jobs, job'[j] = rows[j]
    PROVE  RunsOnce(j)
BY DEF OnlyEnds, RunsOnce, Unfinished, Finished

\* A new row had neither run nor ended.
LEMMA QueuedRunsOnce ==
    ASSUME NEW rows, rows \in [Jobs -> Rows], OnlyEnds(rows), NEW i \in Jobs, job[i] = NoRow,
           NEW row, row.result = "none", job' = [rows EXCEPT ![i] = row],
           NEW j \in Jobs
    PROVE  RunsOnce(j)
<1>1. CASE j = i
  BY <1>1 DEF RunsOnce, NoRow, Finished
<1>2. CASE j # i
  BY <1>2, EndsRunsOnce
<1> QED BY <1>1, <1>2

LEMMA StepRunsOnce ==
    ASSUME JobsInv, JobsNext, NEW j \in Jobs
    PROVE  RunsOnce(j)
<1>1. /\ job \in [Jobs -> Rows] /\ OnlyEnds(Expired) /\ Expired \in [Jobs -> Rows]
      /\ OnlyEnds(job)
  BY ExpiredEnds, ExpiredFades DEF JobsInv, JobsTypeOK, Fades, OnlyEnds
<1>2. CASE job' = Expired \/ job' = job
  BY <1>1, <1>2, EndsRunsOnce
<1>3. ASSUME NEW c \in Convs, NEW a \in Actors, NEW q \in Requests, NEW i \in Jobs,
             NextRow(i), job' = [Expired EXCEPT ![i] = Queued(c, a, q)]
      PROVE  RunsOnce(j)
  <2>1. Queued(c, a, q).result = "none" /\ job[i] = NoRow
    BY <1>3 DEF Queued, NoRow, NextRow
  <2> QED BY <1>1, <1>3, <2>1, QueuedRunsOnce
<1>4. ASSUME NEW c \in Notes, NEW a \in Actors, NEW q \in Requests, Classify(c, a, q)
      PROVE  RunsOnce(j)
  <2>1. PICK i \in Jobs : NextRow(i) /\ job' = [Superseded(c) EXCEPT ![i] = Queued(c, a, q)]
    BY <1>4 DEF Classify
  <2>2. Queued(c, a, q).result = "none" /\ job[i] = NoRow
    BY <2>1 DEF Queued, NoRow, NextRow
  <2>3. Superseded(c) \in [Jobs -> Rows] /\ OnlyEnds(Superseded(c))
    BY SupersededFades, SupersededEnds DEF Fades, Convs, JobsInv
  <2> QED BY <2>1, <2>2, <2>3, QueuedRunsOnce
<1>5. ASSUME NEW s \in Services, Claim(s)
      PROVE  RunsOnce(j)
  <2>1. PICK i \in Jobs :
          /\ Claimable(Expired, i, s)
          /\ job' = [Expired EXCEPT ![i].status = "running", ![i].by = s,
                                    ![i].lease = Lease, ![i].deadline = MaxRun]
    BY <1>5 DEF Claim
  <2>2. CASE j = i
    <3>1. job'[j].status = "running" /\ job'[j].result = job[j].result
          /\ job[j].status = "queued"
      BY <1>1, <2>1, <2>2 DEF Claimable, OnlyEnds, Rows, Finished
    <3> QED BY <3>1 DEF RunsOnce, Finished
  <2>3. CASE j # i
    BY <1>1, <2>1, <2>3, EndsRunsOnce
  <2> QED BY <2>2, <2>3
<1>6. ASSUME NEW i \in Jobs, Cancel(i)
      PROVE  RunsOnce(j)
  <2>1. job[i] \in Rows /\ "failed" \in Finished /\ job[i].status \in Unfinished
    BY <1>1, <1>6 DEF Cancel, Finished
  <2>2. Ended(job[i], "failed").result = job[i].result
        /\ Ended(job[i], "failed").status = "failed" /\ Ended(job[i], "failed") \in Rows
    BY <2>1, EndedRows
  <2>3. job'[i] = [Ended(job[i], "failed") EXCEPT !.cancelled = TRUE]
        /\ (j # i => job'[j] = job[j])
    BY <1>1, <1>6 DEF Cancel
  <2>4. job'[i].status = "failed" /\ job'[i].result = job[i].result
    BY <2>2, <2>3 DEF Rows
  <2> QED BY <2>1, <2>3, <2>4 DEF RunsOnce, Unfinished, Finished
<1>7. ASSUME NEW i \in Jobs, Heartbeat(i)
      PROVE  RunsOnce(j)
  <2>1. job'[j].status = job[j].status /\ job'[j].result = job[j].result
    BY <1>1, <1>7 DEF Heartbeat, Rows
  <2> QED BY <2>1 DEF RunsOnce
<1>8. ASSUME NEW i \in Jobs, Finish(i)
      PROVE  RunsOnce(j)
  <2>1. job[i].status = "running" /\ job[i].result = "none"
        /\ (j # i => job'[j] = job[j])
        /\ \/ job'[i] = Done(job[i], "failed", "error")
           \/ job'[i] = Done(job[i], "completed", "reply")
    BY <1>1, <1>8 DEF Finish, Delivers, Live, Done
  <2>2. job[i] \in Rows /\ "failed" \in Finished /\ "completed" \in Finished
    BY <1>1 DEF Finished
  <2>3. /\ Done(job[i], "failed", "error").status = "failed"
        /\ Done(job[i], "completed", "reply").status = "completed"
    BY <2>2, ResultRows
  <2>4. job'[i].status \in Finished
    BY <2>1, <2>2, <2>3
  <2> QED BY <2>1, <2>4 DEF RunsOnce, Finished
<1>9. ASSUME NEW i \in Jobs, LeaveEvidence(i)
      PROVE  RunsOnce(j)
  <2>1. /\ job'[i].status = job[i].status /\ job'[i].result = "evidence"
        /\ job[i].result = "none" /\ (j # i => job'[j] = job[j])
    BY <1>1, <1>9 DEF LeaveEvidence, Rows
  <2> QED BY <2>1 DEF RunsOnce
<1>10. CASE Tick
  <2>1. job'[j].status = job[j].status /\ job'[j].result = job[j].result
    <3>1. job[j] \in Rows
      BY <1>1
    <3>2. job'[j] = IF job[j].status = "running"
                    THEN [job[j] EXCEPT !.lease = Left(@), !.deadline = Left(@)] ELSE job[j]
      BY <1>10 DEF Tick
    <3> QED BY <3>1, <3>2 DEF Rows
  <2> QED BY <2>1 DEF RunsOnce
<1>11. ASSUME NEW c, NEW a \in Actors, NEW q \in Requests,
              \/ c \in Chats /\ (Ask(c, a, q) \/ AskAgain(c, a, q))
              \/ c \in Bugs /\ (Research(c, a, q) \/ ResearchJoins(c, a, q)
                                \/ ResearchAgain(c, a, q))
       PROVE  RunsOnce(j)
  BY <1>2, <1>3, <1>11 DEF Ask, AskAgain, Research, ResearchJoins, ResearchAgain, Convs
<1>12. CASE SweepJobs \/ ArchiveProject \/ \E b \in Bugs : ArchiveBug(b)
  BY <1>2, <1>12 DEF SweepJobs, ArchiveProject, ArchiveBug
<1> QED BY <1>4, <1>5, <1>6, <1>7, <1>8, <1>9, <1>10, <1>11, <1>12 DEF JobsNext

\* A turn is run once and what has ended stays as it ended (expire and
\* finish_agent_job).
THEOREM EndIsFinalHolds == JobsSpec => EndIsFinal
<1>1. JobsInv /\ [JobsNext]_jobVars => [\A j \in Jobs : RunsOnce(j)]_jobVars
  BY StepRunsOnce
<1> QED BY <1>1, JobsInvariant, PTL DEF JobsSpec, EndIsFinal

-----------------------------------------------------------------------------
(* Schedules: the inductive invariant. *)

SchedulesInv == SchedulesTypeOK /\ OneTicketPerSlot /\ SlotOnlyIfActive

-----------------------------------------------------------------------------
(* Slots. *)

LEMMA DivIsNat ==
    ASSUME NEW t \in Nat, NEW e \in Nat \ {0}
    PROVE  t \div e \in Nat
OBVIOUS

LEMMA TimesIsNat ==
    ASSUME NEW m \in Nat, NEW n \in Nat
    PROVE  m * n \in Nat
OBVIOUS

Slots == Nat \cup {Never}

LEMMA SlotAfterIsNat ==
    ASSUME NEW t \in Nat, NEW e \in Cadences
    PROVE  SlotAfter(e, t) \in Nat
<1>1. e \in Nat \ {0}
  BY SchedulesAssumption
<1>2. t \div e \in Nat
  BY <1>1, DivIsNat
<1>3. t \div e + 1 \in Nat
  BY <1>2
<1> QED BY <1>1, <1>3, TimesIsNat DEF SlotAfter

LEMMA WithinIsASlot ==
    ASSUME NEW t \in Nat, NEW e
    PROVE  Within(t, e) \in Slots
BY DEF Within, Slots

LEMMA ActivatedRow ==
    ASSUME NEW r \in RuleRows, NEW t \in Nat
    PROVE  /\ Activated(r, t) \in RuleRows
           /\ Activated(r, t).next # Never => Activated(r, t).status = "active"
           /\ NextSlot(r, t) \in Slots
<1>1. NextSlot(r, t) \in Slots
  BY SlotAfterIsNat, WithinIsASlot DEF NextSlot, RuleRows
<1> QED BY <1>1 DEF Activated, RuleRows, Slots, Statuses

\* A nonempty set of numbers up to a bound has a greatest.
LEMMA GreatestExists ==
    ASSUME NEW bound \in Nat, NEW T \in SUBSET (1 .. bound), T # {}
    PROVE  \E n \in T : \A m \in T : m <= n
<1> DEFINE U == {bound - n : n \in T}
<1>1. U \subseteq Nat /\ U # {}
  <2>1. \A n \in T : bound - n \in U /\ bound - n \in Nat
    OBVIOUS
  <2> QED BY <2>1
<1>2. PICK x \in U : \A y \in U : ~(<<y, x>> \in OpToRel(<, Nat))
  BY <1>1, NatLessThanWellFounded, WFMin
<1>3. \A y \in U : ~(y < x)
  BY <1>1, <1>2 DEF OpToRel
<1>4. PICK n \in T : x = bound - n
  OBVIOUS
<1>5. \A m \in T : bound - m \in U
  OBVIOUS
<1>6. \A m \in T : ~(bound - m < bound - n)
  BY <1>3, <1>4, <1>5
<1>7. \A m \in T : m <= n
  BY <1>6
<1> QED BY <1>7

LEMMA LatestDueIsNat ==
    ASSUME NEW r \in RuleRows, r.next \in Nat, NEW t \in Nat
    PROVE  LatestDue(r, t) \in Nat
<1> DEFINE slot(n) == r.every * (r.next \div r.every + n)
           passed == {n \in 1 .. MaxMissed : slot(n) <= t /\ Within(slot(n), r.ends) # Never}
           last == CHOOSE n \in passed : \A m \in passed : m <= n
<1>1. CASE passed = {}
  BY <1>1 DEF LatestDue
<1>2. CASE passed # {}
  <2>1. \E n \in passed : \A m \in passed : m <= n
    BY <1>2, GreatestExists, SchedulesAssumption
  <2>2. last \in passed
    BY <2>1
  <2>3. last \in Nat
    BY <2>2
  <2> HIDE DEF last
  <2>4. r.every \in Nat /\ r.next \div r.every \in Nat
    BY DivIsNat, SchedulesAssumption DEF RuleRows
  <2>5. r.next \div r.every + last \in Nat
    BY <2>3, <2>4
  <2>6. slot(last) \in Nat
    BY <2>4, <2>5, TimesIsNat
  <2> QED BY <1>2, <2>6 DEF LatestDue, last
<1> QED BY <1>1, <1>2

-----------------------------------------------------------------------------
(* The ticket and the advance. *)

LEMMA MaterializeKeeps ==
    ASSUME SchedulesInv, NEW s \in Rules, NEW slot \in Nat,
           rule[s].status = "active", Materialize(s, slot)
    PROVE  /\ rule' \in [Rules -> RuleRows] /\ made' \in [Rules -> Seq(Nat)]
           /\ OneTicketPerSlot' /\ SlotOnlyIfActive'
<1> DEFINE next == Within(SlotAfter(rule[s].every, slot), rule[s].ends)
<1>1. /\ rule \in [Rules -> RuleRows] /\ rule[s] \in RuleRows
      /\ made \in [Rules -> Seq(Nat)] /\ made[s] \in Seq(Nat)
  BY DEF SchedulesInv, SchedulesTypeOK
<1>2. CASE Taken(s, slot)
  BY <1>1, <1>2 DEF Materialize, SchedulesInv, OneTicketPerSlot, SlotOnlyIfActive
<1>3. CASE ~Taken(s, slot)
  <2>1. /\ made' = [made EXCEPT ![s] = Append(made[s], slot)]
        /\ rule' = [rule EXCEPT ![s] =
              [rule[s] EXCEPT !.next = next,
                              !.status = IF next = Never THEN "retired" ELSE @]]
    BY <1>1, <1>3 DEF Materialize
  <2>2. next \in Slots
    BY <1>1, SlotAfterIsNat, WithinIsASlot DEF RuleRows
  <2> HIDE DEF next
  <2>3. /\ rule'[s] \in RuleRows
        /\ rule'[s].next # Never => rule'[s].status = "active"
        /\ \A r \in Rules \ {s} : rule'[r] = rule[r]
        /\ rule' \in [Rules -> RuleRows]
    BY <1>1, <2>1, <2>2 DEF RuleRows, Slots, Statuses
  <2>4. Append(made[s], slot) \in Seq(Nat)
    BY <1>1
  <2>5. made' \in [Rules -> Seq(Nat)]
    BY <1>1, <2>1, <2>4
  <2>6. OneTicketPerSlot'
    <3> SUFFICES ASSUME NEW r \in Rules, NEW i \in DOMAIN made'[r], NEW j \in DOMAIN made'[r],
                        made'[r][i] = made'[r][j]
                 PROVE  i = j
      BY DEF OneTicketPerSlot
    <3>1. CASE r # s
      BY <1>1, <2>1, <3>1 DEF SchedulesInv, OneTicketPerSlot
    <3>2. CASE r = s
      <4>1. made'[s] = Append(made[s], slot)
        BY <1>1, <2>1
      <4>2. /\ DOMAIN made'[s] = 1 .. (Len(made[s]) + 1)
            /\ made'[s][Len(made[s]) + 1] = slot
            /\ \A k \in 1 .. Len(made[s]) : made'[s][k] = made[s][k] /\ made[s][k] # slot
        BY <1>1, <1>3, <4>1 DEF Taken
      <4>3. \A k, m \in 1 .. Len(made[s]) : made[s][k] = made[s][m] => k = m
        BY <1>1 DEF SchedulesInv, OneTicketPerSlot
      <4> QED BY <1>1, <3>2, <4>2, <4>3
    <3> QED BY <3>1, <3>2
  <2>7. SlotOnlyIfActive'
    BY <2>3 DEF SchedulesInv, SlotOnlyIfActive
  <2> QED BY <2>3, <2>5, <2>6, <2>7
<1> QED BY <1>2, <1>3

-----------------------------------------------------------------------------
(* The steps. *)

LEMMA RulesStep ==
    ASSUME SchedulesInv, UNCHANGED <<made, clock, sweep, shut>>, changes' \in Nat,
           NEW s \in Rules, NEW r \in RuleRows, r.next # Never => r.status = "active",
           rule' = [rule EXCEPT ![s] = r]
    PROVE  SchedulesInv'
BY DEF SchedulesInv, SchedulesTypeOK, OneTicketPerSlot, SlotOnlyIfActive

LEMMA ChangeCounts == SchedulesTypeOK /\ Change => changes' \in Nat
BY DEF SchedulesTypeOK, Change

LEMMA PeopleStep ==
    ASSUME SchedulesInv, NEW s \in Rules,
           \/ Create(s) \/ PatchSchedule(s) \/ Delete(s)
           \/ \E to \in {"active", "paused", "rejected"} : SetStatus(s, to)
    PROVE  SchedulesInv'
<1>1. /\ rule \in [Rules -> RuleRows] /\ rule[s] \in RuleRows /\ clock \in Nat
      /\ rule[s].next # Never => rule[s].status = "active"
  BY DEF SchedulesInv, SchedulesTypeOK, SlotOnlyIfActive
<1>2. Unborn \in RuleRows /\ Unborn.next = Never
  BY SchedulesAssumption DEF Unborn, RuleRows, Statuses
<1>3. CASE Create(s)
  <2>1. PICK e \in Cadences, end \in Ends, approval \in BOOLEAN :
            rule' = [rule EXCEPT ![s] =
                IF approval THEN [[Unborn EXCEPT !.every = e, !.ends = end]
                                    EXCEPT !.status = "pending"]
                ELSE Activated([Unborn EXCEPT !.every = e, !.ends = end], clock)]
    BY <1>3 DEF Create
  <2> DEFINE r == [Unborn EXCEPT !.every = e, !.ends = end]
             q == [r EXCEPT !.status = "pending"]
  <2>2. r \in RuleRows /\ q \in RuleRows /\ q.next = Never
    BY <1>2 DEF RuleRows, Statuses
  <2>3. Activated(r, clock) \in RuleRows
        /\ (Activated(r, clock).next # Never => Activated(r, clock).status = "active")
    BY <1>1, <2>2, ActivatedRow
  <2>4. rule' = [rule EXCEPT ![s] = q] \/ rule' = [rule EXCEPT ![s] = Activated(r, clock)]
    BY <2>1
  <2> HIDE DEF r, q
  <2> QED BY <1>3, <2>2, <2>3, <2>4, RulesStep, ChangeCounts DEF Create, SchedulesInv
<1>4. CASE PatchSchedule(s)
  <2>1. PICK e \in Cadences, end \in Ends :
            rule' = [rule EXCEPT ![s] =
                IF rule[s].status = "active"
                THEN [[rule[s] EXCEPT !.every = e, !.ends = end]
                        EXCEPT !.next = NextSlot([rule[s] EXCEPT !.every = e, !.ends = end],
                                                 clock)]
                ELSE [rule[s] EXCEPT !.every = e, !.ends = end]]
    BY <1>1, <1>4 DEF PatchSchedule, RuleRows
  <2> DEFINE r == [rule[s] EXCEPT !.every = e, !.ends = end]
             q == [r EXCEPT !.next = NextSlot(r, clock)]
  <2>2. r \in RuleRows /\ r.status = rule[s].status /\ r.next = rule[s].next
    BY <1>1 DEF RuleRows
  <2>3. NextSlot(r, clock) \in Slots
    BY <1>1, <2>2, ActivatedRow
  <2>4. q \in RuleRows /\ q.status = r.status
    BY <2>2, <2>3 DEF RuleRows, Slots
  <2>5. \/ rule[s].status = "active" /\ rule' = [rule EXCEPT ![s] = q]
        \/ rule' = [rule EXCEPT ![s] = r]
    BY <2>1
  <2> HIDE DEF r, q
  <2> QED BY <1>1, <1>4, <2>2, <2>4, <2>5, RulesStep, ChangeCounts
          DEF PatchSchedule, SchedulesInv
<1>5. CASE Delete(s)
  <2>1. [Unborn EXCEPT !.status = "deleted"] \in RuleRows
        /\ [Unborn EXCEPT !.status = "deleted"].next = Never
    BY <1>2 DEF RuleRows, Statuses
  <2> QED BY <1>5, <2>1, RulesStep, ChangeCounts DEF Delete, SchedulesInv
<1>6. ASSUME NEW to \in {"active", "paused", "rejected"}, SetStatus(s, to)
      PROVE  SchedulesInv'
  <2> DEFINE q == [rule[s] EXCEPT !.status = to, !.next = Never]
  <2>1. q \in RuleRows /\ q.next = Never
    BY <1>1 DEF RuleRows, Statuses
  <2>2. Activated(rule[s], clock) \in RuleRows
        /\ (Activated(rule[s], clock).next # Never
                => Activated(rule[s], clock).status = "active")
    BY <1>1, ActivatedRow
  <2>3. \/ rule' = [rule EXCEPT ![s] = q]
        \/ rule' = [rule EXCEPT ![s] = Activated(rule[s], clock)]
    BY <1>1, <1>6 DEF SetStatus
  <2> HIDE DEF q
  <2> QED BY <1>6, <2>1, <2>2, <2>3, RulesStep, ChangeCounts DEF SetStatus, SchedulesInv
<1> QED BY <1>3, <1>4, <1>5, <1>6

LEMMA RunNowStep ==
    ASSUME SchedulesInv, NEW s \in Rules, RunNow(s)
    PROVE  SchedulesInv'
<1> DEFINE slot == IF rule[s].next = Never THEN clock ELSE rule[s].next
<1>1. slot \in Nat /\ rule[s].status = "active" /\ Materialize(s, slot)
      /\ UNCHANGED <<clock, sweep, shut>> /\ changes' \in Nat
  BY ChangeCounts DEF RunNow, SchedulesInv, SchedulesTypeOK, RuleRows
<1> HIDE DEF slot
<1> QED BY <1>1, MaterializeKeeps DEF SchedulesInv, SchedulesTypeOK

LEMMA SweepStep ==
    ASSUME SchedulesInv, NEW d \in sweep.due, SweepOne(d)
    PROVE  SchedulesInv'
<1> DEFINE s == d.id  slot == LatestDue(rule[s], sweep.at)
<1>1. /\ sweep \in [due : SUBSET [id : Rules, slot : Nat], at : Nat]
      /\ rule \in [Rules -> RuleRows] /\ s \in Rules /\ rule[s] \in RuleRows
  BY DEF SchedulesInv, SchedulesTypeOK
<1>2. sweep' \in [due : SUBSET [id : Rules, slot : Nat], at : Nat]
  <2>1. Idle \in [due : SUBSET [id : Rules, slot : Nat], at : Nat]
    BY DEF Idle
  <2>2. [sweep EXCEPT !.due = sweep.due \ {d}]
            \in [due : SUBSET [id : Rules, slot : Nat], at : Nat]
    BY <1>1
  <2> QED BY <1>1, <2>1, <2>2 DEF SweepOne
<1>3. UNCHANGED <<clock, shut, changes>>
  BY DEF SweepOne
<1>4. CASE UNCHANGED <<rule, made>>
  BY <1>2, <1>3, <1>4
     DEF SchedulesInv, SchedulesTypeOK, OneTicketPerSlot, SlotOnlyIfActive
<1>5. CASE Fires(s) /\ Materialize(s, slot)
  <2>1. rule[s].status = "active" /\ rule[s].next \in Nat
    BY <1>1, <1>5 DEF Fires, Due, RuleRows
  <2>2. slot \in Nat
    BY <1>1, <2>1, LatestDueIsNat
  <2> QED BY <1>1, <1>2, <1>3, <1>5, <2>1, <2>2, MaterializeKeeps
          DEF SchedulesInv, SchedulesTypeOK
<1> QED BY <1>4, <1>5 DEF SweepOne

LEMMA ListStep ==
    ASSUME SchedulesInv, ListDueSchedules
    PROVE  SchedulesInv'
<1> DEFINE due == {s \in Rules : Due(s, clock)}
           listed == {[id |-> s, slot |-> rule[s].next] : s \in due}
<1>1. /\ rule \in [Rules -> RuleRows] /\ clock \in Nat
      /\ sweep' = [due |-> listed, at |-> clock]
      /\ UNCHANGED <<rule, made, clock, shut, changes>>
  BY DEF SchedulesInv, SchedulesTypeOK, ListDueSchedules
<1>2. \A s \in due : rule[s].next \in Nat
  BY <1>1 DEF Due, RuleRows
<1>3. listed \subseteq [id : Rules, slot : Nat]
  BY <1>2
<1> HIDE DEF listed
<1>4. sweep' \in [due : SUBSET [id : Rules, slot : Nat], at : Nat]
  BY <1>1, <1>3
<1> QED BY <1>1, <1>4 DEF SchedulesInv, SchedulesTypeOK, OneTicketPerSlot, SlotOnlyIfActive

LEMMA SchedulesInitGood == SchedulesInit => SchedulesInv
<1> SUFFICES ASSUME SchedulesInit
             PROVE  SchedulesInv
  OBVIOUS
<1>1. Unborn \in RuleRows /\ Unborn.next = Never
  BY SchedulesAssumption DEF Unborn, RuleRows, Statuses
<1>2. \A s \in Rules : rule[s].next = Never /\ made[s] = <<>>
  BY <1>1 DEF SchedulesInit
<1>3. SchedulesTypeOK
  <2>1. <<>> \in Seq(Nat) /\ Idle \in [due : SUBSET [id : Rules, slot : Nat], at : Nat]
    BY DEF Idle
  <2>2. made \in [Rules -> Seq(Nat)]
    BY <2>1 DEF SchedulesInit
  <2> QED BY <1>1, <2>1, <2>2 DEF SchedulesInit, SchedulesTypeOK
<1> QED BY <1>2, <1>3 DEF SchedulesInv, OneTicketPerSlot, SlotOnlyIfActive

LEMMA SchedulesStep == SchedulesInv /\ [SchedulesNext]_schedVars => SchedulesInv'
<1> SUFFICES ASSUME SchedulesInv, [SchedulesNext]_schedVars
             PROVE  SchedulesInv'
  OBVIOUS
<1>1. ASSUME NEW s \in Rules,
             \/ Create(s) \/ PatchSchedule(s) \/ Delete(s)
             \/ \E to \in {"active", "paused", "rejected"} : SetStatus(s, to)
      PROVE  SchedulesInv'
  BY <1>1, PeopleStep
<1>2. ASSUME NEW s \in Rules, RunNow(s)
      PROVE  SchedulesInv'
  BY <1>2, RunNowStep
<1>3. CASE SweepSome
  BY <1>3, SweepStep DEF SweepSome
<1>4. CASE ListDueSchedules
  BY <1>4, ListStep
<1>5. ASSUME UNCHANGED <<rule, made>>, clock' \in Nat, shut' \in BOOLEAN, changes' \in Nat,
             sweep' \in [due : SUBSET [id : Rules, slot : Nat], at : Nat]
      PROVE  SchedulesInv'
  BY <1>5 DEF SchedulesInv, SchedulesTypeOK, OneTicketPerSlot, SlotOnlyIfActive
<1>6. CASE ShutProject
  <2>1. shut' \in BOOLEAN
    BY <1>6 DEF ShutProject
  <2> QED BY <1>5, <1>6, <2>1, ChangeCounts DEF ShutProject, SchedulesInv, SchedulesTypeOK
<1>7. CASE RestartSweep
  <2>1. Idle \in [due : SUBSET [id : Rules, slot : Nat], at : Nat]
    BY DEF Idle
  <2> QED BY <1>5, <1>7, <2>1, ChangeCounts DEF RestartSweep, SchedulesInv, SchedulesTypeOK
<1>8. CASE ClockRuns \/ UNCHANGED schedVars
  BY <1>5, <1>8 DEF ClockRuns, schedVars, SchedulesInv, SchedulesTypeOK
<1> QED BY <1>1, <1>2, <1>3, <1>4, <1>6, <1>7, <1>8 DEF SchedulesNext

-----------------------------------------------------------------------------
(* The theorems. *)

\* The invariant holds, with no assumption of fairness.
THEOREM SchedulesInvariant == SchedulesSpec => []SchedulesInv
<1> QED BY SchedulesInitGood, SchedulesStep, PTL DEF SchedulesSpec

\* Every variable keeps to its type; a slot is always a time (latest_due_slot
\* and compute_next_slot).
THEOREM SchedulesTyped == SchedulesSpec => []SchedulesTypeOK
<1>1. SchedulesInv => SchedulesTypeOK
  BY DEF SchedulesInv
<1> QED BY <1>1, SchedulesInvariant, PTL

\* A slot gets one ticket, whatever sweeps, manual runs, edits and restarts race
\* for it (materialize_one and the unique index).
THEOREM OneTicketPerSlotHolds == SchedulesSpec => []OneTicketPerSlot
<1>1. SchedulesInv => OneTicketPerSlot
  BY DEF SchedulesInv
<1> QED BY <1>1, SchedulesInvariant, PTL

\* Only an active schedule has a slot (create, patch, set_schedule_status and
\* materialize_one keep next_slot NULL for all others).
THEOREM SlotOnlyIfActiveHolds == SchedulesSpec => []SlotOnlyIfActive
<1>1. SchedulesInv => SlotOnlyIfActive
  BY DEF SchedulesInv
<1> QED BY <1>1, SchedulesInvariant, PTL

-----------------------------------------------------------------------------
(* Live updates: a page at rest shows what is committed.                     *)
(*                                                                           *)
(* A change is never lost because at every moment somebody owes it to the    *)
(* page: the batch of the commit, the channel, the task of the socket, the   *)
(* wire, the greeting of a socket that is not greeted yet; or the page       *)
(* itself, which is dirty, has failed, or reads what is newer.               *)

\* A socket that will have v read again.
Brings(s, v) ==
    \/ s.task \in {"none", "accepted", "subscribed"}
    \/ s.lagged
    \/ \E i \in DOMAIN s.queue : Affects(TopicsFor(s.queue[i], Of[v]), v)
    \/ Affects(s.topics, v)
    \/ \E i \in DOMAIN s.wire : Affects(s.wire[i], v)

Coming(v) == Affects(TopicsFor(outbox, Of[v]), v) \/ Brings(socket[Of[v]], v)

\* What a page that neither waits for an answer nor plans to ask is about to
\* show.
Holds(h) == IF h.request = "served" THEN h.got ELSE h.seen

\* A page with work to do, or whose contents are those of `held'.
Settles(h, held) ==
    \/ ~h.automatic \/ h.dirty
    \/ h.request \in {"sent", "lost"}
    \/ h.request = "none" /\ h.failed
    \/ \A x \in DOMAIN h.seen : Holds(h)[x] = held[x]

\* Only a task that batches has topics in its hands.
TopicsInHand == \A p \in Homes : socket[p].task # "batching" => socket[p].topics = {}

ChangesAreOwed == \A v \in Views : Coming(v) \/ Settles(view[v], version)

UpdatesInv == UpdatesTypeOK /\ TopicsInHand /\ ChangesAreOwed

-----------------------------------------------------------------------------
(* The hook of a page.                                                       *)

LEMMA ScheduledHook ==
    ASSUME NEW v \in Views, NEW h \in Hooks(v)
    PROVE  /\ Scheduled(h) \in Hooks(v)
           /\ \A held : Settles(h, held) => Settles(Scheduled(h), held)
           /\ Scheduled(h).automatic = h.automatic
<1> DEFINE arm == Startable(h) /\ (h.dirty \/ Polls(h))
<1>1. arm \in BOOLEAN
  BY DEF Startable, Polls, Hooks
<1>2. Scheduled(h) = [h EXCEPT !.armed = arm]
  BY DEF Scheduled
<1> HIDE DEF arm
<1> QED BY <1>1, <1>2 DEF Hooks, Settles, Holds

LEMMA MarkedHook ==
    ASSUME NEW v \in Views, NEW h \in Hooks(v)
    PROVE  Marked(h) \in Hooks(v) /\ \A held : Settles(Marked(h), held)
<1>1. [h EXCEPT !.dirty = TRUE] \in Hooks(v)
  BY DEF Hooks
<1>2. \A held : Settles([h EXCEPT !.dirty = TRUE], held)
  BY DEF Hooks, Settles
<1> QED BY <1>1, <1>2, ScheduledHook DEF Marked

LEMMA AnsweredHook ==
    ASSUME NEW v \in Views, NEW h \in Hooks(v)
    PROVE  /\ Answered(h) \in Hooks(v)
           /\ Answered(h).request = "none" /\ Answered(h).seen = h.seen
           /\ Answered(h).automatic = h.automatic
           /\ Answered(h).failed = h.failed /\ Answered(h).dirty = h.dirty
<1>1. Nothing(h) \in [Reads[v] -> Nat]
  BY DEF Nothing, Hooks
<1> QED BY <1>1 DEF Answered, Hooks

LEMMA LoadedHook ==
    ASSUME NEW v \in Views, NEW h \in Hooks(v), h.request = "served"
    PROVE  /\ Loaded(h) \in Hooks(v)
           /\ \A held : Settles(h, held) => Settles(Loaded(h), held)
<1> DEFINE g == [Answered(h) EXCEPT !.seen = h.got, !.failed = FALSE]
<1>1. /\ g \in Hooks(v) /\ g.seen = h.got /\ g.request = "none"
      /\ g.automatic = h.automatic /\ g.dirty = h.dirty
  BY AnsweredHook DEF Hooks
<1>2. Loaded(h) = Scheduled(g)
  BY DEF Loaded
<1> HIDE DEF g
<1>3. ASSUME NEW held, Settles(h, held) PROVE Settles(g, held)
  <2>1. DOMAIN h.seen = DOMAIN h.got
    BY DEF Hooks
  <2> QED BY <1>1, <1>3, <2>1 DEF Settles, Holds
<1> QED BY <1>1, <1>2, <1>3, ScheduledHook

LEMMA MountedHook ==
    ASSUME NEW v \in Views, NEW h \in Hooks(v)
    PROVE  Mounted(h) \in Hooks(v) /\ \A held : Settles(Mounted(h), held)
<1>1. Nothing(h) \in [Reads[v] -> Nat]
  BY DEF Nothing, Hooks
<1>2. /\ Unloaded(h) \in Hooks(v) /\ Unloaded(h).dirty
  BY <1>1, AnsweredHook DEF Unloaded, Hooks
<1>3. ASSUME NEW g \in Hooks(v)
      PROVE  Started(g) \in Hooks(v) /\ \A held : Settles(Started(g), held)
  BY DEF Started, Hooks, Settles
<1> QED BY <1>2, <1>3 DEF Mounted, Settles

LEMMA StartedHook ==
    ASSUME NEW v \in Views, NEW h \in Hooks(v)
    PROVE  Started(h) \in Hooks(v) /\ \A held : Settles(Started(h), held)
BY DEF Started, Hooks, Settles

LEMMA UnansweredHook ==
    ASSUME NEW v \in Views, NEW h \in Hooks(v)
    PROVE  Unanswered(h) \in Hooks(v) /\ \A held : Settles(Unanswered(h), held)
<1>1. Nothing(h) \in [Reads[v] -> Nat]
  BY DEF Nothing, Hooks
<1>2. Unanswered(h) \in Hooks(v) /\ Unanswered(h).request = "lost"
  BY <1>1 DEF Unanswered, Hooks
<1> QED BY <1>2 DEF Settles

-----------------------------------------------------------------------------
(* Steps of one page.                                                        *)

\* A step of one page that keeps it as well informed as it was.
LEMMA PageKeeps ==
    ASSUME UpdatesInv, NEW v \in Views, NEW h \in Hooks(v),
           view' = [view EXCEPT ![v] = h], UNCHANGED <<version, outbox, socket>>,
           written' \in Nat, faults' \in Nat, whims' \in Nat,
           Settles(view[v], version) => Settles(h, version)
    PROVE  UpdatesInv'
<1>1. UpdatesTypeOK'
  <2>1. DOMAIN view' = Views /\ \A w \in Views : view'[w] \in Hooks(w)
    BY DEF UpdatesInv, UpdatesTypeOK
  <2> QED BY <2>1 DEF UpdatesInv, UpdatesTypeOK, Hooks
<1>2. TopicsInHand'
  BY DEF UpdatesInv, TopicsInHand
<1>3. ASSUME NEW w \in Views
      PROVE  (Coming(w) \/ Settles(view[w], version))'
  <2>1. Coming(w)' <=> Coming(w)
    BY DEF Coming, Brings
  <2>2. view'[w] = IF w = v THEN h ELSE view[w]
    BY DEF UpdatesInv, UpdatesTypeOK
  <2>3. Coming(w) \/ Settles(view[w], version)
    BY DEF UpdatesInv, ChangesAreOwed
  <2>4. Coming(w) \/ Settles(view'[w], version)
    BY <2>2, <2>3
  <2>5. Settles(view'[w], version') <=> Settles(view'[w], version)
    OBVIOUS
  <2> QED BY <2>1, <2>4, <2>5
<1> QED BY <1>1, <1>2, <1>3 DEF UpdatesInv, ChangesAreOwed

LEMMA PageSteps ==
    ASSUME UpdatesInv, NEW v \in Views, PageStep(v) \/ LoseRequest(v)
    PROVE  UpdatesInv'
<1>0. view[v] \in Hooks(v) /\ written \in Nat /\ faults \in Nat /\ whims \in Nat
  BY DEF UpdatesInv, UpdatesTypeOK
<1>1. CASE Rerender(v)
  <2> DEFINE g == [view[v] EXCEPT !.connected = socket[Of[v]].ready]
  <2>1. socket[Of[v]].ready \in BOOLEAN
    BY UpdatesAssumption DEF UpdatesAssumption, UpdatesInv, UpdatesTypeOK, SocketStates
  <2>2. g \in Hooks(v) /\ (Settles(view[v], version) => Settles(g, version))
    BY <1>0, <2>1 DEF Hooks, Settles, Holds
  <2>3. view' = [view EXCEPT ![v] = Scheduled(g)]
    BY <1>1 DEF Rerender, Rerendered
  <2> HIDE DEF g
  <2>4. Scheduled(g) \in Hooks(v) /\ (Settles(view[v], version) => Settles(Scheduled(g), version))
    BY <2>2, ScheduledHook
  <2> QED BY <1>0, <1>1, <2>3, <2>4, PageKeeps DEF Rerender
<1>2. CASE Fire(v)
  <2>1. Started(view[v]) \in Hooks(v) /\ Settles(Started(view[v]), version)
    BY <1>0, StartedHook
  <2> QED BY <1>0, <1>2, <2>1, PageKeeps DEF Fire
<1>3. CASE Serve(v)
  <2> DEFINE g == [view[v] EXCEPT !.request = "served", !.got = [x \in Reads[v] |-> version[x]]]
  <2>1. [x \in Reads[v] |-> version[x]] \in [Reads[v] -> Nat]
    BY UpdatesAssumption DEF UpdatesAssumption, UpdatesInv, UpdatesTypeOK
  <2>2. g \in Hooks(v) /\ Settles(g, version)
    BY <1>0, <2>1 DEF Hooks, Settles, Holds
  <2>3. view' = [view EXCEPT ![v] = g]
    BY <1>0, <1>3 DEF Serve
  <2> HIDE DEF g
  <2> QED BY <1>0, <1>3, <2>2, <2>3, PageKeeps DEF Serve
<1>4. CASE Load(v)
  <2>1. Loaded(view[v]) \in Hooks(v)
        /\ (Settles(view[v], version) => Settles(Loaded(view[v]), version))
    BY <1>0, <1>4, LoadedHook DEF Load
  <2> QED BY <1>0, <1>4, <2>1, PageKeeps DEF Load
<1>5. CASE FailRequest(v)
  <2> DEFINE g == [Answered(view[v]) EXCEPT !.failed = TRUE]
  <2>1. g \in Hooks(v) /\ g.request = "none" /\ g.failed
    BY <1>0, AnsweredHook DEF Hooks
  <2>2. view' = [view EXCEPT ![v] = Scheduled(g)]
    BY <1>5 DEF FailRequest
  <2> HIDE DEF g
  <2>3. Settles(g, version)
    BY <2>1 DEF Settles
  <2>4. Scheduled(g) \in Hooks(v) /\ Settles(Scheduled(g), version)
    BY <2>1, <2>3, ScheduledHook
  <2> QED BY <1>0, <1>5, <2>2, <2>4, PageKeeps DEF FailRequest
<1>6. CASE LoseRequest(v)
  <2>1. Unanswered(view[v]) \in Hooks(v) /\ Settles(Unanswered(view[v]), version)
    BY <1>0, UnansweredHook
  <2>2. faults' \in Nat
    BY <1>0, <1>6 DEF LoseRequest
  <2> QED BY <1>0, <1>6, <2>1, <2>2, PageKeeps DEF LoseRequest
<1> QED BY <1>1, <1>2, <1>3, <1>4, <1>5, <1>6 DEF PageStep

\* What people do to a page.
LEMMA WhimSteps ==
    ASSUME UpdatesInv, NEW v \in Views,
           Refresh(v) \/ Show(v) \/ Pause(v) \/ SetAutomatic(v) \/ Mount(v)
    PROVE  UpdatesInv'
<1>0. view[v] \in Hooks(v) /\ written \in Nat /\ faults \in Nat /\ whims \in Nat
  BY DEF UpdatesInv, UpdatesTypeOK
<1>w. ASSUME NEW h \in Hooks(v), Whim(v, h),
             Settles(view[v], version) => Settles(h, version)
      PROVE  UpdatesInv'
  <2>1. whims' \in Nat /\ written' \in Nat /\ faults' \in Nat
    BY <1>0, <1>w DEF Whim
  <2>2. view' = [view EXCEPT ![v] = h] /\ UNCHANGED <<version, outbox, socket>>
    BY <1>w DEF Whim
  <2> QED BY <1>w, <2>1, <2>2, PageKeeps
<1>1. CASE Refresh(v)
  <2>1. Marked(view[v]) \in Hooks(v) /\ Settles(Marked(view[v]), version)
    BY <1>0, MarkedHook
  <2> QED BY <1>1, <1>w, <2>1 DEF Refresh
<1>2. CASE Mount(v)
  <2>1. Mounted(view[v]) \in Hooks(v) /\ Settles(Mounted(view[v]), version)
    BY <1>0, MountedHook
  <2> QED BY <1>2, <1>w, <2>1 DEF Mount
<1>3. CASE Show(v)
  <2> DEFINE page == [view[v] EXCEPT !.visible = ~@]
             shown == IF ~page.visible THEN [page EXCEPT !.armed = FALSE]
                      ELSE IF page.automatic THEN Marked(page) ELSE Scheduled(page)
  <2>1. Whim(v, shown)
    BY <1>3 DEF Show
  <2>2. page \in Hooks(v) /\ (Settles(view[v], version) => Settles(page, version))
    BY <1>0 DEF Hooks, Settles, Holds
  <2> HIDE DEF page
  <2>3. /\ [page EXCEPT !.armed = FALSE] \in Hooks(v)
        /\ Settles(page, version) => Settles([page EXCEPT !.armed = FALSE], version)
    BY <2>2 DEF Hooks, Settles, Holds
  <2>4. Marked(page) \in Hooks(v) /\ Settles(Marked(page), version)
    BY <2>2, MarkedHook
  <2>5. Scheduled(page) \in Hooks(v)
        /\ (Settles(page, version) => Settles(Scheduled(page), version))
    BY <2>2, ScheduledHook
  <2>6. shown \in Hooks(v) /\ (Settles(view[v], version) => Settles(shown, version))
    BY <2>2, <2>3, <2>4, <2>5
  <2> HIDE DEF shown
  <2> QED BY <1>w, <2>1, <2>6
<1>4. CASE Pause(v)
  <2> DEFINE page == [view[v] EXCEPT !.paused = ~@]
             again == [Answered(page) EXCEPT !.dirty = TRUE]
             woken == IF page.paused /\ page.request # "none"
                      THEN Scheduled(again) ELSE Scheduled(page)
  <2>1. Whim(v, woken)
    BY <1>4 DEF Pause
  <2>2. page \in Hooks(v) /\ (Settles(view[v], version) => Settles(page, version))
    BY <1>0 DEF Hooks, Settles, Holds
  <2> HIDE DEF page
  <2>a. Answered(page) \in Hooks(v)
    BY <2>2, AnsweredHook
  <2>b. again \in Hooks(v) /\ again.dirty
    BY <2>a DEF Hooks
  <2> HIDE DEF again
  <2>3. again \in Hooks(v) /\ Settles(again, version)
    BY <2>b DEF Settles
  <2>4. Scheduled(again) \in Hooks(v) /\ Settles(Scheduled(again), version)
    BY <2>3, ScheduledHook
  <2>5. Scheduled(page) \in Hooks(v)
        /\ (Settles(page, version) => Settles(Scheduled(page), version))
    BY <2>2, ScheduledHook
  <2>6. woken \in Hooks(v) /\ (Settles(view[v], version) => Settles(woken, version))
    BY <2>2, <2>4, <2>5
  <2> HIDE DEF woken
  <2> QED BY <1>w, <2>1, <2>6
<1>5. CASE SetAutomatic(v)
  <2> DEFINE page == [view[v] EXCEPT !.automatic = ~@]
             next == [page EXCEPT !.dirty = @ \/ page.automatic]
  <2>1. Whim(v, Scheduled(next))
    BY <1>5 DEF SetAutomatic
  <2>2. page \in Hooks(v)
    BY <1>0 DEF Hooks
  <2> HIDE DEF page
  <2>3. next \in Hooks(v) /\ (next.automatic => next.dirty)
    BY <2>2 DEF Hooks
  <2> HIDE DEF next
  <2>4. Settles(next, version)
    BY <2>3 DEF Settles
  <2>5. Scheduled(next) \in Hooks(v) /\ Settles(Scheduled(next), version)
    BY <2>3, <2>4, ScheduledHook
  <2> QED BY <1>w, <2>1, <2>5
<1> QED BY <1>1, <1>2, <1>3, <1>4, <1>5

-----------------------------------------------------------------------------
(* Steps of one socket.                                                      *)

\* A message put in a queue is in it, and so are the others.
LEMMA Appended ==
    ASSUME NEW S, NEW q \in Seq(S), NEW e \in S
    PROVE  /\ Append(q, e) \in Seq(S)
           /\ \A i \in DOMAIN q : i \in DOMAIN Append(q, e) /\ Append(q, e)[i] = q[i]
           /\ \E i \in DOMAIN Append(q, e) : Append(q, e)[i] = e
<1>1. /\ Append(q, e) \in Seq(S) /\ DOMAIN q = 1..Len(q) /\ Len(q) \in Nat
      /\ DOMAIN Append(q, e) = 1..Len(q) + 1
      /\ Append(q, e)[Len(q) + 1] = e
      /\ \A i \in 1..Len(q) : Append(q, e)[i] = q[i]
  OBVIOUS
<1>2. Len(q) + 1 \in DOMAIN Append(q, e) /\ 1..Len(q) \subseteq 1..Len(q) + 1
  BY <1>1
<1> QED BY <1>1, <1>2

\* What is taken from a queue was its head, and the others stay.
LEMMA TakenOff ==
    ASSUME NEW S, NEW q \in Seq(S), q # <<>>
    PROVE  /\ Tail(q) \in Seq(S) /\ Head(q) \in S
           /\ \A i \in DOMAIN q :
                 q[i] = Head(q) \/ \E j \in DOMAIN Tail(q) : Tail(q)[j] = q[i]
<1>1. /\ Tail(q) \in Seq(S) /\ Head(q) \in S /\ Head(q) = q[1]
      /\ Len(q) \in Nat \ {0} /\ DOMAIN q = 1..Len(q)
      /\ DOMAIN Tail(q) = 1..Len(q) - 1
      /\ \A j \in 1..Len(q) - 1 : Tail(q)[j] = q[j + 1]
  OBVIOUS
<1>2. ASSUME NEW i \in DOMAIN q, i # 1
      PROVE  \E j \in DOMAIN Tail(q) : Tail(q)[j] = q[i]
  <2>1. i - 1 \in DOMAIN Tail(q) /\ Tail(q)[i - 1] = q[i]
    BY <1>1, <1>2
  <2> QED BY <2>1
<1> QED BY <1>1, <1>2

LEMMA TopicsAreTopics ==
    ASSUME NEW batch \in Batches, NEW p \in Homes
    PROVE  TopicsFor(batch, p) \subseteq Topics
BY DEF TopicsFor, Batches

\* Topics among others stir whoever they stir.
LEMMA MoreAffects ==
    ASSUME NEW v \in Views, NEW few, NEW many, few \subseteq many, Affects(few, v)
    PROVE  Affects(many, v)
BY DEF Affects

\* A step of one socket after which it brings what it would have brought.
LEMMA SocketKeeps ==
    ASSUME UpdatesInv, NEW p \in Homes, NEW s \in SocketStates,
           socket' = [socket EXCEPT ![p] = s],
           UNCHANGED <<version, outbox, view, written, whims>>, faults' \in Nat,
           s.task # "batching" => s.topics = {},
           \A v \in Views : Of[v] = p /\ Brings(socket[p], v) => Brings(s, v)
    PROVE  UpdatesInv'
<1>1. UpdatesTypeOK'
  <2>1. socket' \in [Homes -> SocketStates]
    BY DEF UpdatesInv, UpdatesTypeOK
  <2> QED BY <2>1 DEF UpdatesInv, UpdatesTypeOK
<1>2. \A q \in Homes : socket'[q] = IF q = p THEN s ELSE socket[q]
  BY DEF UpdatesInv, UpdatesTypeOK
<1>3. TopicsInHand'
  BY <1>2 DEF UpdatesInv, TopicsInHand
<1>4. ASSUME NEW v \in Views
      PROVE  (Coming(v) \/ Settles(view[v], version))'
  <2>1. Of[v] \in Homes
    BY UpdatesAssumption DEF UpdatesAssumption
  <2>2. Brings(socket[Of[v]], v) => Brings(socket'[Of[v]], v)
    BY <1>2, <2>1
  <2>3. Coming(v) \/ Settles(view[v], version)
    BY DEF UpdatesInv, ChangesAreOwed
  <2>4. Brings(socket'[Of[v]], v) => Coming(v)'
    BY DEF Coming, Brings
  <2>5. Affects(TopicsFor(outbox, Of[v]), v) => Coming(v)'
    BY DEF Coming
  <2> QED BY <2>2, <2>3, <2>4, <2>5 DEF Coming
<1> QED BY <1>1, <1>3, <1>4 DEF UpdatesInv, ChangesAreOwed

LEMMA GreetStep ==
    ASSUME UpdatesInv, NEW p \in Homes, Greet(p)
    PROVE  UpdatesInv'
<1> DEFINE greeting == {All}
           s == [socket[p] EXCEPT !.task = "listening", !.wire = Append(socket[p].wire, greeting)]
<1>0. socket[p] \in SocketStates /\ faults' \in Nat
  BY DEF UpdatesInv, UpdatesTypeOK, Greet
<1>1. socket' = [socket EXCEPT ![p] = s]
  BY <1>0 DEF Greet, UpdatesInv, UpdatesTypeOK
<1>a. greeting \in SUBSET Topics /\ \A v \in Views : Affects(greeting, v)
  BY DEF Topics, Affects
<1> HIDE DEF greeting
<1>2. /\ Append(socket[p].wire, greeting) \in Seq(SUBSET Topics)
      /\ \E i \in DOMAIN Append(socket[p].wire, greeting) :
            Append(socket[p].wire, greeting)[i] = greeting
  <2>1. socket[p].wire \in Seq(SUBSET Topics)
    BY <1>0 DEF SocketStates
  <2> QED BY <1>a, <2>1, Appended
<1>3. s \in SocketStates /\ s.task = "listening" /\ s.topics = socket[p].topics
      /\ s.wire = Append(socket[p].wire, greeting)
  BY <1>0, <1>2 DEF SocketStates
<1>4. s.topics = {}
  BY <1>3 DEF UpdatesInv, TopicsInHand, Greet
<1> HIDE DEF s
<1>5. \A v \in Views : Brings(s, v)
  BY <1>a, <1>2, <1>3 DEF Brings
<1> QED BY <1>0, <1>1, <1>3, <1>4, <1>5, SocketKeeps DEF Greet

LEMMA ReceiveStep ==
    ASSUME UpdatesInv, NEW p \in Homes, Receive(p)
    PROVE  UpdatesInv'
<1> DEFINE o == socket[p]
           first == IF o.lagged THEN {} ELSE TopicsFor(Head(o.queue), p)
           topics == Lost(o) \cup first
           rest == IF o.lagged THEN o.queue ELSE Tail(o.queue)
           s == [o EXCEPT !.lagged = FALSE, !.topics = topics, !.queue = rest,
                          !.task = IF topics = {} THEN o.task ELSE "batching"]
<1>0. o \in SocketStates /\ faults' \in Nat /\ o.task = "listening"
      /\ (o.lagged \/ o.queue # <<>>) /\ o.topics = {}
  BY DEF UpdatesInv, UpdatesTypeOK, Receive, TopicsInHand
<1>1. socket' = [socket EXCEPT ![p] = s]
  BY <1>0 DEF Receive, UpdatesInv, UpdatesTypeOK
<1>2. o.queue \in Seq(Batches) /\ o.lagged \in BOOLEAN
  BY <1>0 DEF SocketStates
<1> HIDE DEF o
<1>3. rest \in Seq(Batches)
  BY <1>0, <1>2, TakenOff
<1>4. topics \subseteq Topics
  <2>1. ~o.lagged => Head(o.queue) \in Batches
    BY <1>0, <1>2, TakenOff
  <2>2. first \subseteq Topics
    BY <2>1, TopicsAreTopics
  <2> QED BY <2>2 DEF Lost, Topics
<1>5. /\ ~o.lagged => \A i \in DOMAIN o.queue :
            o.queue[i] = Head(o.queue) \/ \E j \in DOMAIN rest : rest[j] = o.queue[i]
  BY <1>0, <1>2, TakenOff
<1>6. o.lagged => \A v \in Views : Affects(topics, v)
  BY DEF Affects, Lost
<1>7. ~o.lagged => topics = TopicsFor(Head(o.queue), p)
  BY DEF Lost
<1> HIDE DEF topics, rest
<1>8. /\ s \in SocketStates /\ s.topics = topics /\ s.queue = rest /\ s.wire = o.wire
      /\ s.task = IF topics = {} THEN "listening" ELSE "batching"
  BY <1>0, <1>3, <1>4 DEF SocketStates
<1> HIDE DEF s
<1>9. ASSUME NEW v \in Views, Of[v] = p, Brings(o, v)
      PROVE  Brings(s, v)
  <2>1. CASE o.lagged
    BY <1>6, <1>8, <2>1 DEF Brings
  <2>2. CASE ~o.lagged
    <3>1. CASE \E i \in DOMAIN o.wire : Affects(o.wire[i], v)
      BY <1>8, <3>1 DEF Brings
    <3>2. CASE \E i \in DOMAIN o.queue : Affects(TopicsFor(o.queue[i], Of[v]), v)
      <4>1. PICK i \in DOMAIN o.queue : Affects(TopicsFor(o.queue[i], p), v)
        BY <1>9, <3>2
      <4>2. CASE o.queue[i] = Head(o.queue)
        BY <1>7, <1>8, <2>2, <4>1, <4>2 DEF Brings
      <4>3. CASE \E j \in DOMAIN rest : rest[j] = o.queue[i]
        BY <1>8, <1>9, <4>1, <4>3 DEF Brings
      <4> QED BY <1>5, <2>2, <4>2, <4>3
    <3> QED BY <1>0, <1>9, <2>2, <3>1, <3>2 DEF Brings, Affects
  <2> QED BY <2>1, <2>2
<1>10. s.task # "batching" => s.topics = {}
  BY <1>8
<1>11. UNCHANGED <<version, outbox, view, written, whims>>
  BY DEF Receive
<1> QED BY <1>0, <1>1, <1>8, <1>9, <1>10, <1>11, SocketKeeps DEF o

LEMMA SendStep ==
    ASSUME UpdatesInv, NEW p \in Homes, Send(p)
    PROVE  UpdatesInv'
<1> DEFINE o == socket[p]
           topics == o.topics \cup Lost(o)
                        \cup UNION {TopicsFor(o.queue[i], p) : i \in DOMAIN o.queue}
           message == IF All \in topics THEN {All} ELSE topics
           s == [o EXCEPT !.task = "listening", !.topics = {}, !.queue = <<>>,
                          !.lagged = FALSE, !.wire = Append(o.wire, message)]
<1>0. o \in SocketStates /\ faults' \in Nat /\ o.task = "batching"
  BY DEF UpdatesInv, UpdatesTypeOK, Send
<1>1. socket' = [socket EXCEPT ![p] = s]
  BY <1>0 DEF Send, UpdatesInv, UpdatesTypeOK
<1> HIDE DEF o
<1>2. topics \subseteq Topics
  <2>1. o.topics \subseteq Topics /\ Lost(o) \subseteq Topics
    BY <1>0 DEF SocketStates, Lost, Topics
  <2>2. ASSUME NEW i \in DOMAIN o.queue PROVE TopicsFor(o.queue[i], p) \subseteq Topics
    <3>1. o.queue[i] \in Batches
      BY <1>0 DEF SocketStates
    <3> QED BY <3>1, TopicsAreTopics
  <2> QED BY <2>1, <2>2
<1>3. \A v \in Views : Affects(topics, v) => Affects(message, v)
  BY DEF Affects
<1>4. /\ o.topics \subseteq topics
      /\ o.lagged => All \in topics
      /\ \A i \in DOMAIN o.queue : TopicsFor(o.queue[i], p) \subseteq topics
  BY DEF Lost
<1>5. message \in SUBSET Topics
  BY <1>2 DEF Topics
<1> HIDE DEF topics, message
<1>6. /\ Append(o.wire, message) \in Seq(SUBSET Topics)
      /\ \A i \in DOMAIN o.wire : i \in DOMAIN Append(o.wire, message)
                                     /\ Append(o.wire, message)[i] = o.wire[i]
      /\ \E i \in DOMAIN Append(o.wire, message) : Append(o.wire, message)[i] = message
  <2>1. o.wire \in Seq(SUBSET Topics)
    BY <1>0 DEF SocketStates
  <2> QED BY <1>5, <2>1, Appended
<1>7. /\ s \in SocketStates /\ s.topics = {} /\ s.task = "listening"
      /\ s.wire = Append(o.wire, message)
  <2>1. <<>> \in Seq(Batches)
    OBVIOUS
  <2>2. s \in SocketStates
    BY <1>0, <1>6, <2>1 DEF SocketStates
  <2> QED BY <1>0, <2>2 DEF SocketStates
<1> HIDE DEF s
<1>8. ASSUME NEW v \in Views, Of[v] = p, Brings(o, v)
      PROVE  Brings(s, v)
  <2>1. CASE \E i \in DOMAIN o.wire : Affects(o.wire[i], v)
    BY <1>6, <1>7, <2>1 DEF Brings
  <2>2. CASE Affects(topics, v)
    BY <1>3, <1>6, <1>7, <2>2 DEF Brings
  <2>3. CASE \E i \in DOMAIN o.queue : Affects(TopicsFor(o.queue[i], Of[v]), v)
    <3>1. Affects(topics, v)
      BY <1>4, <1>8, <2>3, MoreAffects
    <3> QED BY <2>2, <3>1
  <2>4. o.lagged \/ Affects(o.topics, v) => Affects(topics, v)
    BY <1>4, MoreAffects DEF Affects
  <2> QED BY <1>0, <1>8, <2>1, <2>2, <2>3, <2>4 DEF Brings
<1>9. UNCHANGED <<version, outbox, view, written, whims>>
  BY DEF Send
<1> QED BY <1>0, <1>1, <1>7, <1>8, <1>9, SocketKeeps DEF o

LEMMA DeadIsDead ==
    ASSUME NEW o \in SocketStates
    PROVE  Dead(o) \in SocketStates /\ Dead(o).task = "none" /\ Dead(o).topics = {}
<1>1. <<>> \in Seq(Batches)
  OBVIOUS
<1>2. Dead(o) \in SocketStates
  BY <1>1 DEF Dead, SocketStates
<1> QED BY <1>2 DEF Dead, SocketStates

\* An end that is gone, or waits to be greeted, brings everything.
LEMMA FreshBrings ==
    ASSUME UpdatesInv, NEW p \in Homes,
           Connect(p) \/ Notice(p) \/ Break(p) \/ Subscribe(p)
    PROVE  UpdatesInv'
<1>0. socket[p] \in SocketStates /\ faults \in Nat
      /\ (socket[p].task # "batching" => socket[p].topics = {})
  BY DEF UpdatesInv, UpdatesTypeOK, TopicsInHand
<1>1. Closed \in SocketStates /\ Closed.topics = {}
  BY DEF Closed, SocketStates
<1>2. ASSUME NEW s \in SocketStates, s.task \in {"none", "accepted", "subscribed"},
             s.topics = {}, faults' \in Nat,
             UNCHANGED <<version, outbox, view, written, whims>>,
             socket' = [socket EXCEPT ![p] = s]
      PROVE  UpdatesInv'
  <2>1. \A v \in Views : Brings(s, v)
    BY <1>2 DEF Brings
  <2> QED BY <1>2, <2>1, SocketKeeps
<1>3. CASE Connect(p)
  <2> DEFINE s == [Closed EXCEPT !.open = TRUE, !.task = "accepted"]
  <2>1. s \in SocketStates /\ s.task = "accepted" /\ s.topics = {}
    <3>1. s \in SocketStates
      BY <1>1 DEF SocketStates
    <3> QED BY <1>1 DEF SocketStates
  <2>2. socket' = [socket EXCEPT ![p] = s] /\ faults' \in Nat
        /\ UNCHANGED <<version, outbox, view, written, whims>>
    BY <1>0, <1>3 DEF Connect
  <2> HIDE DEF s
  <2> QED BY <1>2, <2>1, <2>2
<1>4. CASE Notice(p)
  <2>1. socket' = [socket EXCEPT ![p] = Closed] /\ faults' \in Nat
        /\ UNCHANGED <<version, outbox, view, written, whims>>
    BY <1>0, <1>4 DEF Notice
  <2>2. Closed.task = "none"
    BY DEF Closed
  <2> QED BY <1>1, <1>2, <2>1, <2>2
<1>5. CASE Break(p)
  <2> DEFINE s == Dead(socket[p])
  <2>1. s \in SocketStates /\ s.task = "none" /\ s.topics = {}
    BY <1>0, DeadIsDead
  <2>2. socket' = [socket EXCEPT ![p] = s] /\ faults' \in Nat
        /\ UNCHANGED <<version, outbox, view, written, whims>>
    BY <1>0, <1>5 DEF Break
  <2> HIDE DEF s
  <2> QED BY <1>2, <2>1, <2>2
<1>6. CASE Subscribe(p)
  <2> DEFINE s == [socket[p] EXCEPT !.task = "subscribed"]
  <2>1. s \in SocketStates /\ s.task = "subscribed" /\ s.topics = {}
    BY <1>0, <1>6 DEF Subscribe, SocketStates
  <2>2. socket' = [socket EXCEPT ![p] = s] /\ faults' \in Nat
        /\ UNCHANGED <<version, outbox, view, written, whims>>
    BY <1>0, <1>6 DEF Subscribe, UpdatesInv, UpdatesTypeOK
  <2> HIDE DEF s
  <2> QED BY <1>2, <2>1, <2>2
<1> QED BY <1>3, <1>4, <1>5, <1>6

-----------------------------------------------------------------------------
(* The writer, and the steps of a socket and its pages together.             *)

\* Whatever a transaction changed of what a page reads, its batch says so to the
\* page's socket: the rules of live_updates.rs against the pages' topics.
LEMMA WritesStir ==
    ASSUME NEW ws \in Writes, NEW v \in Views, NEW x \in Reads[v], NEW w \in ws, x \in Touched(w)
    PROVE  Affects(TopicsFor(UNION {Journalled(u) : u \in ws}, Of[v]), v)
<1> DEFINE batch == UNION {Journalled(u) : u \in ws}
<1> USE UpdatesAssumption DEF UpdatesAssumption
<1>1. w \in RowWrites /\ x \in Things
  OBVIOUS
<1>2. /\ x[1] \in {w.table} \cup Children(w.table) /\ x[2] \in Owners(w)
  BY <1>1 DEF Touched
<1>3. /\ Rule[x[1]].of = "all" \/ x[2] = Of[v]
      /\ Rule[x[1]].topics \cap (Listens[v] \cup {All}) # {}
  OBVIOUS
<1>4. Rule[x[1]].topics \subseteq Rule[w.table].topics
      /\ (Rule[x[1]].of = "all" => Rule[w.table].of = "all")
  BY <1>1, <1>2 DEF Children, Rule, Tables, RowWrites
<1>5. PICK topic \in Rule[w.table].topics : topic = All \/ topic \in Listens[v]
  BY <1>3, <1>4
<1>6. PICK home \in {Of[v], Everywhere} : <<home, topic>> \in Journalled(w)
  <2>1. CASE Rule[w.table].of = "all"
    BY <2>1, <1>5 DEF Journalled
  <2>2. CASE Rule[w.table].of # "all"
    BY <2>2, <1>2, <1>3, <1>4, <1>5 DEF Journalled
  <2> QED BY <2>1, <2>2
<1>7. <<home, topic>> \in batch
  BY <1>6
<1> HIDE DEF batch
<1>8. topic \in TopicsFor(batch, Of[v])
  BY <1>6, <1>7 DEF TopicsFor
<1>9. Affects(TopicsFor(batch, Of[v]), v)
  BY <1>5, <1>8 DEF Affects
<1> QED BY <1>9 DEF batch

LEMMA JournalIsABatch ==
    ASSUME NEW ws \in Writes
    PROVE  UNION {Journalled(u) : u \in ws} \in Batches
<1>1. ASSUME NEW u \in RowWrites
      PROVE  Journalled(u) \subseteq (Homes \cup {Everywhere}) \X Topics
  <2>1. Rule[u.table].topics \subseteq Topics /\ Owners(u) \subseteq Homes
    BY DEF Rule, RowWrites, Tables, Topics, Owners
  <2>2. All \in Topics
    BY DEF Topics
  <2> QED BY <2>1, <2>2 DEF Journalled
<1>2. ws \subseteq RowWrites
  BY UpdatesAssumption DEF UpdatesAssumption
<1> QED BY <1>1, <1>2 DEF Batches

LEMMA CommitStep ==
    ASSUME UpdatesInv, NEW ws \in Writes, Commit(ws)
    PROVE  UpdatesInv'
<1> DEFINE touched == UNION {Touched(w) : w \in ws}
<1>1. /\ outbox' = UNION {Journalled(w) : w \in ws}
      /\ version' = [x \in Things |-> IF x \in touched THEN version[x] + 1 ELSE version[x]]
      /\ UNCHANGED <<socket, view, faults, whims>> /\ written' = written + 1 /\ outbox = {}
  BY DEF Commit
<1>2. UpdatesTypeOK'
  <2>1. outbox' \in Batches
    BY <1>1, JournalIsABatch
  <2>2. version' \in [Things -> Nat]
    BY <1>1 DEF UpdatesInv, UpdatesTypeOK
  <2>3. written' \in Nat /\ faults' \in Nat /\ whims' \in Nat
    BY <1>1 DEF UpdatesInv, UpdatesTypeOK
  <2>4. socket' \in [Homes -> SocketStates]
        /\ DOMAIN view' = Views /\ \A v \in Views : view'[v] \in Hooks(v)
    BY <1>1 DEF UpdatesInv, UpdatesTypeOK
  <2> QED BY <2>1, <2>2, <2>3, <2>4 DEF UpdatesTypeOK, Hooks
<1>3. TopicsInHand'
  BY <1>1 DEF UpdatesInv, TopicsInHand
<1>4. ASSUME NEW v \in Views
      PROVE  (Coming(v) \/ Settles(view[v], version))'
  <2>0. view[v] \in Hooks(v)
    BY DEF UpdatesInv, UpdatesTypeOK
  <2>1. CASE \E x \in Reads[v] : x \in touched
    <3>1. PICK x \in Reads[v], w \in ws : x \in Touched(w)
      BY <2>1
    <3>2. Affects(TopicsFor(UNION {Journalled(u) : u \in ws}, Of[v]), v)
      BY <3>1, WritesStir
    <3> QED BY <1>1, <3>2 DEF Coming
  <2>2. CASE \A x \in Reads[v] : x \notin touched
    <3>1. \A x \in DOMAIN view[v].seen : version'[x] = version[x]
      BY <1>1, <2>0, <2>2, UpdatesAssumption DEF UpdatesAssumption, Hooks
    <3>2. Settles(view[v], version) => Settles(view[v], version')
      BY <3>1 DEF Settles
    <3>3. ~Affects(TopicsFor(outbox, Of[v]), v)
      BY <1>1 DEF TopicsFor, Affects
    <3>4. Coming(v) \/ Settles(view[v], version)
      BY DEF UpdatesInv, ChangesAreOwed
    <3>5. Brings(socket[Of[v]], v) => Coming(v)'
      BY <1>1 DEF Coming, Brings
    <3> QED BY <1>1, <3>2, <3>3, <3>4, <3>5 DEF Coming
  <2> QED BY <2>1, <2>2
<1> QED BY <1>2, <1>3, <1>4 DEF UpdatesInv, ChangesAreOwed

\* The channel keeps the batch for every receiver, or lets it know it lags.
LEMMA KeptBrings ==
    ASSUME NEW s \in SocketStates, NEW batch \in Batches
    PROVE  /\ Kept(s, batch) \in SocketStates
           /\ Kept(s, batch).task = s.task /\ Kept(s, batch).topics = s.topics
           /\ \A v \in Views :
                 /\ Affects(TopicsFor(batch, Of[v]), v) => Brings(Kept(s, batch), v)
                 /\ Brings(s, v) => Brings(Kept(s, batch), v)
<1>0. s.queue \in Seq(Batches)
  BY DEF SocketStates
<1>1. CASE s.task \in {"none", "accepted"}
  BY <1>1 DEF Kept, Brings
<1>2. CASE s.task \notin {"none", "accepted"} /\ Len(s.queue) < Capacity
  <2> DEFINE q == Append(s.queue, batch)
             n == [s EXCEPT !.queue = q]
  <2>1. Kept(s, batch) = n
    BY <1>2 DEF Kept
  <2>2. /\ q \in Seq(Batches)
        /\ \A i \in DOMAIN s.queue : i \in DOMAIN q /\ q[i] = s.queue[i]
        /\ \E i \in DOMAIN q : q[i] = batch
    BY <1>0, Appended
  <2> HIDE DEF q
  <2>3. /\ n \in SocketStates /\ n.queue = q /\ n.task = s.task /\ n.topics = s.topics
        /\ n.wire = s.wire /\ n.lagged = s.lagged
    BY <2>2 DEF SocketStates
  <2> HIDE DEF n
  <2>4. ASSUME NEW v \in Views
        PROVE  /\ Affects(TopicsFor(batch, Of[v]), v) => Brings(n, v)
               /\ Brings(s, v) => Brings(n, v)
    BY <2>2, <2>3 DEF Brings
  <2> QED BY <2>1, <2>3, <2>4
<1>3. CASE s.task \notin {"none", "accepted"} /\ ~(Len(s.queue) < Capacity)
  <2> DEFINE q == Append(Tail(s.queue), batch)
             n == [s EXCEPT !.queue = q, !.lagged = TRUE]
  <2>1. Kept(s, batch) = n
    BY <1>3 DEF Kept
  <2>2. s.queue # <<>>
    BY <1>0, <1>3, UpdatesAssumption DEF UpdatesAssumption
  <2>3. q \in Seq(Batches)
    BY <1>0, <2>2, TakenOff, Appended
  <2> HIDE DEF q
  <2>4. n \in SocketStates /\ n.task = s.task /\ n.topics = s.topics /\ n.lagged
    BY <2>3 DEF SocketStates
  <2> HIDE DEF n
  <2>5. \A v \in Views : Brings(n, v)
    BY <2>4 DEF Brings
  <2> QED BY <2>1, <2>4, <2>5
<1> QED BY <1>1, <1>2, <1>3

LEMMA AnnounceStep ==
    ASSUME UpdatesInv, Announce
    PROVE  UpdatesInv'
<1>0. outbox \in Batches /\ socket \in [Homes -> SocketStates]
  BY DEF UpdatesInv, UpdatesTypeOK
<1>1. \A p \in Homes : socket'[p] = Kept(socket[p], outbox)
  BY DEF Announce
<1>2. UpdatesTypeOK'
  <2>1. socket' \in [Homes -> SocketStates]
    BY <1>0, KeptBrings DEF Announce
  <2>2. outbox' \in Batches
    BY DEF Announce, Batches
  <2> QED BY <2>1, <2>2 DEF Announce, UpdatesInv, UpdatesTypeOK
<1>3. TopicsInHand'
  BY <1>0, <1>1, KeptBrings DEF UpdatesInv, TopicsInHand
<1>4. ASSUME NEW v \in Views
      PROVE  (Coming(v) \/ Settles(view[v], version))'
  <2>1. Of[v] \in Homes
    BY UpdatesAssumption DEF UpdatesAssumption
  <2>2. Coming(v) => Brings(socket'[Of[v]], v)
    BY <1>0, <1>1, <2>1, KeptBrings DEF Coming
  <2>3. Brings(socket'[Of[v]], v) => Coming(v)'
    BY DEF Coming, Brings
  <2>4. Settles(view[v], version) => Settles(view[v], version)'
    BY DEF Announce, Settles, Holds
  <2>5. Coming(v) \/ Settles(view[v], version)
    BY DEF UpdatesInv, ChangesAreOwed
  <2> QED BY <2>2, <2>3, <2>4, <2>5
<1> QED BY <1>2, <1>3, <1>4 DEF UpdatesInv, ChangesAreOwed

LEMMA CrashStep ==
    ASSUME UpdatesInv, CrashServer
    PROVE  UpdatesInv'
<1>0. socket \in [Homes -> SocketStates] /\ faults \in Nat
      /\ \A v \in Views : view[v] \in Hooks(v)
  BY DEF UpdatesInv, UpdatesTypeOK
<1>1. ASSUME NEW v \in Views PROVE view'[v] \in Hooks(v)
  <2>1. Unanswered(view[v]) \in Hooks(v)
    BY <1>0, UnansweredHook
  <2>2. view'[v] = view[v] \/ view'[v] = Unanswered(view[v])
    BY DEF CrashServer
  <2> QED BY <1>0, <2>1, <2>2
<1>2. UpdatesTypeOK'
  <2>1. socket' \in [Homes -> SocketStates]
    BY <1>0, DeadIsDead DEF CrashServer
  <2>2. outbox' \in Batches /\ faults' \in Nat /\ DOMAIN view' = Views
    BY <1>0 DEF CrashServer, Batches
  <2>3. version' \in [Things -> Nat] /\ written' \in Nat /\ whims' \in Nat
    BY DEF CrashServer, UpdatesInv, UpdatesTypeOK
  <2> QED BY <1>1, <2>1, <2>2, <2>3 DEF UpdatesTypeOK, Hooks
<1>3. \A p \in Homes : socket'[p].task = "none" /\ socket'[p].topics = {}
  BY <1>0, DeadIsDead DEF CrashServer
<1>4. TopicsInHand'
  BY <1>3 DEF TopicsInHand
<1>5. ASSUME NEW v \in Views PROVE Coming(v)'
  <2>1. Of[v] \in Homes
    BY UpdatesAssumption DEF UpdatesAssumption
  <2> QED BY <1>3, <2>1 DEF Coming, Brings
<1> QED BY <1>2, <1>4, <1>5 DEF UpdatesInv, ChangesAreOwed

LEMMA HearStep ==
    ASSUME UpdatesInv, NEW p \in Homes, Hear(p)
    PROVE  UpdatesInv'
<1> DEFINE o == socket[p]
           s == [o EXCEPT !.ready = TRUE, !.wire = Tail(o.wire)]
           Stirred(v) == Of[v] = p /\ view[v].automatic /\ Affects(Head(o.wire), v)
<1>0. o \in SocketStates /\ socket \in [Homes -> SocketStates] /\ o.wire # <<>>
      /\ DOMAIN view = Views /\ \A v \in Views : view[v] \in Hooks(v)
  BY DEF UpdatesInv, UpdatesTypeOK, Hear
<1>1. socket' = [socket EXCEPT ![p] = s]
  BY <1>0 DEF Hear
<1>2. \A v \in Views : view'[v] = IF Stirred(v) THEN Marked(view[v]) ELSE view[v]
  BY DEF Hear
<1>3. /\ Tail(o.wire) \in Seq(SUBSET Topics)
      /\ \A i \in DOMAIN o.wire :
            o.wire[i] = Head(o.wire) \/ \E j \in DOMAIN Tail(o.wire) : Tail(o.wire)[j] = o.wire[i]
  <2>1. o.wire \in Seq(SUBSET Topics)
    BY <1>0 DEF SocketStates
  <2> QED BY <1>0, <2>1, TakenOff
<1>4. /\ s \in SocketStates /\ s.task = o.task /\ s.lagged = o.lagged /\ s.queue = o.queue
      /\ s.topics = o.topics /\ s.wire = Tail(o.wire)
  BY <1>0, <1>3 DEF SocketStates
<1>5. \A q \in Homes : socket'[q] = IF q = p THEN s ELSE socket[q]
  BY <1>0, <1>1
<1> HIDE DEF s
<1>6. UpdatesTypeOK'
  <2>1. socket' \in [Homes -> SocketStates]
    BY <1>0, <1>1, <1>4
  <2>2. ASSUME NEW v \in Views PROVE view'[v] \in Hooks(v)
    <3>1. Marked(view[v]) \in Hooks(v)
      BY <1>0, MarkedHook
    <3> QED BY <1>0, <1>2, <3>1
  <2>3. DOMAIN view' = Views /\ UNCHANGED <<version, outbox, written, faults, whims>>
    BY DEF Hear
  <2> QED BY <2>1, <2>2, <2>3 DEF UpdatesInv, UpdatesTypeOK, Hooks
<1>7. TopicsInHand'
  BY <1>4, <1>5 DEF UpdatesInv, TopicsInHand
<1>8. ASSUME NEW v \in Views
      PROVE  (Coming(v) \/ Settles(view[v], version))'
  <2>0. Of[v] \in Homes /\ UNCHANGED <<version, outbox>>
    BY UpdatesAssumption DEF UpdatesAssumption, Hear
  <2>1. Coming(v) \/ Settles(view[v], version)
    BY DEF UpdatesInv, ChangesAreOwed
  <2>2. CASE Stirred(v)
    <3>1. Settles(Marked(view[v]), version)
      BY <1>0, MarkedHook
    <3> QED BY <1>2, <2>0, <2>2, <3>1 DEF Settles
  <2>3. CASE ~Stirred(v)
    <3>1. view'[v] = view[v]
      BY <1>2, <2>3
    <3>2. Settles(view[v], version) => Settles(view[v], version)'
      BY <2>0, <3>1 DEF Settles, Holds
    <3>3. ~view[v].automatic => Settles(view[v], version)
      BY DEF Settles
    <3>4. ASSUME Brings(socket[Of[v]], v), view[v].automatic
          PROVE  Brings(socket'[Of[v]], v)
      <4>1. CASE Of[v] # p
        BY <1>5, <2>0, <3>4, <4>1
      <4>2. CASE Of[v] = p
        <5>1. ~Affects(Head(o.wire), v)
          BY <2>3, <3>4, <4>2
        <5>2. Brings(s, v)
          BY <1>3, <1>4, <3>4, <4>2, <5>1 DEF Brings
        <5> QED BY <1>5, <4>2, <5>2
      <4> QED BY <4>1, <4>2
    <3>5. Brings(socket'[Of[v]], v) => Coming(v)'
      BY DEF Coming, Brings
    <3>6. Affects(TopicsFor(outbox, Of[v]), v) => Coming(v)'
      BY <2>0 DEF Coming
    <3> QED BY <2>1, <3>2, <3>3, <3>4, <3>5, <3>6 DEF Coming
  <2> QED BY <2>2, <2>3
<1> QED BY <1>6, <1>7, <1>8 DEF UpdatesInv, ChangesAreOwed

-----------------------------------------------------------------------------
LEMMA UpdatesInitGood == UpdatesInit => UpdatesInv
<1> SUFFICES ASSUME UpdatesInit PROVE UpdatesInv
  OBVIOUS
<1>1. Closed \in SocketStates /\ Closed.topics = {}
  BY DEF Closed, SocketStates
<1>2. ASSUME NEW v \in Views PROVE view[v] \in Hooks(v) /\ Settles(view[v], version)
  <2>1. Fallow(v) \in Hooks(v)
    BY DEF Fallow, Hooks
  <2>2. view[v] = Mounted(Fallow(v))
    BY DEF UpdatesInit
  <2> QED BY <2>1, <2>2, MountedHook
<1>3. UpdatesTypeOK
  <2>1. outbox \in Batches /\ DOMAIN view = Views
    BY DEF UpdatesInit, Batches
  <2>2. version \in [Things -> Nat] /\ written \in Nat /\ faults \in Nat /\ whims \in Nat
    BY DEF UpdatesInit
  <2>3. socket \in [Homes -> SocketStates]
    BY <1>1 DEF UpdatesInit
  <2> QED BY <1>2, <2>1, <2>2, <2>3 DEF UpdatesTypeOK
<1>4. TopicsInHand
  BY <1>1 DEF UpdatesInit, TopicsInHand
<1> QED BY <1>2, <1>3, <1>4 DEF UpdatesInv, ChangesAreOwed

LEMMA UpdatesStep == UpdatesInv /\ [UpdatesNext]_updVars => UpdatesInv'
<1> SUFFICES ASSUME UpdatesInv, [UpdatesNext]_updVars PROVE UpdatesInv'
  OBVIOUS
<1>1. CASE \E ws \in Writes : Commit(ws)
  BY <1>1, CommitStep
<1>2. CASE Announce
  BY <1>2, AnnounceStep
<1>3. CASE CrashServer
  BY <1>3, CrashStep
<1>4. ASSUME NEW p \in Homes, ServerStep(p) \/ BrowserStep(p) \/ Break(p)
      PROVE  UpdatesInv'
  BY <1>4, FreshBrings, GreetStep, ReceiveStep, SendStep, HearStep DEF ServerStep, BrowserStep
<1>5. ASSUME NEW v \in Views,
             \/ PageStep(v) \/ LoseRequest(v) \/ Refresh(v)
             \/ Show(v) \/ Pause(v) \/ SetAutomatic(v) \/ Mount(v)
      PROVE  UpdatesInv'
  BY <1>5, PageSteps, WhimSteps
<1>6. CASE UNCHANGED updVars
  BY <1>6 DEF updVars, UpdatesInv, UpdatesTypeOK, Hooks, TopicsInHand, ChangesAreOwed,
              Coming, Brings, Settles, Holds
<1> QED BY <1>1, <1>2, <1>3, <1>4, <1>5, <1>6 DEF UpdatesNext

\* The journal, the channel, the sockets and the pages keep to their types, and
\* whatever a page does not show yet is owed to it by one of them.
THEOREM UpdatesInvariant == UpdatesSpec => []UpdatesInv
<1> QED BY UpdatesInitGood, UpdatesStep, PTL DEF UpdatesSpec

\* Every variable keeps to its type (live_updates.rs, docsync.rs, web/src/hooks).
THEOREM UpdatesTyped == UpdatesSpec => []UpdatesTypeOK
<1>1. UpdatesInv => UpdatesTypeOK
  BY DEF UpdatesInv
<1> QED BY <1>1, UpdatesInvariant, PTL

\* A page that rests shows what is committed, for any number of projects, pages,
\* writes and faults and any capacity of the channel (useLiveRefresh).
THEOREM QuietIsCurrentHolds == UpdatesSpec => []QuietIsCurrent
<1>1. UpdatesInv => QuietIsCurrent
  <2> SUFFICES ASSUME UpdatesInv, NEW v \in Views, Watching(v), Quiet(v) PROVE UpToDate(v)
    BY DEF QuietIsCurrent
  <2>1. Of[v] \in Homes /\ view[v] \in Hooks(v)
    BY UpdatesAssumption DEF UpdatesAssumption, UpdatesInv, UpdatesTypeOK
  <2>2. ~Affects({}, v)
    BY DEF Affects
  <2>3. ~Brings(socket[Of[v]], v)
    <3>1. /\ socket[Of[v]].task = "listening" /\ ~socket[Of[v]].lagged
          /\ socket[Of[v]].topics = {}
      BY <2>1 DEF Quiet, UpdatesInv, TopicsInHand
    <3>2. DOMAIN socket[Of[v]].queue = {} /\ DOMAIN socket[Of[v]].wire = {}
      <4>1. DOMAIN <<>> = {}
        OBVIOUS
      <4> QED BY <4>1 DEF Quiet
    <3> QED BY <2>2, <3>1, <3>2 DEF Brings
  <2>4. ~Affects(TopicsFor(outbox, Of[v]), v)
    BY <2>2 DEF Quiet, TopicsFor, Affects
  <2>5. Settles(view[v], version)
    BY <2>3, <2>4 DEF UpdatesInv, ChangesAreOwed, Coming
  <2>6. \A x \in DOMAIN view[v].seen : view[v].seen[x] = version[x]
    BY <2>1, <2>5 DEF Settles, Holds, Watching, Quiet
  <2> QED BY <2>1, <2>6 DEF UpToDate, Hooks
<1> QED BY <1>1, UpdatesInvariant, PTL
=============================================================================
