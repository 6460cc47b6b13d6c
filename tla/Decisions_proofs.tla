-------------------------- MODULE Decisions_proofs --------------------------
(***************************************************************************)
(* What holds of Reviews for any number of people, threads, requests and   *)
(* crashes, and of Proposals for any texts, offers and pages.              *)
(*                                                                         *)
(* Reviews.  SentAsOne needs that an action touches threads that are       *)
(* there; that a receipt stays true needs that what took effect stays in   *)
(* the store; that answers are current needs that nobody names a version   *)
(* ahead of the review, nor was it cleared ahead of its version.           *)
(*                                                                         *)
(* Proposals.  What a decision says must be explained by the facts that    *)
(* are known wherever the decision is known, so it is said of what the     *)
(* server will know after each update that is under way from a page        *)
(* (AllAreExplained).  What Apply leaves out and changes, for operations   *)
(* of any number, is ApplyIs; that they land as they are meant is          *)
(* ApplyMeans, of the text, and AcceptedReads, of what is shown of it once *)
(* it is merged into the order of all blocks.                              *)
(***************************************************************************)
EXTENDS Reviews, Proposals, SequenceTheorems, WellFoundedInduction, TLAPS

\* Whoever was told a request succeeded still has it done.
ToldIsTook == \A req \in Sends \cup Acts : <<req, "ok">> \in told => Took(req)

\* A request that is served was made, about a review that was sent.
CallsAreMade ==
    /\ \A n \in Calls : calls[n] \in Acts => asked[calls[n]] # NoAct
    /\ \A a \in Acts : asked[a] # NoAct => review[asked[a].try.on] # NoReview

\* A review was cleared at one of its versions.
ClearedBefore == \A s \in Sends : review[s] # NoReview => review[s].cleared <= review[s].version

ReviewsInv ==
    /\ ReviewsTypeOK /\ SentAsOne /\ ToldIsTook
    /\ CallsAreMade /\ ClearedBefore /\ AnswersAreCurrent

-----------------------------------------------------------------------------
LEMMA SendsAreTyped ==
    ASSUME NEW s \in Sends
    PROVE  /\ SendOf[s].new \subseteq Threads /\ SendOf[s].old \subseteq Threads
           /\ ThreadsOf(s) \subseteq Threads /\ SendOf[s].to \subseteq Users
BY ReviewsAssumption DEF ReviewsAssumption, SendReview, ThreadsOf

LEMMA ReviewsInitGood == ReviewsInit => ReviewsInv
<1> SUFFICES ASSUME ReviewsInit PROVE ReviewsInv
  OBVIOUS
<1> USE ReviewsAssumption DEF ReviewsInit, ReviewsAssumption
<1>1. /\ room \in [Threads -> {"none", "open", "resolved", "gone"}]
      /\ \A t \in Threads : room[t] # "none" <=> ~\E s \in Sends : t \in SendOf[s].new
  OBVIOUS
<1>2. ReviewsTypeOK
  <2>1. logged = room /\ told = {} /\ acted = {} /\ shut = FALSE /\ whims \in 0..MaxWhims
    OBVIOUS
  <2>2. review \in [Sends -> Review \cup {NoReview}]
    OBVIOUS
  <2>3. asked \in [Acts -> ReviewAction \cup {NoAct}]
    OBVIOUS
  <2>4. calls \in [Calls -> Sends \cup Acts \cup {NoCall}]
    OBVIOUS
  <2> HIDE DEF ReviewsInit, ReviewsAssumption
  <2> QED BY <1>1, <2>1, <2>2, <2>3, <2>4 DEF ReviewsTypeOK
<1>3. SentAsOne
  BY <1>1, SendsAreTyped DEF SentAsOne
<1>4. ToldIsTook /\ CallsAreMade
  BY DEF ToldIsTook, CallsAreMade
<1>5. ClearedBefore /\ AnswersAreCurrent
  BY DEF ClearedBefore, AnswersAreCurrent
<1> QED BY <1>2, <1>3, <1>4, <1>5 DEF ReviewsInv

-----------------------------------------------------------------------------
(* Requests come in.                                                       *)

LEMMA BeginSendKeeps ==
    ASSUME ReviewsInv, NEW n \in Calls, NEW s \in Sends, BeginSend(n, s)
    PROVE  ReviewsInv'
<1> USE ReviewsAssumption DEF ReviewsAssumption, ReviewsInv, BeginSend, Begin, Told
<1>1. ReviewsTypeOK'
  BY DEF ReviewsTypeOK
<1>2. SentAsOne' /\ ClearedBefore' /\ AnswersAreCurrent'
  BY DEF SentAsOne, ClearedBefore, AnswersAreCurrent
<1>3. ToldIsTook'
  BY DEF ToldIsTook, Took
<1>4. CallsAreMade'
  BY DEF CallsAreMade, ReviewsTypeOK
<1> QED BY <1>1, <1>2, <1>3, <1>4

\* The first time it comes in fixes what a request asks for.
LEMMA BeginActKeeps ==
    ASSUME ReviewsInv, NEW n \in Calls, NEW a \in Acts, BeginAct(n, a)
    PROVE  ReviewsInv'
<1> USE ReviewsAssumption DEF ReviewsAssumption, ReviewsInv
<1>1. Begin(n, a)
  BY DEF BeginAct
<1>2. /\ asked' \in [Acts -> ReviewAction \cup {NoAct}]
      /\ asked'[a] # NoAct
      /\ \A b \in Acts : asked[b] # NoAct => asked'[b] # NoAct
      /\ \A b \in Acts : asked'[b] # NoAct => review[asked'[b].try.on] # NoReview
  <2>1. CASE asked[a] # NoAct
    BY <2>1 DEF BeginAct, ReviewsTypeOK, CallsAreMade
  <2>2. CASE asked[a] = NoAct
    <3>1. PICK try \in Tries : /\ review[try.on] # NoReview
                               /\ \E v \in 1..review[try.on].version :
                                     asked' = [asked EXCEPT ![a] = [try |-> try, version |-> v]]
      BY <2>2 DEF BeginAct
    <3>2. try \in Attempt /\ review[try.on] \in Review
      BY <3>1 DEF ReviewsTypeOK, Attempt
    <3>3. PICK v \in 1..review[try.on].version :
                asked' = [asked EXCEPT ![a] = [try |-> try, version |-> v]]
      BY <3>1
    <3>4. [try |-> try, version |-> v] \in ReviewAction
      BY <3>2, <3>3 DEF Review, ReviewAction
    <3> QED BY <3>1, <3>3, <3>4 DEF ReviewsTypeOK, CallsAreMade
  <2> QED BY <2>1, <2>2
<1>3. ReviewsTypeOK'
  BY <1>1, <1>2 DEF ReviewsTypeOK, Begin, Told
<1>4. SentAsOne' /\ ClearedBefore' /\ AnswersAreCurrent'
  BY <1>1 DEF SentAsOne, ClearedBefore, AnswersAreCurrent, Begin
<1>5. ToldIsTook'
  BY <1>1 DEF ToldIsTook, Took, Begin, Told
<1>6. CallsAreMade'
  <2>1. \A m \in Calls : calls'[m] \in Acts => calls'[m] = a \/ calls'[m] = calls[m]
    BY <1>1 DEF Begin, ReviewsTypeOK
  <2>2. review' = review
    BY <1>1 DEF Begin
  <2> QED BY <1>2, <2>1, <2>2 DEF CallsAreMade
<1> QED BY <1>3, <1>4, <1>5, <1>6

-----------------------------------------------------------------------------
(* Sends take effect.                                                      *)

\* The comments of a send that is saved appear, and nobody else's.
LEMMA CommitSendShows ==
    ASSUME ReviewsInv, NEW n \in Calls, CommitSend(n), NEW s \in Sends, calls[n] = s
    PROVE  /\ room' \in [Threads -> {"none", "open", "resolved", "gone"}]
           /\ logged' \in [Threads -> {"none", "open", "resolved", "gone"}]
           /\ \/ /\ review[s] = NoReview
                 /\ room' = Published(s) /\ logged' = room'
                 /\ review' = [review EXCEPT ![s] =
                       [status |-> "open", version |-> 1, to |-> SendOf[s].to,
                        responses |-> Nobody, wrote |-> [p \in People |-> 0], cleared |-> 1]]
                 /\ told' = told \cup {<<s, "ok">>}
              \/ /\ UNCHANGED <<room, logged, review>>
                 /\ told' = told \cup {<<s, Receipt(s)>>}
<1> USE DEF ReviewsInv, ReviewsTypeOK
<1>1. Published(s) \in [Threads -> {"none", "open", "resolved", "gone"}]
  BY DEF Published
<1>2. CASE Publishable(s) /\ Savable(s)
  BY <1>1, <1>2 DEF CommitSend, Shown, Kept, Savable, Told
<1>3. CASE ~(Publishable(s) /\ Savable(s))
  BY <1>3 DEF CommitSend, Shown, Kept, Told
<1> QED BY <1>2, <1>3

LEMMA CommitSendKeeps ==
    ASSUME ReviewsInv, NEW n \in Calls, CommitSend(n)
    PROVE  ReviewsInv'
<1> USE DEF ReviewsInv
<1>1. PICK s \in Sends : calls[n] = s
  BY DEF CommitSend
<1>2. /\ calls' = [calls EXCEPT ![n] = NoCall]
      /\ UNCHANGED <<asked, acted, shut, whims>>
  BY DEF CommitSend
<1>3. CASE /\ review[s] = NoReview
           /\ room' = Published(s) /\ logged' = room'
           /\ review' = [review EXCEPT ![s] =
                 [status |-> "open", version |-> 1, to |-> SendOf[s].to,
                  responses |-> Nobody, wrote |-> [p \in People |-> 0], cleared |-> 1]]
           /\ told' = told \cup {<<s, "ok">>}
  <2> DEFINE r == [status |-> "open", version |-> 1, to |-> SendOf[s].to,
                   responses |-> Nobody, wrote |-> [p \in People |-> 0], cleared |-> 1]
  <2>1. r \in Review /\ r # NoReview
    <3>1. r \in Review
      BY <1>1, SendsAreTyped DEF Review, Nobody
    <3> QED BY <3>1, ReviewsAssumption
  <2>2. /\ review' = [review EXCEPT ![s] = r]
        /\ \A q \in Sends : review'[q] = IF q = s THEN r ELSE review[q]
    BY <1>1, <1>3 DEF ReviewsTypeOK
  <2>3. ReviewsTypeOK'
    BY <1>1, <1>2, <1>3, <2>1, <2>2, CommitSendShows DEF ReviewsTypeOK
  <2>4. SentAsOne'
    <3> SUFFICES ASSUME NEW q \in Sends, NEW t \in SendOf[q].new
                 PROVE  /\ review'[q] # NoReview <=> room'[t] # "none"
                        /\ room'[t] = logged'[t]
      BY <1>3 DEF SentAsOne
    <3>1. t \in Threads
      BY SendsAreTyped
    <3>2. t \in SendOf[s].new <=> q = s
      BY <1>1, ReviewsAssumption
    <3>3. room'[t] = IF q = s THEN "open" ELSE room[t]
      BY <1>3, <3>1, <3>2 DEF Published
    <3> HIDE DEF r
    <3> QED BY <1>3, <2>1, <2>2, <3>3 DEF SentAsOne
  <2>5. ToldIsTook'
    <3>1. \A req \in Sends \cup Acts : Took(req) => Took(req)'
      BY <1>2, <2>1, <2>2 DEF Took
    <3>2. Took(s)'
      BY <1>1, <2>1, <2>2 DEF Took
    <3> QED BY <1>3, <3>1, <3>2 DEF ToldIsTook
  <2>6. CallsAreMade'
    <3>1. \A a \in Acts : asked[a] # NoAct => review'[asked[a].try.on] # NoReview
      <4> HIDE DEF r
      <4> QED BY <2>1, <2>2 DEF CallsAreMade, ReviewsTypeOK, ReviewAction, Attempt
    <3>2. \A m \in Calls : calls'[m] \in Acts => calls'[m] = calls[m]
      BY <1>2, ReviewsAssumption DEF ReviewsTypeOK
    <3> HIDE DEF r
    <3> QED BY <1>2, <3>1, <3>2 DEF CallsAreMade
  <2>7. ClearedBefore' /\ AnswersAreCurrent'
    <3>1. r.cleared <= r.version /\ \A p \in People : r.responses[p] = "none"
      BY DEF Nobody
    <3> HIDE DEF r
    <3> QED BY <2>2, <3>1 DEF ClearedBefore, AnswersAreCurrent
  <2> QED BY <2>3, <2>4, <2>5, <2>6, <2>7
<1>4. CASE UNCHANGED <<room, logged, review>> /\ told' = told \cup {<<s, Receipt(s)>>}
  <2>1. ReviewsTypeOK'
    BY <1>1, <1>2, <1>4 DEF ReviewsTypeOK, Receipt
  <2>2. SentAsOne' /\ ClearedBefore' /\ AnswersAreCurrent'
    BY <1>4 DEF SentAsOne, ClearedBefore, AnswersAreCurrent
  <2>3. ToldIsTook'
    BY <1>1, <1>2, <1>4 DEF ToldIsTook, Took, Receipt
  <2>4. CallsAreMade'
    <3>1. \A m \in Calls : calls'[m] \in Acts => calls'[m] = calls[m]
      BY <1>2, ReviewsAssumption DEF ReviewsTypeOK
    <3> QED BY <1>2, <1>4, <3>1 DEF CallsAreMade
  <2> QED BY <2>1, <2>2, <2>3, <2>4
<1> QED BY <1>1, <1>3, <1>4, CommitSendShows

-----------------------------------------------------------------------------
(* Acts take effect.                                                       *)

\* A request that is served has an author and a review that was sent.
LEMMA ServedIsTyped ==
    ASSUME ReviewsInv, NEW n \in Calls, NEW a \in Acts, calls[n] = a
    PROVE  /\ asked[a] \in ReviewAction /\ asked[a].try \in Attempt
           /\ asked[a].try.on \in Sends /\ asked[a].try.by \in People
           /\ asked[a].version \in Nat
           /\ review[asked[a].try.on] # NoReview
           /\ review[asked[a].try.on] \in Review
BY DEF ReviewsInv, ReviewsTypeOK, CallsAreMade, ReviewAction, Attempt

\* An action on a thread that is there leaves all threads that are there.
LEMMA AppliedKeepsThreads ==
    ASSUME ReviewsInv, NEW act \in Attempt, Applicable(act)
    PROVE  /\ Applied(act) \in [Threads -> {"none", "open", "resolved", "gone"}]
           /\ \A t \in Threads : Applied(act)[t] # "none" <=> room[t] # "none"
<1>1. room \in [Threads -> {"none", "open", "resolved", "gone"}]
  BY DEF ReviewsInv, ReviewsTypeOK
<1>2. CASE act.does \in {"resolve", "unresolve"}
  <2>1. act.thread \in ThreadsOf(act.on) /\ room[act.thread] # "none" /\ act.on \in Sends
    BY <1>2 DEF Applicable, Absent, Attempt
  <2>2. act.thread \in Threads
    BY <2>1, SendsAreTyped
  <2> QED BY <1>1, <1>2, <2>1, <2>2 DEF Applied
<1>3. CASE act.does \notin {"resolve", "unresolve"}
  BY <1>1, <1>3 DEF Applied
<1> QED BY <1>2, <1>3

\* An action counts the version up; it clears the responses there, or writes one
\* at the version its author saw.
LEMMA UpdatedIsReview ==
    ASSUME ReviewsInv, NEW act \in Attempt, NEW seen \in Nat, review[act.on] \in Review
    PROVE  /\ Updated(act, seen) \in Review
           /\ Updated(act, seen).version = review[act.on].version + 1
           /\ \/ /\ Updated(act, seen).responses = Nobody
                 /\ Updated(act, seen).cleared = review[act.on].version + 1
              \/ /\ Updated(act, seen).cleared = review[act.on].cleared
                 /\ \A p \in People \ {act.by} :
                       /\ Updated(act, seen).responses[p] = review[act.on].responses[p]
                       /\ Updated(act, seen).wrote[p] = review[act.on].wrote[p]
                 /\ \/ Updated(act, seen).wrote[act.by] = seen
                    \/ /\ Updated(act, seen).responses = review[act.on].responses
                       /\ Updated(act, seen).wrote = review[act.on].wrote
<1> DEFINE r == review[act.on]
           u == Updated(act, seen)
           status == {"open", "in_progress", "ready", "closed"}
<1>1. /\ r.status \in status /\ r.version \in Nat /\ r.to \in SUBSET Users
      /\ r.responses \in [People -> {"none", "reply", "done"}]
      /\ r.wrote \in [People -> Nat] /\ r.cleared \in Nat
      /\ act.by \in People /\ act.to \in SUBSET Users
  BY DEF Review, Attempt
<1>2. /\ u.status = Status(act, r.status) /\ u.version = r.version + 1
      /\ u.to = IF act.does = "assign" THEN act.to ELSE r.to
      /\ u.responses = IF act.does \in {"reopen", "assign"} THEN Nobody
                       ELSE IF act.does \in {"reply", "reviewed", "close"}
                       THEN [r.responses EXCEPT ![act.by] = Responded(act, @)]
                       ELSE r.responses
      /\ u.wrote = IF act.does \in {"reply", "reviewed", "close"}
                   THEN [r.wrote EXCEPT ![act.by] = seen] ELSE r.wrote
      /\ u.cleared = IF act.does \in {"reopen", "assign"} THEN r.version + 1 ELSE r.cleared
  BY DEF Updated
<1>3. /\ Status(act, r.status) \in status
      /\ Responded(act, r.responses[act.by]) \in {"none", "reply", "done"}
  BY <1>1 DEF Status, Responded
<1>4. u \in Review
  <2>1. u.responses \in [People -> {"none", "reply", "done"}] /\ u.wrote \in [People -> Nat]
    BY <1>1, <1>2, <1>3 DEF Nobody
  <2> QED BY <1>1, <1>2, <1>3, <2>1 DEF Updated, Review
<1> QED BY <1>1, <1>2, <1>4

\* What an act does when it takes effect, or nothing.
LEMMA CommitActDoes ==
    ASSUME ReviewsInv, NEW n \in Calls, CommitAct(n), NEW a \in Acts, calls[n] = a
    PROVE  \/ /\ Applicable(asked[a].try) /\ Fresh(asked[a])
              /\ Allowed(asked[a].try, room')
              /\ room' = Applied(asked[a].try) /\ logged' = room'
              /\ review' = [review EXCEPT ![asked[a].try.on] =
                              Updated(asked[a].try, asked[a].version)]
              /\ acted' = acted \cup {a} /\ told' = told \cup {<<a, "ok">>}
           \/ /\ UNCHANGED <<room, logged, review, acted>>
              /\ told' = told \cup {<<a, Receipt(a)>>}
<1> DEFINE act == asked[a].try
<1>1. CASE /\ Applicable(act) /\ ~shut /\ Fresh(asked[a])
           /\ Allowed(act, IF Applicable(act) THEN Applied(act) ELSE room)
  BY <1>1 DEF CommitAct, Shown, Kept, Told
<1>2. CASE ~ /\ Applicable(act) /\ ~shut /\ Fresh(asked[a])
             /\ Allowed(act, IF Applicable(act) THEN Applied(act) ELSE room)
  BY <1>2 DEF CommitAct, Shown, Kept, Told
<1> QED BY <1>1, <1>2

LEMMA CommitActKeeps ==
    ASSUME ReviewsInv, NEW n \in Calls, CommitAct(n)
    PROVE  ReviewsInv'
<1> USE DEF ReviewsInv
<1>1. PICK a \in Acts : calls[n] = a
  BY DEF CommitAct
<1>2. calls' = [calls EXCEPT ![n] = NoCall] /\ UNCHANGED <<asked, shut, whims>>
  BY DEF CommitAct
<1>3. \A m \in Calls : calls'[m] \in Acts => calls'[m] = calls[m]
  BY <1>2, ReviewsAssumption DEF ReviewsTypeOK
<1>4. CASE /\ Applicable(asked[a].try) /\ Fresh(asked[a])
           /\ room' = Applied(asked[a].try) /\ logged' = room'
           /\ review' = [review EXCEPT ![asked[a].try.on] =
                           Updated(asked[a].try, asked[a].version)]
           /\ acted' = acted \cup {a} /\ told' = told \cup {<<a, "ok">>}
  <2>1. PICK act \in Attempt, seen \in Nat :
            /\ act = asked[a].try /\ seen = asked[a].version
            /\ act.on \in Sends /\ act.by \in People
            /\ review[act.on] # NoReview /\ review[act.on] \in Review
            /\ seen = review[act.on].version
    BY <1>1, <1>4, ServedIsTyped DEF Fresh
  <2>2. PICK u : u = Updated(act, seen)
    OBVIOUS
  <2>3. /\ u \in Review /\ u # NoReview
        /\ review' = [review EXCEPT ![act.on] = u]
        /\ \A q \in Sends : review'[q] = IF q = act.on THEN u ELSE review[q]
    <3>1. u \in Review
      BY <2>1, <2>2, UpdatedIsReview
    <3>2. review' = [review EXCEPT ![act.on] = u]
      BY <1>4, <2>1, <2>2
    <3>3. DOMAIN review = Sends
      BY DEF ReviewsTypeOK
    <3>4. u # NoReview
      BY <3>1, ReviewsAssumption DEF ReviewsAssumption
    <3> QED BY <2>1, <3>1, <3>2, <3>3, <3>4
  <2>4. \A q \in Sends : review'[q] # NoReview <=> review[q] # NoReview
    BY <2>1, <2>3
  <2>5. /\ room' \in [Threads -> {"none", "open", "resolved", "gone"}]
        /\ \A t \in Threads : room'[t] # "none" <=> room[t] # "none"
    BY <1>4, <2>1, AppliedKeepsThreads
  <2>6. ReviewsTypeOK'
    <3>1. review' \in [Sends -> Review \cup {NoReview}]
      BY <2>1, <2>3 DEF ReviewsTypeOK
    <3>2. acted' \subseteq Acts /\ told' \subseteq (Sends \cup Acts) \X {"ok", "refused"}
      BY <1>1, <1>4 DEF ReviewsTypeOK
    <3>3. calls' \in [Calls -> Sends \cup Acts \cup {NoCall}]
      BY <1>2 DEF ReviewsTypeOK
    <3> QED BY <1>2, <1>4, <2>5, <3>1, <3>2, <3>3 DEF ReviewsTypeOK
  <2>7. SentAsOne'
    BY <1>4, <2>4, <2>5, SendsAreTyped DEF SentAsOne
  <2>8. ToldIsTook'
    <3>1. \A req \in Sends \cup Acts : Took(req) => Took(req)'
      BY <1>4, <2>4 DEF Took
    <3>2. Took(a)'
      BY <1>1, <1>4, ReviewsAssumption DEF Took
    <3> QED BY <1>4, <3>1, <3>2 DEF ToldIsTook
  <2>9. CallsAreMade'
    <3>1. \A b \in Acts : asked[b] # NoAct => asked[b].try.on \in Sends
      BY DEF ReviewsTypeOK, ReviewAction, Attempt
    <3> QED BY <1>2, <1>3, <2>4, <3>1 DEF CallsAreMade
  <2>10. /\ u.cleared <= u.version
         /\ \A p \in People : u.responses[p] # "none" => u.wrote[p] >= u.cleared
    <3> DEFINE r == review[act.on]
    <3>1. /\ r.cleared \in Nat /\ r.version \in Nat /\ r.cleared <= r.version
          /\ seen = r.version /\ act.by \in People
          /\ \A p \in People : r.responses[p] # "none" => r.wrote[p] >= r.cleared
      BY <2>1 DEF ClearedBefore, AnswersAreCurrent, Review
    <3>2. /\ u.version = r.version + 1
          /\ \/ u.responses = Nobody /\ u.cleared = r.version + 1
             \/ /\ u.cleared = r.cleared
                /\ \A p \in People \ {act.by} :
                      u.responses[p] = r.responses[p] /\ u.wrote[p] = r.wrote[p]
                /\ \/ u.wrote[act.by] = seen
                   \/ u.responses = r.responses /\ u.wrote = r.wrote
      BY <2>1, <2>2, UpdatedIsReview
    <3>3. CASE u.responses = Nobody /\ u.cleared = r.version + 1
      BY <3>1, <3>2, <3>3 DEF Nobody
    <3>4. CASE u.cleared = r.cleared /\ u.responses # Nobody
      <4> HIDE DEF r
      <4> QED BY <2>1, <3>1, <3>2, <3>4
    <3>5. CASE u.cleared = r.cleared /\ u.responses = Nobody
      BY <3>1, <3>2, <3>5 DEF Nobody
    <3> HIDE DEF r
    <3> QED BY <3>2, <3>3, <3>4, <3>5
  <2>11. ClearedBefore' /\ AnswersAreCurrent'
    BY <2>3, <2>10 DEF ClearedBefore, AnswersAreCurrent
  <2> QED BY <2>6, <2>7, <2>8, <2>9, <2>11
<1>5. CASE UNCHANGED <<room, logged, review, acted>> /\ told' = told \cup {<<a, Receipt(a)>>}
  <2>1. ReviewsTypeOK'
    BY <1>1, <1>2, <1>5 DEF ReviewsTypeOK, Receipt
  <2>2. SentAsOne' /\ ClearedBefore' /\ AnswersAreCurrent' /\ CallsAreMade'
    BY <1>2, <1>3, <1>5 DEF SentAsOne, ClearedBefore, AnswersAreCurrent, CallsAreMade
  <2>3. ToldIsTook'
    BY <1>1, <1>5 DEF ToldIsTook, Took, Receipt
  <2> QED BY <2>1, <2>2, <2>3
<1> QED BY <1>1, <1>4, <1>5, CommitActDoes

-----------------------------------------------------------------------------
(* What else happens.                                                      *)

LEMMA WhimsKeep ==
    ASSUME ReviewsInv,
           (\E t \in Threads : Toggle(t)) \/ Flush \/ ResetContent \/ Crash \/ Shut
    PROVE  ReviewsInv'
<1> USE DEF ReviewsInv
<1>1. /\ UNCHANGED <<review, asked, acted, told>>
      /\ \A m \in Calls : calls'[m] \in Acts => calls'[m] = calls[m]
  BY ReviewsAssumption DEF Toggle, Flush, ResetContent, Crash, Shut, Whim
<1>2. /\ room' \in [Threads -> {"none", "open", "resolved", "gone"}]
      /\ logged' \in [Threads -> {"none", "open", "resolved", "gone"}]
  BY DEF ReviewsTypeOK, Toggle, Flush, ResetContent, Crash, Shut, Absent
<1>3. ASSUME NEW t \in Threads
      PROVE  /\ room'[t] # "none" => room[t] # "none" \/ logged[t] # "none"
             /\ logged'[t] # "none" => room[t] # "none" \/ logged[t] # "none"
             /\ room[t] # "none" /\ logged[t] # "none" =>
                   room'[t] # "none" /\ logged'[t] # "none"
  BY DEF ReviewsTypeOK, Toggle, Flush, ResetContent, Crash, Shut, Absent
<1>4. /\ calls' \in [Calls -> Sends \cup Acts \cup {NoCall}]
      /\ shut' \in BOOLEAN /\ whims' \in 0..MaxWhims
  <2>1. calls' \in [Calls -> Sends \cup Acts \cup {NoCall}] /\ shut' \in BOOLEAN
    BY DEF ReviewsTypeOK, Toggle, Flush, ResetContent, Crash, Shut
  <2>2. whims' = whims \/ Whim
    BY DEF Toggle, Flush, ResetContent, Crash, Shut
  <2>3. whims' \in 0..MaxWhims
    BY <2>2, ReviewsAssumption DEF Whim, ReviewsTypeOK
  <2> QED BY <2>1, <2>3
<1>5. ReviewsTypeOK'
  BY <1>1, <1>2, <1>4 DEF ReviewsTypeOK
<1>6. SentAsOne'
  <2> SUFFICES ASSUME NEW s \in Sends, NEW t \in SendOf[s].new
               PROVE  /\ review'[s] # NoReview <=> room'[t] # "none"
                      /\ review'[s] # NoReview <=> logged'[t] # "none"
    BY DEF SentAsOne
  <2>1. /\ review[s] # NoReview <=> room[t] # "none"
        /\ review[s] # NoReview <=> logged[t] # "none"
    BY DEF SentAsOne
  <2>2. t \in Threads
    BY SendsAreTyped
  <2>3. /\ room'[t] # "none" => room[t] # "none" \/ logged[t] # "none"
        /\ logged'[t] # "none" => room[t] # "none" \/ logged[t] # "none"
        /\ room[t] # "none" /\ logged[t] # "none" => room'[t] # "none" /\ logged'[t] # "none"
    BY <1>3, <2>2
  <2>4. review'[s] = review[s]
    BY <1>1
  <2> QED BY <2>1, <2>3, <2>4
<1>7. ToldIsTook' /\ CallsAreMade' /\ ClearedBefore' /\ AnswersAreCurrent'
  BY <1>1 DEF ToldIsTook, Took, CallsAreMade, ClearedBefore, AnswersAreCurrent
<1> QED BY <1>5, <1>6, <1>7

LEMMA ReviewsStep == ReviewsInv /\ [ReviewsNext]_reviewVars => ReviewsInv'
<1> SUFFICES ASSUME ReviewsInv, [ReviewsNext]_reviewVars PROVE ReviewsInv'
  OBVIOUS
<1>1. ASSUME NEW n \in Calls, NEW s \in Sends, BeginSend(n, s) PROVE ReviewsInv'
  BY <1>1, BeginSendKeeps
<1>2. ASSUME NEW n \in Calls, NEW a \in Acts, BeginAct(n, a) PROVE ReviewsInv'
  BY <1>2, BeginActKeeps
<1>3. ASSUME NEW n \in Calls, CommitSend(n) PROVE ReviewsInv'
  BY <1>3, CommitSendKeeps
<1>4. ASSUME NEW n \in Calls, CommitAct(n) PROVE ReviewsInv'
  BY <1>4, CommitActKeeps
<1>5. CASE (\E t \in Threads : Toggle(t)) \/ Flush \/ ResetContent \/ Crash \/ Shut
  BY <1>5, WhimsKeep
<1>6. CASE UNCHANGED reviewVars
  BY <1>6 DEF reviewVars, ReviewsInv, ReviewsTypeOK, SentAsOne, ToldIsTook, Took,
              CallsAreMade, ClearedBefore, AnswersAreCurrent
<1> QED BY <1>1, <1>2, <1>3, <1>4, <1>5, <1>6 DEF ReviewsNext

\* What the handlers of api/document_reviews.rs and the transactions of
\* store/document_reviews.rs keep between the document, its log and the store.
THEOREM ReviewsInvariant == ReviewsSpec => []ReviewsInv
BY ReviewsInitGood, ReviewsStep, PTL DEF ReviewsSpec

\* Every variable keeps to its type, reviews and their responses included.
THEOREM ReviewsTyped == ReviewsSpec => []ReviewsTypeOK
<1>1. ReviewsInv => ReviewsTypeOK
  BY DEF ReviewsInv
<1> QED BY <1>1, ReviewsInvariant, PTL

\* A review and its comments are in the store and in the document together or
\* not at all, for any number of sends, retries and crashes
\* (mutate_durable_with and save_review).
THEOREM SentAsOneHolds == ReviewsSpec => []SentAsOne
<1>1. ReviewsInv => SentAsOne
  BY DEF ReviewsInv
<1> QED BY <1>1, ReviewsInvariant, PTL

-----------------------------------------------------------------------------
(* Steps.                                                                  *)

LEMMA ReceiptStep ==
    ASSUME ReviewsInv, ReviewsInv', [ReviewsNext]_reviewVars,
           NEW req \in Sends \cup Acts, <<req, "refused">> \in told' \ told
    PROVE  ~Took(req)'
<1>1. ASSUME NEW n \in Calls, NEW r \in Sends \cup Acts, Begin(n, r) PROVE FALSE
  BY <1>1 DEF Begin, Told
<1>2. ASSUME NEW n \in Calls, CommitSend(n) PROVE ~Took(req)'
  <2>1. PICK s \in Sends : calls[n] = s
    BY <1>2 DEF CommitSend
  <2>2. <<req, "refused">> # <<s, "ok">>
    OBVIOUS
  <2>3. told' # told \cup {<<s, "ok">>}
    BY <2>2
  <2>4. UNCHANGED review /\ told' = told \cup {<<s, Receipt(s)>>} /\ UNCHANGED acted
    BY <1>2, <2>1, <2>3, CommitSendShows DEF CommitSend
  <2> QED BY <2>4 DEF Receipt, Took
<1>3. ASSUME NEW n \in Calls, CommitAct(n) PROVE ~Took(req)'
  <2>1. PICK a \in Acts : calls[n] = a
    BY <1>3 DEF CommitAct
  <2>2. UNCHANGED <<review, acted>> /\ told' = told \cup {<<a, Receipt(a)>>}
    BY <1>3, <2>1, CommitActDoes
  <2> QED BY <2>2 DEF Receipt, Took
<1>4. UNCHANGED told => FALSE
  OBVIOUS
<1> QED BY <1>1, <1>2, <1>3, <1>4 DEF ReviewsNext, reviewVars, BeginSend, BeginAct,
           Toggle, Flush, ResetContent, Crash, Shut

\* Whoever is told a request succeeded has it done, and whoever is told it was
\* refused does not, also if its twin overtook it (the second look at
\* review_retry and review_action_retry).
THEOREM ReceiptsAreTrueHolds == ReviewsSpec => ReceiptsAreTrue
<1>1. ReviewsInv /\ ReviewsInv' /\ [ReviewsNext]_reviewVars =>
        [\A req \in Sends \cup Acts :
          /\ <<req, "ok">> \in told' => Took(req)'
          /\ <<req, "refused">> \in told' \ told => ~Took(req)']_reviewVars
  BY ReceiptStep DEF ReviewsInv, ToldIsTook
<1> QED BY <1>1, ReviewsInvariant, PTL DEF ReviewsSpec, ReceiptsAreTrue

LEMMA FinishStep ==
    ASSUME ReviewsInv, [ReviewsNext]_reviewVars
    PROVE  FinishedIsResolved
<1> SUFFICES ASSUME NEW s \in Sends, SendOf[s].kind = "review", review[s] # NoReview,
                    review'[s].status = "closed", review[s].status # "closed",
                    NEW t \in ThreadsOf(s)
             PROVE  room'[t] = "resolved"
  BY DEF FinishedIsResolved
<1>1. review'[s] # review[s]
  OBVIOUS
<1>2. ASSUME NEW n \in Calls, CommitSend(n) PROVE FALSE
  <2>1. PICK q \in Sends : calls[n] = q
    BY <1>2 DEF CommitSend
  <2> QED BY <1>1, <1>2, <2>1, CommitSendShows DEF ReviewsInv, ReviewsTypeOK
<1>3. ASSUME NEW n \in Calls, CommitAct(n) PROVE room'[t] = "resolved"
  <2>1. PICK a \in Acts : calls[n] = a
    BY <1>3 DEF CommitAct
  <2>2. /\ Allowed(asked[a].try, room')
        /\ review' = [review EXCEPT ![asked[a].try.on] = Updated(asked[a].try, asked[a].version)]
    BY <1>1, <1>3, <2>1, CommitActDoes
  <2>3. asked[a].try.on = s
    BY <1>1, <2>2 DEF ReviewsInv, ReviewsTypeOK
  <2>4. asked[a].try.does = "close"
    BY <2>2, <2>3 DEF ReviewsInv, ReviewsTypeOK, Updated, Status
  <2> QED BY <2>2, <2>3, <2>4 DEF Allowed
<1> QED BY <1>1, <1>2, <1>3 DEF ReviewsNext, reviewVars, BeginSend, BeginAct, Begin,
           Toggle, Flush, ResetContent, Crash, Shut

\* An action meets the review and the document as they are: responses that count
\* were written to the present round, and a review is finished over comments that
\* are resolved then (the version check and `close' of save_review_action).
THEOREM ActionsMeetThePresentHolds == ReviewsSpec => ActionsMeetThePresent
<1>1. ReviewsInv /\ ReviewsInv' /\ [ReviewsNext]_reviewVars =>
        [AnswersAreCurrent' /\ FinishedIsResolved]_reviewVars
  BY FinishStep DEF ReviewsInv
<1> QED BY <1>1, ReviewsInvariant, PTL DEF ReviewsSpec, ActionsMeetThePresent

-----------------------------------------------------------------------------
(* Numbers and walks.                                                      *)

\* A nonempty set of numbers has a least.
LEMMA LowestExists ==
    ASSUME NEW T \in SUBSET Nat, T # {}
    PROVE  \E n \in T : \A m \in T : n <= m
<1>1. PICK n \in T : \A m \in T : ~(<<m, n>> \in OpToRel(<, Nat))
  BY NatLessThanWellFounded, WFMin
<1>2. \A m \in T : ~(m < n)
  BY <1>1 DEF OpToRel
<1> QED BY <1>2

\* A set of numbers that has 0 and is closed under taking the next, up to a
\* bound, has them all up to the bound.
LEMMA StepByStep ==
    ASSUME NEW bound \in Nat, NEW T, 0 \in T,
           \A k \in 0..bound : k \in T /\ k < bound => k + 1 \in T
    PROVE  \A k \in 0..bound : k \in T
<1> SUFFICES ASSUME NEW bad \in 0..bound, bad \notin T PROVE FALSE
  OBVIOUS
<1> DEFINE U == {k \in 0..bound : k \notin T}
<1>1. U \in SUBSET Nat /\ U # {}
  OBVIOUS
<1>2. PICK n \in U : \A m \in U : n <= m
  BY <1>1, LowestExists
<1>3. n # 0 /\ n \in 0..bound /\ n - 1 \in 0..bound
  OBVIOUS
<1>4. n - 1 \in T
  BY <1>2, <1>3
<1> QED BY <1>3, <1>4

\* f starts with `first' and goes on from each value to the next as step says.
Iterates(f, N, V, first, step) ==
    /\ f \in [0..N -> V]
    /\ f[0] = first
    /\ \A k \in 0..N : k < N => f[k + 1] = step[<<k, f[k]>>]

\* A function on 0..N whose first value is given, and each further value by the
\* one before: there is one.
LEMMA RecursionExists ==
    ASSUME NEW N \in Nat, NEW V, NEW first \in V, NEW step \in [(0..N) \X V -> V]
    PROVE  \E f : Iterates(f, N, V, first, step)
<1> DEFINE Is(f, m) == f[0] = first /\ \A k \in 0..m : k < m => f[k + 1] = step[<<k, f[k]>>]
           T == {m \in 0..N : \E f \in [0..m -> V] : Is(f, m)}
<1>1. 0 \in T
  <2> DEFINE f == [k \in 0..0 |-> first]
  <2>1. f \in [0..0 -> V] /\ Is(f, 0)
    OBVIOUS
  <2> HIDE DEF f
  <2>2. 0 \in 0..N
    OBVIOUS
  <2> QED BY <2>1, <2>2
<1>2. ASSUME NEW m \in 0..N, m \in T, m < N PROVE m + 1 \in T
  <2>1. PICK f \in [0..m -> V] : Is(f, m)
    BY <1>2
  <2> DEFINE g == [k \in 0..(m + 1) |-> IF k = m + 1 THEN step[<<m, f[m]>>] ELSE f[k]]
  <2>2. m \in 0..m /\ m + 1 \in 0..N
    BY <1>2
  <2>3. g \in [0..(m + 1) -> V]
    <3>1. step[<<m, f[m]>>] \in V
      BY <2>2
    <3>2. \A k \in 0..(m + 1) : k # m + 1 => k \in 0..m
      OBVIOUS
    <3> QED BY <3>1, <3>2
  <2>4. g[0] = first
    BY <2>1, <2>2
  <2>5. ASSUME NEW k \in 0..(m + 1), k < m + 1 PROVE g[k + 1] = step[<<k, g[k]>>]
    <3>1. CASE k = m
      BY <3>1, <2>2
    <3>2. CASE k < m
      <4>1. k \in 0..m /\ g[k] = f[k] /\ g[k + 1] = f[k + 1]
        BY <3>2
      <4> QED BY <2>1, <3>2, <4>1
    <3> QED BY <3>1, <3>2, <2>5
  <2> HIDE DEF g
  <2>6. Is(g, m + 1)
    BY <2>4, <2>5
  <2> QED BY <2>2, <2>3, <2>6
<1> HIDE DEF T
<1>3. \A m \in 0..N : m \in T
  BY <1>1, <1>2, StepByStep
<1>4. N \in T
  BY <1>3
<1> QED BY <1>4 DEF T, Iterates
-----------------------------------------------------------------------------
(* Proposals: types, and what else is kept.                                *)

Life == Nat
Identity == Offers \X Replicas \X Life \X Nat \X Nat
Block == [id : Blocks \cup Identity, of : Identity \cup {<<>>}]

ChangeFact == [is : {"change"}, about : Offers \cup {<<>>}, by : Replicas \cup Nat,
               life : Life, added : SUBSET Block, removed : SUBSET Block]
OfferFact == [is : {"offer"}, about : Offers, ops : Seq(Op), seen : SUBSET ChangeFact]
DecisionFact == [is : {"decision"}, about : Offers, by : Replicas, life : Life,
                 status : {"accepted", "rejected"}, dropped : SUBSET Nat]
Fact == ChangeFact \cup OfferFact \cup DecisionFact

PropTypeOK ==
    /\ knows \in [Replicas -> SUBSET Fact]
    /\ sent \in [Pages -> Seq(Fact)]
    /\ order \in Seq(Block)
    /\ lost \subseteq Fact
    /\ edits \in Nat /\ reloads \in Nat

\* The common order shows no block twice.
OrderIsOne == IsInjective(order)

\* A minted block was made by somebody who has decided since on what it comes
\* from, unless some page has been opened again.
MintedOnce ==
    \A x \in Range(order) : x.of \in Identity =>
        \/ x.of[3] < reloads
        \/ x.of[3] = reloads /\ DecisionsIn(knows[x.of[2]], x.of[1]) # {}

\* The blocks an offer is about were in the text that it was validated against.
Rooted(o) ==
    \A k \in DOMAIN o.ops : \E x \in Range(order) :
        x.id = o.ops[k].id /\ x \in There(o.seen) \ Gone(o.seen)

\* Offers come from the server, one for each proposal, with what they saw.
OffersAreRooted ==
    /\ \A r \in Replicas : \A o \in Facts(knows[r], "offer") :
          o \in knows[Server] /\ o.seen \subseteq knows[r] /\ Rooted(o)
    /\ \A p \in Offers : \A o1, o2 \in OfferIn(knows[Server], p) : o1 = o2

\* What a page sends it knows, and what it knows the server has or will have.
Arrived(g, n) == knows[Server] \cup {sent[g][i] : i \in 1..n}

PagesSendAll ==
    \A g \in Pages :
        /\ \A i \in 1..Len(sent[g]) : sent[g][i] \in knows[g] /\ sent[g][i].is # "offer"
        /\ knows[g] \subseteq Arrived(g, Len(sent[g]))

\* Why an operation of an offer is dropped, by the facts F.
Explained(o, k, F) ==
    \/ \E j \in 1..(k - 1) : o.ops[j].op = "delete" /\ o.ops[j].id = o.ops[k].id
    \/ \E c \in Facts(F, "change") \ o.seen : \E x \in c.removed : x.id = o.ops[k].id

\* The facts F explain every decision among them.
AccountsFor(F) ==
    \A d \in Facts(F, "decision") : \E o \in OfferIn(F, d.about) :
        \A k \in d.dropped : Explained(o, k, F)

\* However much of a page's updates has arrived, what the server knows then
\* explains the decisions it knows.
AllAreExplained ==
    /\ \A r \in Replicas : AccountsFor(knows[r])
    /\ \A g \in Pages : \A n \in 0..Len(sent[g]) : AccountsFor(Arrived(g, n))

ProposalsInv ==
    /\ PropTypeOK /\ OrderIsOne /\ MintedOnce /\ OffersAreRooted
    /\ PagesSendAll /\ AllAreExplained /\ AcceptedLanded

-----------------------------------------------------------------------------
(* Sequences: the members of a set, a block put in, a block taken out.     *)

\* What a sequence shows is what stands at its places.
LEMMA RangeIs ==
    ASSUME NEW T, NEW seq \in Seq(T)
    PROVE  /\ Len(seq) \in Nat /\ DOMAIN seq = 1..Len(seq)
           /\ \A i \in 1..Len(seq) : seq[i] \in T /\ seq[i] \in Range(seq)
           /\ \A x \in Range(seq) : x \in T /\ \E i \in 1..Len(seq) : x = seq[i]
           /\ ToSet(seq) = Range(seq)
           /\ IsInjective(seq) <=> \A i, j \in 1..Len(seq) : seq[i] = seq[j] => i = j
<1>1. Len(seq) \in Nat /\ DOMAIN seq = 1..Len(seq) /\ \A i \in 1..Len(seq) : seq[i] \in T
  OBVIOUS
<1> QED BY <1>1 DEF Range, ToSet, IsInjective

\* The least of a nonempty set of places.
LEMMA FirstPlace ==
    ASSUME NEW places \in SUBSET Nat, places # {}
    PROVE  Min(places) \in places
<1>1. PICK n \in places : \A m \in places : n <= m
  BY LowestExists
<1>2. \E k \in places : \A m \in places : k =< m
  BY <1>1
<1> QED BY <1>2 DEF Min

\* find_block finds a block with the id, if there is one.
LEMMA FoundIs ==
    ASSUME NEW T, NEW text \in Seq(T), NEW id
    PROVE  /\ Found(text, id) \in 0..Len(text)
           /\ Found(text, id) = 0 => \A i \in 1..Len(text) : text[i].id # id
           /\ Found(text, id) # 0 => text[Found(text, id)].id = id
<1> DEFINE places == {i \in 1..Len(text) : text[i].id = id}
<1>1. Found(text, id) = IF places # {} THEN Min(places) ELSE 0
  BY DEF Found, SelectInSeq
<1>2. places \in SUBSET Nat /\ Len(text) \in Nat
  OBVIOUS
<1>3. CASE places = {}
  BY <1>1, <1>2, <1>3
<1>4. CASE places # {}
  <2>1. Min(places) \in places
    BY <1>2, <1>4, FirstPlace
  <2>2. Found(text, id) \in places
    BY <1>1, <1>4, <2>1
  <2> QED BY <1>2, <2>2
<1> QED BY <1>3, <1>4

\* What stands where after new blocks are put behind place at.
LEMMA SplicedAt ==
    ASSUME NEW T, NEW text \in Seq(T), NEW at \in 0..Len(text), NEW new \in Seq(T)
    PROVE  /\ Spliced(text, at, new) \in Seq(T)
           /\ Len(Spliced(text, at, new)) = Len(text) + Len(new)
           /\ \A i \in 1..(Len(text) + Len(new)) : Spliced(text, at, new)[i] =
                IF i <= at THEN text[i]
                ELSE IF i <= at + Len(new) THEN new[i - at] ELSE text[i - Len(new)]
<1> DEFINE front == SubSeq(text, 1, at)
           back == SubSeq(text, at + 1, Len(text))
<1>1. Len(text) \in Nat /\ Len(new) \in Nat /\ at \in Nat /\ at <= Len(text)
  OBVIOUS
<1>2. /\ front \in Seq(T) /\ Len(front) = at
      /\ \A i \in 1..at : front[i] = text[i]
  BY <1>1
<1>3. /\ back \in Seq(T) /\ Len(back) = Len(text) - at
      /\ \A i \in 1..(Len(text) - at) : back[i] = text[at + i]
  BY <1>1
<1> HIDE DEF front, back
<1>4. Spliced(text, at, new) = (front \o new) \o back
  BY DEF Spliced, front, back
<1> DEFINE begun == front \o new
<1>5. /\ begun \in Seq(T) /\ Len(begun) = at + Len(new)
      /\ \A i \in 1..(at + Len(new)) : begun[i] = IF i <= at THEN text[i] ELSE new[i - at]
  <2>0. front \in Seq(T) /\ new \in Seq(T) /\ Len(front) = at
    BY <1>2
  <2>1. begun \in Seq(T) /\ Len(begun) = at + Len(new)
    BY <2>0, ConcatProperties
  <2>2. \A i \in 1..(at + Len(new)) : begun[i] = IF i <= at THEN front[i] ELSE new[i - at]
    BY <2>0, ConcatProperties
  <2> HIDE DEF begun
  <2>3. \A i \in 1..(at + Len(new)) : i <= at => front[i] = text[i]
    BY <1>1, <1>2
  <2> QED BY <2>1, <2>2, <2>3
<1> HIDE DEF begun
<1>6. /\ begun \o back \in Seq(T) /\ Len(begun \o back) = Len(text) + Len(new)
      /\ \A i \in 1..(Len(text) + Len(new)) :
           (begun \o back)[i] = IF i <= at + Len(new) THEN begun[i] ELSE back[i - (at + Len(new))]
  <2>1. begun \in Seq(T) /\ back \in Seq(T) /\ Len(begun) = at + Len(new)
        /\ Len(begun) + Len(back) = Len(text) + Len(new)
    BY <1>1, <1>3, <1>5
  <2>2. /\ begun \o back \in Seq(T) /\ Len(begun \o back) = Len(begun) + Len(back)
        /\ \A i \in 1..(Len(begun) + Len(back)) :
             (begun \o back)[i] = IF i <= Len(begun) THEN begun[i] ELSE back[i - Len(begun)]
    BY <2>1, ConcatProperties
  <2> HIDE DEF begun
  <2> QED BY <2>1, <2>2, Zenon
<1>7. ASSUME NEW i \in 1..(Len(text) + Len(new))
      PROVE  (begun \o back)[i] =
                IF i <= at THEN text[i]
                ELSE IF i <= at + Len(new) THEN new[i - at] ELSE text[i - Len(new)]
  <2>1. CASE i <= at + Len(new)
    BY <1>1, <1>5, <1>6, <2>1
  <2>2. CASE ~(i <= at + Len(new))
    <3>1. i - (at + Len(new)) \in 1..(Len(text) - at)
      BY <1>1, <2>2
    <3>2. back[i - (at + Len(new))] = text[at + (i - (at + Len(new)))]
      BY <1>3, <3>1
    <3>3. at + (i - (at + Len(new))) = i - Len(new) /\ i > at
      BY <1>1, <2>2
    <3>4. (begun \o back)[i] = back[i - (at + Len(new))]
      BY <1>1, <1>6, <2>2
    <3>5. ~(i <= at) /\ ~(i <= at + Len(new))
      BY <1>1, <2>2
    <3>6. (begun \o back)[i] = text[i - Len(new)]
      BY <3>2, <3>3, <3>4
    <3> QED BY <3>5, <3>6, Zenon
  <2> QED BY <2>1, <2>2
<1>8. Spliced(text, at, new) = begun \o back
  BY <1>4 DEF begun
<1> QED BY <1>6, <1>7, <1>8

LEMMA WithoutAt ==
    ASSUME NEW T, NEW text \in Seq(T), NEW at \in 1..Len(text)
    PROVE  /\ Without(text, at) \in Seq(T)
           /\ Len(Without(text, at)) = Len(text) - 1
           /\ \A i \in 1..(Len(text) - 1) :
                Without(text, at)[i] = text[IF i < at THEN i ELSE i + 1]
<1> DEFINE front == SubSeq(text, 1, at - 1)
           back == SubSeq(text, at + 1, Len(text))
<1>1. Len(text) \in Nat /\ at \in Nat /\ at <= Len(text) /\ at >= 1
  OBVIOUS
<1>2. /\ front \in Seq(T) /\ Len(front) = at - 1
      /\ \A i \in 1..(at - 1) : front[i] = text[i]
  BY <1>1
<1>3. /\ back \in Seq(T) /\ Len(back) = Len(text) - at
      /\ \A i \in 1..(Len(text) - at) : back[i] = text[at + i]
  BY <1>1
<1> HIDE DEF front, back
<1>4. Without(text, at) = front \o back
  BY DEF Without, front, back
<1>5. /\ front \o back \in Seq(T) /\ Len(front \o back) = Len(text) - 1
      /\ \A i \in 1..(Len(text) - 1) :
           (front \o back)[i] = IF i <= at - 1 THEN front[i] ELSE back[i - (at - 1)]
  <2>1. /\ front \in Seq(T) /\ back \in Seq(T) /\ Len(front) = at - 1
        /\ Len(front) + Len(back) = Len(text) - 1
    BY <1>1, <1>2, <1>3
  <2>2. /\ front \o back \in Seq(T) /\ Len(front \o back) = Len(front) + Len(back)
        /\ \A i \in 1..(Len(front) + Len(back)) :
             (front \o back)[i] = IF i <= Len(front) THEN front[i] ELSE back[i - Len(front)]
    BY <2>1, ConcatProperties
  <2> QED BY <2>1, <2>2, Zenon
<1>6. ASSUME NEW i \in 1..(Len(text) - 1)
      PROVE  (front \o back)[i] = text[IF i < at THEN i ELSE i + 1]
  <2>1. CASE i <= at - 1
    BY <1>1, <1>2, <1>5, <2>1
  <2>2. CASE ~(i <= at - 1)
    <3>1. i - (at - 1) \in 1..(Len(text) - at) /\ at + (i - (at - 1)) = i + 1
      BY <1>1, <2>2
    <3>2. back[i - (at - 1)] = text[i + 1]
      BY <1>3, <3>1
    <3>3. (front \o back)[i] = back[i - (at - 1)] /\ ~(i < at)
      BY <1>1, <1>5, <2>2
    <3> QED BY <3>2, <3>3, Zenon
  <2> QED BY <2>1, <2>2
<1> QED BY <1>4, <1>5, <1>6

\* Putting in adds what is put in, and makes no two of one.
LEMMA SplicedIs ==
    ASSUME NEW T, NEW text \in Seq(T), NEW at \in 0..Len(text), NEW new \in Seq(T)
    PROVE  /\ Spliced(text, at, new) \in Seq(T)
           /\ Range(Spliced(text, at, new)) = Range(text) \cup Range(new)
<1> DEFINE s == Spliced(text, at, new)
<1>1. /\ s \in Seq(T) /\ Len(s) = Len(text) + Len(new)
      /\ \A i \in 1..(Len(text) + Len(new)) : s[i] =
           IF i <= at THEN text[i]
           ELSE IF i <= at + Len(new) THEN new[i - at] ELSE text[i - Len(new)]
  BY SplicedAt
<1>2. Len(text) \in Nat /\ Len(new) \in Nat /\ at \in Nat /\ at <= Len(text)
  OBVIOUS
<1> HIDE DEF s
<1>3. ASSUME NEW x \in Range(s) PROVE x \in Range(text) \cup Range(new)
  <2>0. s \in Seq(T)
    BY <1>1
  <2>1. PICK i \in 1..Len(s) : x = s[i]
    BY <2>0, RangeIs
  <2>2. CASE i <= at
    BY <1>1, <1>2, <2>1, <2>2, RangeIs
  <2>3. CASE i > at /\ i <= at + Len(new)
    <3>1. x = new[i - at] /\ i - at \in 1..Len(new)
      BY <1>1, <1>2, <2>1, <2>3
    <3> QED BY <3>1, RangeIs
  <2>4. CASE i > at + Len(new)
    <3>0. i \in 1..(Len(text) + Len(new)) /\ ~(i <= at) /\ ~(i <= at + Len(new))
      BY <1>1, <1>2, <2>4
    <3>1. x = text[i - Len(new)] /\ i - Len(new) \in 1..Len(text)
      BY <1>1, <1>2, <2>1, <3>0
    <3> QED BY <3>1, RangeIs
  <2> QED BY <1>2, <2>2, <2>3, <2>4
<1>4. ASSUME NEW x \in Range(text) PROVE x \in Range(s)
  <2>1. PICK i \in 1..Len(text) : x = text[i]
    BY RangeIs
  <2>2. CASE i <= at
    <3>1. i \in 1..Len(s) /\ s[i] = text[i]
      BY <1>1, <1>2, <2>2
    <3> QED BY <1>1, <2>1, <3>1, RangeIs
  <2>3. CASE i > at
    <3>1. i + Len(new) \in 1..Len(s) /\ s[i + Len(new)] = text[i]
      BY <1>1, <1>2, <2>3
    <3> QED BY <1>1, <2>1, <3>1, RangeIs
  <2> QED BY <1>2, <2>2, <2>3
<1>5. ASSUME NEW x \in Range(new) PROVE x \in Range(s)
  <2>1. PICK i \in 1..Len(new) : x = new[i]
    BY RangeIs
  <2>2. at + i \in 1..Len(s) /\ s[at + i] = new[i]
    BY <1>1, <1>2
  <2> QED BY <1>1, <2>1, <2>2, RangeIs
<1> QED BY <1>1, <1>3, <1>4, <1>5 DEF s

LEMMA SplicedOnce ==
    ASSUME NEW T, NEW text \in Seq(T), NEW at \in 0..Len(text), NEW y \in T,
           IsInjective(text), y \notin Range(text)
    PROVE  IsInjective(Spliced(text, at, <<y>>))
<1> DEFINE s == Spliced(text, at, <<y>>)
           one == <<y>>
<1>1. one \in Seq(T) /\ Len(one) = 1 /\ one[1] = y
  OBVIOUS
<1>2. Len(text) \in Nat /\ at \in Nat /\ at <= Len(text)
  OBVIOUS
<1> HIDE DEF one
<1>3. /\ Spliced(text, at, one) \in Seq(T) /\ Len(Spliced(text, at, one)) = Len(text) + Len(one)
      /\ \A i \in 1..(Len(text) + Len(one)) : Spliced(text, at, one)[i] =
           IF i <= at THEN text[i]
           ELSE IF i <= at + Len(one) THEN one[i - at] ELSE text[i - Len(one)]
  <2> HIDE DEF s
  <2>1. one \in Seq(T)
    BY <1>1
  <2> QED BY <2>1, SplicedAt
<1>4. /\ s \in Seq(T) /\ Len(s) = Len(text) + 1
      /\ \A i \in 1..(Len(text) + 1) :
           s[i] = IF i <= at THEN text[i] ELSE IF i = at + 1 THEN y ELSE text[i - 1]
  <2>1. s = Spliced(text, at, one)
    BY DEF one
  <2> HIDE DEF s
  <2>2. s \in Seq(T) /\ Len(s) = Len(text) + 1
    BY <1>1, <1>3, <2>1
  <2>3. ASSUME NEW i \in 1..(Len(text) + 1)
        PROVE  s[i] = IF i <= at THEN text[i] ELSE IF i = at + 1 THEN y ELSE text[i - 1]
    <3>1. s[i] = IF i <= at THEN text[i] ELSE IF i <= at + 1 THEN one[i - at] ELSE text[i - 1]
      BY <1>1, <1>3, <2>1
    <3>2. CASE i = at + 1
      BY <1>1, <1>2, <3>1, <3>2
    <3>3. CASE i # at + 1
      BY <1>2, <3>1, <3>3
    <3> QED BY <3>2, <3>3
  <2> QED BY <2>2, <2>3
<1> HIDE DEF s
<1>5. \A i, j \in 1..Len(text) : text[i] = text[j] => i = j
  BY RangeIs
<1>6. \A i \in 1..Len(text) : text[i] # y
  BY RangeIs
<1>7. ASSUME NEW i \in 1..Len(s), NEW j \in 1..Len(s), s[i] = s[j], i < j PROVE FALSE
  <2>1. i \in Nat /\ j \in Nat /\ i \in 1..(Len(text) + 1) /\ j \in 1..(Len(text) + 1)
    BY <1>2, <1>4
  <2>2. CASE i <= at
    <3>1. s[i] = text[i] /\ i \in 1..Len(text)
      BY <1>2, <1>4, <2>1, <2>2
    <3>2. CASE j <= at
      <4>1. s[j] = text[j] /\ j \in 1..Len(text)
        BY <1>2, <1>4, <2>1, <3>2
      <4>2. i = j
        BY <1>5, <1>7, <3>1, <4>1
      <4> QED BY <1>7, <2>1, <4>2
    <3>3. CASE j = at + 1
      <4>1. s[j] = y
        BY <1>2, <1>4, <2>1, <3>3
      <4> QED BY <1>6, <1>7, <3>1, <4>1
    <3>4. CASE j > at + 1
      <4>1. s[j] = text[j - 1] /\ j - 1 \in 1..Len(text)
        BY <1>2, <1>4, <2>1, <3>4
      <4>2. i = j - 1
        BY <1>5, <1>7, <3>1, <4>1
      <4> QED BY <1>2, <2>1, <2>2, <3>4, <4>2
    <3> QED BY <1>2, <2>1, <3>2, <3>3, <3>4
  <2>3. CASE i = at + 1
    <3>1. s[i] = y /\ s[j] = text[j - 1] /\ j - 1 \in 1..Len(text)
      BY <1>2, <1>4, <1>7, <2>1, <2>3
    <3> QED BY <1>6, <1>7, <3>1
  <2>4. CASE i > at + 1
    <3>1. /\ s[i] = text[i - 1] /\ i - 1 \in 1..Len(text)
          /\ s[j] = text[j - 1] /\ j - 1 \in 1..Len(text)
      BY <1>2, <1>4, <1>7, <2>1, <2>4
    <3>2. i - 1 = j - 1
      BY <1>5, <1>7, <3>1
    <3> QED BY <1>7, <2>1, <3>2
  <2> QED BY <1>2, <2>1, <2>2, <2>3, <2>4
<1>8. \A i, j \in 1..Len(s) : s[i] = s[j] => i = j
  BY <1>4, <1>7
<1> QED BY <1>4, <1>8, RangeIs DEF s

\* Taking out takes out the one, and no other.
LEMMA WithoutIs ==
    ASSUME NEW T, NEW text \in Seq(T), NEW at \in 1..Len(text)
    PROVE  /\ Without(text, at) \in Seq(T)
           /\ Len(Without(text, at)) = Len(text) - 1
           /\ Range(Without(text, at)) \subseteq Range(text)
           /\ \A x \in Range(text) : x # text[at] => x \in Range(Without(text, at))
           /\ IsInjective(text) => text[at] \notin Range(Without(text, at))
<1> DEFINE s == Without(text, at)
<1>1. /\ s \in Seq(T) /\ Len(s) = Len(text) - 1
      /\ \A i \in 1..(Len(text) - 1) : s[i] = text[IF i < at THEN i ELSE i + 1]
  BY WithoutAt
<1>2. Len(text) \in Nat /\ at \in Nat /\ at <= Len(text) /\ at >= 1
  OBVIOUS
<1> HIDE DEF s
<1>3. ASSUME NEW x \in Range(s)
      PROVE  \E i \in 1..Len(text) : i # at /\ x = text[i]
  <2>1. PICK i \in 1..Len(s) : x = s[i]
    BY <1>1, RangeIs
  <2> DEFINE j == IF i < at THEN i ELSE i + 1
  <2>2. j \in 1..Len(text) /\ j # at /\ x = text[j]
    BY <1>1, <1>2, <2>1
  <2> QED BY <2>2
<1>4. ASSUME NEW x \in Range(text), x # text[at] PROVE x \in Range(s)
  <2>1. PICK i \in 1..Len(text) : x = text[i]
    BY RangeIs
  <2> DEFINE j == IF i < at THEN i ELSE i - 1
  <2>2. j \in 1..Len(s) /\ s[j] = x
    BY <1>1, <1>2, <1>4, <2>1
  <2> QED BY <1>1, <2>2, RangeIs
<1>5. Range(s) \subseteq Range(text)
  BY <1>3, RangeIs
<1>6. IsInjective(text) => text[at] \notin Range(s)
  BY <1>3, RangeIs
<1> QED BY <1>1, <1>4, <1>5, <1>6 DEF s

\* The walk of Only.
Picks(f, S, T, all) ==
    /\ f \in [0..Len(all) -> Seq(T)]
    /\ f[0] = <<>>
    /\ \A k \in 0..Len(all) : k < Len(all) =>
         f[k + 1] = IF all[k + 1] \in S THEN Append(f[k], all[k + 1]) ELSE f[k]
    /\ Only(S, all) = f[Len(all)]

LEMMA OnlyWalks ==
    ASSUME NEW T, NEW S, NEW all \in Seq(T)
    PROVE  \E f : Picks(f, S, T, all)
<1> DEFINE bound == Len(all)
           V == Seq(T)
           Is(f) == f = [n \in 0..bound |-> IF n = 0 THEN <<>>
                           ELSE IF all[n] \in S THEN Append(f[n - 1], all[n]) ELSE f[n - 1]]
           c == CHOOSE f : Is(f)
<1>1. bound \in Nat /\ \A k \in 1..bound : all[k] \in T
  OBVIOUS
<1>2. \E f \in [0..bound -> V] : Is(f)
  <2> DEFINE step == [x \in (0..bound) \X V |->
                        IF x[1] < bound /\ all[x[1] + 1] \in S
                        THEN Append(x[2], all[x[1] + 1]) ELSE x[2]]
             first == <<>>
  <2>1. \A k \in 0..bound, v \in V :
           step[<<k, v>>] = IF k < bound /\ all[k + 1] \in S THEN Append(v, all[k + 1]) ELSE v
    OBVIOUS
  <2>2. step \in [(0..bound) \X V -> V]
    <3>1. ASSUME NEW x \in (0..bound) \X V
          PROVE  (IF x[1] < bound /\ all[x[1] + 1] \in S
                  THEN Append(x[2], all[x[1] + 1]) ELSE x[2]) \in V
      <4>1. x[1] \in 0..bound /\ x[2] \in V
        OBVIOUS
      <4>2. x[1] < bound => x[1] + 1 \in 1..bound
        BY <1>1, <4>1
      <4>3. x[1] < bound => Append(x[2], all[x[1] + 1]) \in V
        BY <1>1, <4>1, <4>2, AppendProperties
      <4> QED BY <4>1, <4>3
    <3> QED BY <3>1
  <2>3. first \in V
    OBVIOUS
  <2> HIDE DEF step, V, bound, first
  <2>4. PICK f : Iterates(f, bound, V, first, step)
    BY <1>1, <2>2, <2>3, RecursionExists
  <2>5. \A k \in 0..bound : f[k] = IF k = 0 THEN <<>> ELSE
           IF all[k] \in S THEN Append(f[k - 1], all[k]) ELSE f[k - 1]
    <3> TAKE k \in 0..bound
    <3>1. CASE k = 0
      BY <2>4, <3>1 DEF first, Iterates
    <3>2. CASE k # 0
      <4>1. k - 1 \in 0..bound /\ k - 1 < bound /\ (k - 1) + 1 = k
        BY <1>1, <3>2
      <4>2. f[k] = step[<<k - 1, f[k - 1]>>]
        BY <2>4, <4>1 DEF Iterates
      <4>3. f[k - 1] \in V
        BY <2>4, <4>1 DEF Iterates
      <4> QED BY <2>1, <3>2, <4>1, <4>2, <4>3
    <3> QED BY <3>1, <3>2
  <2>6. f = [k \in 0..bound |-> f[k]] /\ f \in [0..bound -> V]
    BY <2>4 DEF Iterates
  <2>7. Is(f)
    BY <2>5, <2>6
  <2> QED BY <2>6, <2>7
<1>3. Only(S, all) = c[bound]
  BY <1>1 DEF Only
<1> HIDE DEF c
<1>4. Is(c)
  BY <1>2 DEF c
<1> HIDE DEF bound
<1>5. DOMAIN c = 0..bound /\ c[0] = <<>>
  BY <1>1, <1>4
<1>6. \A k \in 0..bound : k < bound =>
         c[k + 1] = IF all[k + 1] \in S THEN Append(c[k], all[k + 1]) ELSE c[k]
  <2> SUFFICES ASSUME NEW k \in 0..bound, k < bound
               PROVE  c[k + 1] = IF all[k + 1] \in S THEN Append(c[k], all[k + 1]) ELSE c[k]
    OBVIOUS
  <2>1. k + 1 \in 0..bound /\ k + 1 # 0 /\ (k + 1) - 1 = k
    BY <1>1
  <2> QED BY <1>4, <2>1
<1>7. c \in [0..bound -> V]
  <2> DEFINE U == {k \in 0..bound : c[k] \in V}
  <2>0. <<>> \in V
    OBVIOUS
  <2>9. c[0] \in V
    BY <1>5, <2>0, Zenon
  <2>1. 0 \in U
    <3> HIDE DEF V
    <3> QED BY <1>1, <2>9
  <2>2. ASSUME NEW k \in 0..bound, k \in U, k < bound PROVE k + 1 \in U
    <3>1. k + 1 \in 0..bound /\ k + 1 \in 1..bound
      BY <1>1, <2>2
    <3>2. c[k] \in V /\ all[k + 1] \in T
      BY <1>1, <2>2, <3>1
    <3>3. Append(c[k], all[k + 1]) \in V
      BY <3>2, AppendProperties
    <3> QED BY <1>6, <2>2, <3>1, <3>2, <3>3
  <2> HIDE DEF U
  <2>3. \A k \in 0..bound : k \in U
    BY <1>1, <2>1, <2>2, StepByStep
  <2>4. \A k \in 0..bound : c[k] \in V
    BY <2>3 DEF U
  <2> QED BY <1>4, <1>5, <2>4
<1> QED BY <1>3, <1>5, <1>6, <1>7 DEF Picks, bound

\* Only shows the members of the set that are in the sequence, each as often.
LEMMA OnlyIs ==
    ASSUME NEW T, NEW S, NEW all \in Seq(T)
    PROVE  /\ Only(S, all) \in Seq(T)
           /\ Range(Only(S, all)) = Range(all) \cap S
           /\ IsInjective(all) => IsInjective(Only(S, all))
<1> DEFINE bound == Len(all)
           Good(k, o) ==
             /\ o \in Seq(T)
             /\ \A i \in 1..Len(o) : \E j \in 1..k : o[i] = all[j] /\ all[j] \in S
             /\ \A j \in 1..k : all[j] \in S => \E i \in 1..Len(o) : o[i] = all[j]
             /\ IsInjective(all) => \A i, j \in 1..Len(o) : o[i] = o[j] => i = j
<1>1. bound \in Nat /\ \A k \in 1..bound : all[k] \in T
  OBVIOUS
<1>2. PICK f : Picks(f, S, T, all)
  BY OnlyWalks
<1> DEFINE U == {k \in 0..bound : Good(k, f[k])}
<1>3. 0 \in U
  BY <1>1, <1>2 DEF Picks
<1>4. ASSUME NEW k \in 0..bound, k \in U, k < bound PROVE k + 1 \in U
  <2>1. k + 1 \in 0..bound /\ k + 1 \in 1..bound /\ k \in Nat /\ all[k + 1] \in T
    BY <1>1, <1>4
  <2>2. Good(k, f[k])
    BY <1>4
  <2>3. f[k + 1] = IF all[k + 1] \in S THEN Append(f[k], all[k + 1]) ELSE f[k]
    BY <1>2, <1>4 DEF Picks
  <2>4. CASE all[k + 1] \notin S
    <3>1. \A j \in 1..(k + 1) : j \in 1..k \/ j = k + 1
      BY <2>1
    <3>2. \A j \in 1..k : j \in 1..(k + 1)
      BY <2>1
    <3>3. Good(k + 1, f[k])
      BY <2>2, <2>4, <3>1, <3>2
    <3> QED BY <2>1, <2>3, <2>4, <3>3
  <2>5. CASE all[k + 1] \in S
    <3> DEFINE o == f[k]
               x == all[k + 1]
               n == Len(o)
               longer == Append(o, x)
    <3>1. n \in Nat /\ o \in Seq(T) /\ x \in T
      BY <2>1, <2>2
    <3>2. /\ longer \in Seq(T) /\ Len(longer) = n + 1
          /\ \A i \in 1..n : longer[i] = o[i]
          /\ longer[n + 1] = x
      BY <3>1, AppendProperties
    <3> HIDE DEF longer, n, o, x
    <3>3. \A i \in 1..n : \E j \in 1..k : o[i] = all[j] /\ all[j] \in S
      BY <2>2 DEF n, o
    <3>4. \A j \in 1..k : all[j] \in S => \E i \in 1..n : o[i] = all[j]
      BY <2>2 DEF n, o
    <3>5. IsInjective(all) => \A i, j \in 1..n : o[i] = o[j] => i = j
      BY <2>2 DEF n, o
    <3>6. \A i \in 1..(n + 1) : \E j \in 1..(k + 1) : longer[i] = all[j] /\ all[j] \in S
      <4> TAKE i \in 1..(n + 1)
      <4>1. CASE i = n + 1
        <5>1. k + 1 \in 1..(k + 1)
          BY <2>1
        <5> QED BY <2>5, <3>2, <4>1, <5>1 DEF x
      <4>2. CASE i # n + 1
        <5>1. i \in 1..n
          BY <3>1, <4>2
        <5>2. PICK j \in 1..k : o[i] = all[j] /\ all[j] \in S
          BY <3>3, <5>1
        <5>3. j \in 1..(k + 1)
          BY <2>1
        <5> QED BY <3>2, <5>1, <5>2, <5>3
      <4> QED BY <4>1, <4>2
    <3>7. ASSUME NEW j \in 1..(k + 1), all[j] \in S
          PROVE  \E i \in 1..(n + 1) : longer[i] = all[j]
      <4>1. CASE j = k + 1
        <5>1. n + 1 \in 1..(n + 1)
          BY <3>1
        <5> QED BY <3>2, <4>1, <5>1 DEF x
      <4>2. CASE j # k + 1
        <5>1. j \in 1..k
          BY <2>1, <4>2
        <5>2. PICK i \in 1..n : o[i] = all[j]
          BY <3>4, <3>7, <5>1
        <5>3. i \in 1..(n + 1)
          BY <3>1
        <5> QED BY <3>2, <5>2, <5>3
      <4> QED BY <4>1, <4>2
    <3>8. ASSUME IsInjective(all)
          PROVE  \A i, j \in 1..(n + 1) : longer[i] = longer[j] => i = j
      <4>1. \A i, j \in 1..bound : all[i] = all[j] => i = j
        BY <3>8, RangeIs
      <4>2. \A i \in 1..n : o[i] # x
        <5> SUFFICES ASSUME NEW i \in 1..n, o[i] = x PROVE FALSE
          OBVIOUS
        <5>1. PICK j \in 1..k : o[i] = all[j]
          BY <3>3
        <5>2. j \in 1..bound /\ j # k + 1
          BY <1>1, <2>1, <1>4
        <5> QED BY <2>1, <4>1, <5>1, <5>2 DEF x
      <4>3. \A i \in 1..(n + 1) : i \in 1..n \/ i = n + 1
        BY <3>1
      <4> QED BY <3>2, <3>5, <3>8, <4>2, <4>3
    <3>9. Good(k + 1, longer)
      <4>1. Len(longer) = n + 1
        BY <3>2
      <4>2. IsInjective(all) => \A i, j \in 1..Len(longer) : longer[i] = longer[j] => i = j
        BY <3>8, <4>1
      <4>3. \A i \in 1..Len(longer) : \E j \in 1..(k + 1) : longer[i] = all[j] /\ all[j] \in S
        BY <3>6, <4>1
      <4>4. \A j \in 1..(k + 1) : all[j] \in S => \E i \in 1..Len(longer) : longer[i] = all[j]
        BY <3>7, <4>1
      <4> QED BY <3>2, <4>2, <4>3, <4>4
    <3>10. f[k + 1] = longer
      BY <2>3, <2>5 DEF longer, o, x
    <3> HIDE DEF Good
    <3> QED BY <2>1, <3>9, <3>10
  <2> QED BY <2>4, <2>5
<1> HIDE DEF U
<1>5. \A k \in 0..bound : k \in U
  BY <1>1, <1>3, <1>4, StepByStep
<1>6. bound \in U
  BY <1>1, <1>5
<1> DEFINE o == Only(S, all)
<1>7. Good(bound, o)
  BY <1>2, <1>6 DEF U, Picks
<1> HIDE DEF o
<1>8. o \in Seq(T)
  BY <1>7
<1>9. IsInjective(all) => IsInjective(o)
  BY <1>7, <1>8, RangeIs
<1>10. Range(o) = Range(all) \cap S
  <2>1. \A x \in Range(o) : \E i \in 1..Len(o) : x = o[i]
    BY <1>8, RangeIs
  <2>2. \A x \in Range(all) : \E i \in 1..bound : x = all[i]
    BY RangeIs
  <2>3. \A i \in 1..bound : all[i] \in Range(all)
    BY RangeIs
  <2>4. \A i \in 1..Len(o) : o[i] \in Range(o)
    BY <1>8, RangeIs
  <2>5. \A i \in 1..Len(o) : \E j \in 1..bound : o[i] = all[j] /\ all[j] \in S
    BY <1>7
  <2>6. \A j \in 1..bound : all[j] \in S => \E i \in 1..Len(o) : o[i] = all[j]
    BY <1>7
  <2> HIDE DEF bound, Good
  <2>7. ASSUME NEW x \in Range(o) PROVE x \in Range(all) /\ x \in S
    <3>1. PICK i \in 1..Len(o) : x = o[i]
      BY <2>1
    <3>2. PICK j \in 1..bound : o[i] = all[j] /\ all[j] \in S
      BY <2>5
    <3> QED BY <2>3, <3>1, <3>2
  <2>8. ASSUME NEW x \in Range(all), x \in S PROVE x \in Range(o)
    <3>1. PICK j \in 1..bound : x = all[j]
      BY <2>2
    <3>2. PICK i \in 1..Len(o) : o[i] = all[j]
      BY <2>6, <2>8, <3>1
    <3> QED BY <2>4, <3>1, <3>2
  <2> QED BY <2>7, <2>8
<1> QED BY <1>8, <1>9, <1>10 DEF o

\* The walk of Woven.
Weaves(f, T, all, text) ==
    /\ f \in [0..Len(text) -> Seq(T)]
    /\ f[0] = all
    /\ \A k \in 0..Len(text) : k < Len(text) => f[k + 1] = WovenIn(f[k], text, k + 1)
    /\ Woven(all, text) = f[Len(text)]

LEMMA WovenInIs ==
    ASSUME NEW T, NEW seq \in Seq(T), NEW text \in Seq(T), NEW i \in 1..Len(text)
    PROVE  /\ WovenIn(seq, text, i) \in Seq(T)
           /\ Range(WovenIn(seq, text, i)) = Range(seq) \cup {text[i]}
           /\ IsInjective(seq) => IsInjective(WovenIn(seq, text, i))
<1> DEFINE at == IF i = 1 THEN 0 ELSE SelectInSeq(seq, LAMBDA x : x = text[i - 1])
<1>1. text[i] \in T /\ \A j \in 1..Len(seq) : seq[j] \in Range(seq)
  BY RangeIs
<1>2. Contains(seq, text[i]) <=> text[i] \in Range(seq)
  BY RangeIs DEF Contains
<1>3. at \in 0..Len(seq)
  <2> DEFINE places == {j \in 1..Len(seq) : seq[j] = text[i - 1]}
  <2>1. SelectInSeq(seq, LAMBDA x : x = text[i - 1]) = IF places # {} THEN Min(places) ELSE 0
    BY DEF SelectInSeq
  <2>2. places \in SUBSET Nat /\ places \subseteq 0..Len(seq) /\ 0 \in 0..Len(seq)
    OBVIOUS
  <2> HIDE DEF places
  <2>3. places # {} => Min(places) \in places
    BY <2>2, FirstPlace
  <2> QED BY <2>1, <2>2, <2>3
<1>4. WovenIn(seq, text, i) = IF Contains(seq, text[i]) THEN seq ELSE Spliced(seq, at, <<text[i]>>)
  BY DEF WovenIn
<1> HIDE DEF at
<1>5. CASE Contains(seq, text[i])
  BY <1>2, <1>4, <1>5
<1>6. CASE ~Contains(seq, text[i])
  <2> DEFINE one == <<text[i]>>
  <2>1. one \in Seq(T) /\ Range(one) = {text[i]}
    BY <1>1 DEF Range
  <2> HIDE DEF one
  <2>2. Spliced(seq, at, one) \in Seq(T) /\ Range(Spliced(seq, at, one)) = Range(seq) \cup Range(one)
    BY <1>3, <2>1, SplicedIs
  <2>3. IsInjective(seq) => IsInjective(Spliced(seq, at, <<text[i]>>))
    BY <1>1, <1>2, <1>3, <1>6, SplicedOnce
  <2>4. WovenIn(seq, text, i) = Spliced(seq, at, one)
    BY <1>4, <1>6 DEF one
  <2> QED BY <2>1, <2>2, <2>3, <2>4 DEF one
<1> QED BY <1>5, <1>6

LEMMA WovenWalks ==
    ASSUME NEW T, NEW all \in Seq(T), NEW text \in Seq(T)
    PROVE  \E f : Weaves(f, T, all, text)
<1> DEFINE bound == Len(text)
           V == Seq(T)
           Is(f) == f = [i \in 0..bound |-> IF i = 0 THEN all ELSE WovenIn(f[i - 1], text, i)]
           c == CHOOSE f : Is(f)
<1>1. bound \in Nat
  OBVIOUS
<1>2. \A k \in 1..bound, v \in V : WovenIn(v, text, k) \in V
  BY WovenInIs
<1>3. Woven(all, text) = c[bound]
  BY <1>1 DEF Woven
<1>4. \E f \in [0..bound -> V] : Is(f)
  <2> DEFINE step == [x \in (0..bound) \X V |->
                        IF x[1] < bound THEN WovenIn(x[2], text, x[1] + 1) ELSE x[2]]
             first == all
  <2>1. \A k \in 0..bound, v \in V :
           step[<<k, v>>] = IF k < bound THEN WovenIn(v, text, k + 1) ELSE v
    OBVIOUS
  <2>2. step \in [(0..bound) \X V -> V]
    <3>1. ASSUME NEW x \in (0..bound) \X V
          PROVE  (IF x[1] < bound THEN WovenIn(x[2], text, x[1] + 1) ELSE x[2]) \in V
      <4>1. x[1] \in 0..bound /\ x[2] \in V
        OBVIOUS
      <4>2. x[1] < bound => x[1] + 1 \in 1..bound
        BY <1>1, <4>1
      <4> QED BY <1>2, <4>1, <4>2
    <3> QED BY <3>1
  <2>3. first \in V
    OBVIOUS
  <2> HIDE DEF step, V, bound, first
  <2>4. PICK f : Iterates(f, bound, V, first, step)
    BY <1>1, <2>2, <2>3, RecursionExists
  <2>5. \A k \in 0..bound : f[k] = IF k = 0 THEN all ELSE WovenIn(f[k - 1], text, k)
    <3> TAKE k \in 0..bound
    <3>1. CASE k = 0
      BY <2>4, <3>1 DEF first, Iterates
    <3>2. CASE k # 0
      <4>1. k - 1 \in 0..bound /\ k - 1 < bound /\ (k - 1) + 1 = k
        BY <1>1, <3>2
      <4>2. f[k] = step[<<k - 1, f[k - 1]>>]
        BY <2>4, <4>1 DEF Iterates
      <4>3. f[k - 1] \in V
        BY <2>4, <4>1 DEF Iterates
      <4> QED BY <2>1, <3>2, <4>1, <4>2, <4>3
    <3> QED BY <3>1, <3>2
  <2>6. f = [k \in 0..bound |-> f[k]] /\ f \in [0..bound -> V]
    BY <2>4 DEF Iterates
  <2>7. Is(f)
    BY <2>5, <2>6
  <2> QED BY <2>6, <2>7
<1> HIDE DEF c
<1>5. Is(c)
  BY <1>4 DEF c
<1> HIDE DEF bound, V
<1>6. DOMAIN c = 0..bound /\ c[0] = all
  BY <1>1, <1>5
<1>7. ASSUME NEW k \in 0..bound, k < bound PROVE c[k + 1] = WovenIn(c[k], text, k + 1)
  <2>1. k + 1 \in 0..bound /\ k + 1 # 0 /\ (k + 1) - 1 = k
    BY <1>1, <1>7
  <2> QED BY <1>5, <2>1
<1>8. c \in [0..bound -> V]
  <2> DEFINE U == {k \in 0..bound : c[k] \in V}
  <2>1. 0 \in U
    BY <1>1, <1>6 DEF V
  <2>2. ASSUME NEW k \in 0..bound, k \in U, k < bound PROVE k + 1 \in U
    <3>1. k + 1 \in 0..bound /\ k + 1 \in 1..bound /\ c[k] \in V
      BY <1>1, <2>2
    <3> QED BY <1>2, <1>7, <2>2, <3>1
  <2> HIDE DEF U
  <2>3. \A k \in 0..bound : k \in U
    BY <1>1, <2>1, <2>2, StepByStep
  <2>4. \A k \in 0..bound : c[k] \in V
    BY <2>3 DEF U
  <2> QED BY <1>5, <1>6, <2>4
<1> QED BY <1>3, <1>6, <1>7, <1>8 DEF Weaves, bound, V

\* The common order takes in the blocks of a text, none of them twice.
LEMMA WovenIs ==
    ASSUME NEW T, NEW all \in Seq(T), NEW text \in Seq(T)
    PROVE  /\ Woven(all, text) \in Seq(T)
           /\ Range(Woven(all, text)) = Range(all) \cup Range(text)
           /\ IsInjective(all) => IsInjective(Woven(all, text))
<1> DEFINE bound == Len(text)
           Good(k, o) ==
             /\ o \in Seq(T)
             /\ Range(o) = Range(all) \cup {text[i] : i \in 1..k}
             /\ IsInjective(all) => IsInjective(o)
<1>1. bound \in Nat
  OBVIOUS
<1>2. PICK f : Weaves(f, T, all, text)
  BY WovenWalks
<1> DEFINE U == {k \in 0..bound : Good(k, f[k])}
<1>3. 0 \in U
  BY <1>1, <1>2 DEF Weaves
<1>4. ASSUME NEW k \in 0..bound, k \in U, k < bound PROVE k + 1 \in U
  <2>1. k + 1 \in 0..bound /\ k + 1 \in 1..Len(text) /\ k \in Nat
    BY <1>1, <1>4
  <2>2. Good(k, f[k])
    BY <1>4
  <2>3. f[k + 1] = WovenIn(f[k], text, k + 1)
    BY <1>2, <1>4 DEF Weaves
  <2>4. /\ f[k + 1] \in Seq(T)
        /\ Range(f[k + 1]) = Range(f[k]) \cup {text[k + 1]}
        /\ IsInjective(f[k]) => IsInjective(f[k + 1])
    <3>1. f[k] \in Seq(T)
      BY <2>2
    <3> QED BY <2>1, <2>3, <3>1, WovenInIs
  <2>5. {text[i] : i \in 1..(k + 1)} = {text[i] : i \in 1..k} \cup {text[k + 1]}
    <3>1. 1..(k + 1) = 1..k \cup {k + 1}
      BY <2>1
    <3> QED BY <3>1
  <2>6. Good(k + 1, f[k + 1])
    BY <2>2, <2>4, <2>5
  <2> HIDE DEF Good
  <2> QED BY <2>1, <2>6
<1> HIDE DEF U
<1>5. \A k \in 0..bound : k \in U
  BY <1>1, <1>3, <1>4, StepByStep
<1>6. Good(bound, f[bound])
  <2> HIDE DEF Good
  <2> QED BY <1>1, <1>5 DEF U
<1>7. Range(text) = {text[i] : i \in 1..bound}
  BY RangeIs
<1> QED BY <1>2, <1>6, <1>7 DEF Weaves

-----------------------------------------------------------------------------
(* Applying the operations of an offer.                                    *)

Applying == [text : Seq(Block), trailing : [Blocks -> Nat], skipped : SUBSET Nat]

\* The blocks that accepting p in r makes.
MadeBy(p, r) == {x \in Block : \E k, i \in Nat : x.of = <<p, r, reloads, k, i>>}

\* What an operation does to the blocks that are shown.
Stepped(p, r, op, k, s, n) ==
    /\ n \in Applying
    /\ Range(n.text) \subseteq Range(s.text) \cup MadeBy(p, r)
    /\ \A x \in Range(s.text) : x.id # op.id => x \in Range(n.text)
    /\ \/ /\ n.text = s.text /\ n.skipped = s.skipped \cup {k}
          /\ \A x \in Range(s.text) : x.id # op.id
       \/ /\ n.skipped = s.skipped
          /\ op.op # "delete" => \E x \in Range(n.text) : x.id = op.id
          /\ \/ \E x \in Range(n.text) : x \in MadeBy(p, r) /\ x.id \notin Blocks
             \/ /\ op.op # "insert_after"
                /\ IsInjective(s.text) =>
                      \E x \in Range(s.text) : x \in Range(n.text) => x \in MadeBy(p, r)

LEMMA BroughtIs ==
    ASSUME NEW p \in Offers, NEW r \in Replicas, NEW k \in Nat, NEW op \in Op, reloads \in Nat
    PROVE  /\ Brought(p, r, k, op) \in Seq(Block)
           /\ Range(Brought(p, r, k, op)) \subseteq MadeBy(p, r)
           /\ op.op = "replace" => \E x \in Range(Brought(p, r, k, op)) : x.id = op.id
           /\ op.op # "replace" => \E x \in Range(Brought(p, r, k, op)) : x.id \notin Blocks
<1> DEFINE b == Brought(p, r, k, op)
           one == IF op.op = "replace" THEN NewBlock(p, r, k, 1, op.id) ELSE Minted(p, r, k, 1)
<1>1. op.nodes \in Nat /\ op.nodes >= 1 /\ op.id \in Blocks
  BY DEF Op
<1>2. \A i \in Nat : <<p, r, reloads, k, i>> \in Identity
  BY DEF Identity, Life
<1>3. \A i \in Nat : Minted(p, r, k, i) \in MadeBy(p, r) /\ Minted(p, r, k, i).id \notin Blocks
  <2> TAKE i \in Nat
  <2>1. /\ Minted(p, r, k, i).id = <<p, r, reloads, k, i>>
        /\ Minted(p, r, k, i).of = <<p, r, reloads, k, i>>
        /\ Minted(p, r, k, i) \in Block
    BY <1>2 DEF Minted, NewBlock, Block
  <2>2. \A x \in Blocks : x \notin Identity
    BY ProposalsAssumption DEF ProposalsAssumption, Identity, Life
  <2> QED BY <1>2, <2>1, <2>2 DEF MadeBy
<1>4. \A i \in Nat : NewBlock(p, r, k, i, op.id) \in MadeBy(p, r)
  <2> TAKE i \in Nat
  <2>1. /\ NewBlock(p, r, k, i, op.id).of = <<p, r, reloads, k, i>>
        /\ NewBlock(p, r, k, i, op.id) \in Block
    BY <1>1, <1>2 DEF NewBlock, Block
  <2> QED BY <2>1 DEF MadeBy
<1>5. b = [i \in 1..op.nodes |-> IF op.op = "replace" /\ i = 1
             THEN NewBlock(p, r, k, i, op.id) ELSE Minted(p, r, k, i)]
  BY DEF Brought
<1> HIDE DEF b
<1>6. \A i \in 1..op.nodes : b[i] \in MadeBy(p, r)
  BY <1>3, <1>4, <1>5
<1>7. b \in Seq(MadeBy(p, r))
  BY <1>1, <1>5, <1>6
<1>8. Range(b) \subseteq MadeBy(p, r) /\ b \in Seq(Block)
  <2>1. MadeBy(p, r) \subseteq Block
    BY DEF MadeBy
  <2> QED BY <1>7, <2>1, RangeIs, SeqMonotonic
<1>9. b[1] \in Range(b) /\ b[1] = one
  BY <1>1, <1>5 DEF Range
<1>10. op.op = "replace" => b[1].id = op.id
  BY <1>9 DEF NewBlock
<1>11. op.op # "replace" => b[1].id \notin Blocks
  BY <1>3, <1>9
<1> QED BY <1>8, <1>9, <1>10, <1>11 DEF b

LEMMA StepIs ==
    ASSUME NEW p \in Offers, NEW r \in Replicas, NEW ops \in Seq(Op), reloads \in Nat,
           NEW s \in Applying, NEW k \in 1..Len(ops)
    PROVE  Stepped(p, r, ops[k], k, s, Step(p, r, ops, s, k))
<1> DEFINE op == ops[k]
           text == s.text
           pos == Found(text, op.id)
           new == Brought(p, r, k, op)
           carried == Carried(s.trailing, op.id)
           behind == pos + carried
           at == IF behind > Len(text) THEN Len(text) ELSE behind
           n == Step(p, r, ops, s, k)
<1>1. op \in Op /\ k \in Nat /\ op.op \in {"replace", "insert_after", "delete"} /\ op.id \in Blocks
  <2>1. op \in Op /\ k \in Nat
    OBVIOUS
  <2> QED BY <2>1 DEF Op
<1>2. text \in Seq(Block) /\ s.trailing \in [Blocks -> Nat] /\ s.skipped \in SUBSET Nat
  BY DEF Applying
<1>3. /\ pos \in 0..Len(text)
      /\ pos = 0 => \A i \in 1..Len(text) : text[i].id # op.id
      /\ pos # 0 => text[pos].id = op.id
  BY <1>2, FoundIs
<1>4. /\ new \in Seq(Block)
      /\ Range(new) \subseteq MadeBy(p, r)
      /\ op.op = "replace" => \E x \in Range(new) : x.id = op.id
      /\ op.op # "replace" => \E x \in Range(new) : x.id \notin Blocks
  BY <1>1, BroughtIs
<1>5. carried \in Nat /\ Len(text) \in Nat /\ op.nodes \in Nat /\ op.nodes >= 1
  BY <1>1, <1>2 DEF Carried, Op
<1>6. n = IF pos = 0
          THEN [s EXCEPT !.skipped = @ \cup {k}]
          ELSE IF op.op = "delete"
          THEN [s EXCEPT !.text = Without(@, pos), !.trailing[op.id] = 0]
          ELSE IF op.op = "replace"
          THEN [s EXCEPT !.text = Spliced(Without(@, pos), pos - 1, new),
                         !.trailing[op.id] = carried + op.nodes - 1]
          ELSE [s EXCEPT !.text = Spliced(@, IF behind > Len(@) THEN Len(@) ELSE behind, new),
                         !.trailing[op.id] = carried + op.nodes]
  BY DEF Step
<1>7. s = [text |-> s.text, trailing |-> s.trailing, skipped |-> s.skipped]
  BY DEF Applying
<1> HIDE DEF op, pos, new, carried, n
<1>8. CASE pos = 0
  <2>1. n.text = text /\ n.trailing = s.trailing /\ n.skipped = s.skipped \cup {k}
    BY <1>6, <1>7, <1>8
  <2>2. n = [text |-> n.text, trailing |-> n.trailing, skipped |-> n.skipped]
    BY <1>6, <1>7, <1>8
  <2>3. n \in Applying
    BY <1>1, <1>2, <2>1, <2>2 DEF Applying
  <2>4. \A x \in Range(text) : x.id # op.id
    BY <1>2, <1>3, <1>8, RangeIs
  <2> QED BY <2>1, <2>3, <2>4 DEF Stepped, op, n
<1>9. CASE pos # 0 /\ op.op = "delete"
  <2> DEFINE less == Without(text, pos)
  <2>1. n.text = less /\ n.trailing = [s.trailing EXCEPT ![op.id] = 0] /\ n.skipped = s.skipped
    BY <1>6, <1>7, <1>9
  <2>2. n = [text |-> n.text, trailing |-> n.trailing, skipped |-> n.skipped]
    BY <1>6, <1>7, <1>9
  <2>3. pos \in 1..Len(text)
    BY <1>3, <1>5, <1>9
  <2>4. /\ less \in Seq(Block) /\ Range(less) \subseteq Range(text)
        /\ \A x \in Range(text) : x # text[pos] => x \in Range(less)
        /\ IsInjective(text) => text[pos] \notin Range(less)
    BY <1>2, <2>3, WithoutIs
  <2> HIDE DEF less
  <2>5. n.trailing \in [Blocks -> Nat]
    BY <1>1, <1>2, <2>1
  <2>6. n \in Applying
    BY <1>2, <2>1, <2>2, <2>4, <2>5 DEF Applying
  <2>7. text[pos].id = op.id /\ text[pos] \in Range(text)
    BY <1>2, <1>3, <1>9, <2>3, RangeIs
  <2> QED BY <1>9, <2>1, <2>4, <2>6, <2>7 DEF Stepped, op, n
<1>10. CASE pos # 0 /\ op.op = "replace"
  <2> DEFINE less == Without(text, pos)
             more == Spliced(less, pos - 1, new)
  <2>1. /\ n.text = more /\ n.skipped = s.skipped
        /\ n.trailing = [s.trailing EXCEPT ![op.id] = carried + op.nodes - 1]
    BY <1>6, <1>7, <1>10
  <2>2. n = [text |-> n.text, trailing |-> n.trailing, skipped |-> n.skipped]
    BY <1>6, <1>7, <1>10
  <2>3. pos \in 1..Len(text)
    BY <1>3, <1>5, <1>10
  <2>4. /\ less \in Seq(Block) /\ Range(less) \subseteq Range(text)
        /\ Len(less) = Len(text) - 1
        /\ \A x \in Range(text) : x # text[pos] => x \in Range(less)
        /\ IsInjective(text) => text[pos] \notin Range(less)
    BY <1>2, <2>3, WithoutIs
  <2>5. pos - 1 \in 0..Len(less)
    BY <1>5, <2>3, <2>4
  <2>6. more \in Seq(Block) /\ Range(more) = Range(less) \cup Range(new)
    <3> HIDE DEF less
    <3>1. less \in Seq(Block)
      BY <2>4
    <3> QED BY <1>4, <2>5, <3>1, SplicedIs
  <2> HIDE DEF less, more
  <2>7. n.trailing \in [Blocks -> Nat]
    <3>1. carried + op.nodes - 1 \in Nat
      BY <1>5
    <3> QED BY <1>1, <1>2, <2>1, <3>1
  <2>8. n \in Applying
    BY <1>2, <2>1, <2>2, <2>6, <2>7 DEF Applying
  <2>9. text[pos].id = op.id /\ text[pos] \in Range(text)
    BY <1>2, <1>3, <1>10, <2>3, RangeIs
  <2>10. Range(more) \subseteq Range(text) \cup MadeBy(p, r)
    BY <1>4, <2>4, <2>6
  <2>11. \A x \in Range(text) : x.id # op.id => x \in Range(more)
    BY <2>4, <2>6, <2>9
  <2>12. \E x \in Range(more) : x.id = op.id
    BY <1>4, <1>10, <2>6
  <2>13. IsInjective(text) => (text[pos] \in Range(more) => text[pos] \in MadeBy(p, r))
    BY <1>4, <2>4, <2>6
  <2> QED BY <1>10, <2>1, <2>8, <2>9, <2>10, <2>11, <2>12, <2>13 DEF Stepped, op, n
<1>11. CASE pos # 0 /\ op.op = "insert_after"
  <2> DEFINE more == Spliced(text, at, new)
  <2>1. /\ n.text = more /\ n.skipped = s.skipped
        /\ n.trailing = [s.trailing EXCEPT ![op.id] = carried + op.nodes]
    BY <1>6, <1>7, <1>11
  <2>2. n = [text |-> n.text, trailing |-> n.trailing, skipped |-> n.skipped]
    BY <1>6, <1>7, <1>11
  <2>3. pos \in 1..Len(text)
    BY <1>3, <1>5, <1>11
  <2>4. at \in 0..Len(text)
    BY <1>5, <2>3
  <2> HIDE DEF at
  <2>5. more \in Seq(Block) /\ Range(more) = Range(text) \cup Range(new)
    BY <1>2, <1>4, <2>4, SplicedIs
  <2> HIDE DEF more
  <2>6. n.trailing \in [Blocks -> Nat]
    <3>1. carried + op.nodes \in Nat
      BY <1>5
    <3> QED BY <1>1, <1>2, <2>1, <3>1
  <2>7. n \in Applying
    BY <1>2, <2>1, <2>2, <2>5, <2>6 DEF Applying
  <2>8. text[pos].id = op.id /\ text[pos] \in Range(text)
    BY <1>2, <1>3, <1>11, <2>3, RangeIs
  <2>9. \E x \in Range(more) : x.id = op.id
    BY <2>5, <2>8
  <2>10. \E x \in Range(more) : x \in MadeBy(p, r) /\ x.id \notin Blocks
    BY <1>4, <1>11, <2>5
  <2>11. Range(more) \subseteq Range(text) \cup MadeBy(p, r) /\ Range(text) \subseteq Range(more)
    BY <1>4, <2>5
  <2> QED BY <2>1, <2>7, <2>9, <2>10, <2>11 DEF Stepped, op, n
<1> QED BY <1>1, <1>3, <1>8, <1>9, <1>10, <1>11 DEF op, n

\* The walk of Apply.
Applies(f, p, r, ops, text) ==
    /\ f \in [0..Len(ops) -> Applying]
    /\ f[0] = Untouched(text)
    /\ \A k \in 0..Len(ops) : k < Len(ops) => f[k + 1] = Step(p, r, ops, f[k], k + 1)
    /\ Apply(p, r, ops, text) = f[Len(ops)]

LEMMA ApplyWalks ==
    ASSUME NEW p \in Offers, NEW r \in Replicas, NEW ops \in Seq(Op), reloads \in Nat,
           NEW text \in Seq(Block)
    PROVE  \E f : Applies(f, p, r, ops, text)
<1> DEFINE bound == Len(ops)
           V == Applying
           Is(f) == f = [k \in 0..bound |-> IF k = 0 THEN Untouched(text)
                                            ELSE Step(p, r, ops, f[k - 1], k)]
           c == CHOOSE f : Is(f)
<1>1. bound \in Nat
  OBVIOUS
<1>2. \A k \in 1..bound, v \in V : Step(p, r, ops, v, k) \in V
  BY StepIs DEF Stepped
<1>3. Apply(p, r, ops, text) = c[bound]
  BY <1>1 DEF Apply
<1>4. Untouched(text) \in V
  BY DEF Untouched, Applying
<1>5. \E f \in [0..bound -> V] : Is(f)
  <2> DEFINE step == [x \in (0..bound) \X V |->
                        IF x[1] < bound THEN Step(p, r, ops, x[2], x[1] + 1) ELSE x[2]]
             first == Untouched(text)
  <2>1. \A k \in 0..bound, v \in V :
           step[<<k, v>>] = IF k < bound THEN Step(p, r, ops, v, k + 1) ELSE v
    OBVIOUS
  <2>2. step \in [(0..bound) \X V -> V]
    <3>1. ASSUME NEW x \in (0..bound) \X V
          PROVE  (IF x[1] < bound THEN Step(p, r, ops, x[2], x[1] + 1) ELSE x[2]) \in V
      <4>1. x[1] \in 0..bound /\ x[2] \in V
        OBVIOUS
      <4>2. x[1] < bound => x[1] + 1 \in 1..bound
        BY <1>1, <4>1
      <4> QED BY <1>2, <4>1, <4>2
    <3> QED BY <3>1
  <2>3. first \in V
    BY <1>4
  <2> HIDE DEF step, V, bound, first
  <2>4. PICK f : Iterates(f, bound, V, first, step)
    BY <1>1, <2>2, <2>3, RecursionExists
  <2>5. \A k \in 0..bound : f[k] = IF k = 0 THEN Untouched(text) ELSE Step(p, r, ops, f[k - 1], k)
    <3> TAKE k \in 0..bound
    <3>1. CASE k = 0
      BY <2>4, <3>1 DEF first, Iterates
    <3>2. CASE k # 0
      <4>1. k - 1 \in 0..bound /\ k - 1 < bound /\ (k - 1) + 1 = k
        BY <1>1, <3>2
      <4>2. f[k] = step[<<k - 1, f[k - 1]>>]
        BY <2>4, <4>1 DEF Iterates
      <4>3. f[k - 1] \in V
        BY <2>4, <4>1 DEF Iterates
      <4> QED BY <2>1, <3>2, <4>1, <4>2, <4>3
    <3> QED BY <3>1, <3>2
  <2>6. f = [k \in 0..bound |-> f[k]] /\ f \in [0..bound -> V]
    BY <2>4 DEF Iterates
  <2>7. Is(f)
    BY <2>5, <2>6
  <2> QED BY <2>6, <2>7
<1> HIDE DEF c
<1>6. Is(c)
  BY <1>5 DEF c
<1> HIDE DEF bound, V
<1>7. DOMAIN c = 0..bound /\ c[0] = Untouched(text)
  BY <1>1, <1>6
<1>8. ASSUME NEW k \in 0..bound, k < bound PROVE c[k + 1] = Step(p, r, ops, c[k], k + 1)
  <2>1. k + 1 \in 0..bound /\ k + 1 # 0 /\ (k + 1) - 1 = k
    BY <1>1, <1>8
  <2> QED BY <1>6, <2>1
<1>9. c \in [0..bound -> V]
  <2> DEFINE U == {k \in 0..bound : c[k] \in V}
  <2>1. 0 \in U
    BY <1>1, <1>4, <1>7
  <2>2. ASSUME NEW k \in 0..bound, k \in U, k < bound PROVE k + 1 \in U
    <3>1. k + 1 \in 0..bound /\ k + 1 \in 1..bound /\ c[k] \in V
      BY <1>1, <2>2
    <3> QED BY <1>2, <1>8, <2>2, <3>1
  <2> HIDE DEF U
  <2>3. \A k \in 0..bound : k \in U
    BY <1>1, <2>1, <2>2, StepByStep
  <2>4. \A k \in 0..bound : c[k] \in V
    BY <2>3 DEF U
  <2> QED BY <1>6, <1>7, <2>4
<1> QED BY <1>3, <1>7, <1>8, <1>9 DEF Applies, bound, V

\* An operation of ops before k that takes the block of k away.
DeletedBefore(ops, k) == \E j \in 1..(k - 1) : ops[j].op = "delete" /\ ops[j].id = ops[k].id

\* What is left out had no block to be about, or it was deleted on the way; and
\* unless everything is left out, other blocks are shown than before.
LEMMA ApplyIs ==
    ASSUME NEW p \in Offers, NEW r \in Replicas, NEW ops \in Seq(Op), reloads \in Nat,
           NEW text \in Seq(Block), IsInjective(text), Range(text) \cap MadeBy(p, r) = {}
    PROVE  LET done == Apply(p, r, ops, text)
           IN  /\ done \in Applying
               /\ Range(done.text) \subseteq Range(text) \cup MadeBy(p, r)
               /\ done.skipped \subseteq 1..Len(ops)
               /\ \A k \in done.skipped :
                    DeletedBefore(ops, k) \/ \A x \in Range(text) : x.id # ops[k].id
               /\ done.skipped # 1..Len(ops) => Range(done.text) # Range(text)
<1> DEFINE bound == Len(ops)
           Mine == MadeBy(p, r)
           HasHeir(k, s) == \A x \in Range(text) :
                 \/ \E y \in Range(s.text) : y.id = x.id
                 \/ \E j \in 1..k : ops[j].op = "delete" /\ ops[j].id = x.id
           Left(s) == \A k \in s.skipped :
                 DeletedBefore(ops, k) \/ \A x \in Range(text) : x.id # ops[k].id
           Other(s) == \/ \E x \in Range(text) : x \notin Range(s.text)
                       \/ \E x \in Range(s.text) : x \in Mine /\ x.id \notin Blocks
           Good(k, s) ==
                 /\ s \in Applying
                 /\ Range(s.text) \subseteq Range(text) \cup Mine
                 /\ s.skipped \subseteq 1..k
                 /\ HasHeir(k, s) /\ Left(s)
                 /\ (s.skipped = 1..k /\ s.text = text) \/ Other(s)
<1>1. bound \in Nat /\ \A k \in 1..bound : ops[k] \in Op
  OBVIOUS
<1>2. PICK f : Applies(f, p, r, ops, text)
  BY ApplyWalks
<1> HIDE DEF bound, Mine
<1>3. Good(0, f[0])
  <2> DEFINE s == Untouched(text)
  <2>1. s \in Applying /\ s.text = text /\ s.skipped = {}
    BY DEF Untouched, Applying
  <2>2. 1..0 = {}
    OBVIOUS
  <2> HIDE DEF s
  <2>3. Good(0, s)
    BY <2>1, <2>2
  <2> HIDE DEF Good
  <2> QED BY <1>2, <2>3 DEF Applies, s
<1>4. ASSUME NEW k \in 0..bound, k < bound, Good(k, f[k]) PROVE Good(k + 1, f[k + 1])
  <2> DEFINE s == f[k]
             n == f[k + 1]
             op == ops[k + 1]
  <2>1. k + 1 \in 1..bound /\ k \in Nat /\ op \in Op
    BY <1>1, <1>4
  <2>2. n = Step(p, r, ops, s, k + 1)
    BY <1>2, <1>4 DEF Applies, bound
  <2>3. Stepped(p, r, op, k + 1, s, n)
    <3>1. s \in Applying /\ k + 1 \in 1..Len(ops)
      BY <1>4, <2>1 DEF bound
    <3> QED BY <2>2, <3>1, StepIs
  <2> HIDE DEF s, n, op
  <2>4. /\ s \in Applying /\ Range(s.text) \subseteq Range(text) \cup Mine
        /\ s.skipped \subseteq 1..k /\ HasHeir(k, s) /\ Left(s)
    BY <1>4 DEF s
  <2>5. (s.skipped = 1..k /\ s.text = text) \/ Other(s)
    BY <1>4 DEF s
  <2>6. n \in Applying /\ Range(n.text) \subseteq Range(text) \cup Mine
    BY <2>3, <2>4 DEF Stepped, Mine
  <2>7. 1..(k + 1) = 1..k \cup {k + 1} /\ k + 1 \notin 1..k /\ (k + 1) - 1 = k
    BY <2>1
  <2>8. /\ \A x \in Range(s.text) : x.id # op.id => x \in Range(n.text)
        /\ Range(n.text) \subseteq Range(s.text) \cup Mine
    BY <2>3 DEF Stepped, Mine
  <2>9. op.id \in Blocks
    BY <2>1 DEF Op
  <2>10. CASE /\ n.text = s.text /\ n.skipped = s.skipped \cup {k + 1}
              /\ \A x \in Range(s.text) : x.id # op.id
    <3>1. n.skipped \subseteq 1..(k + 1)
      BY <2>4, <2>7, <2>10
    <3>2. HasHeir(k + 1, n)
      BY <2>4, <2>7, <2>10
    <3>3. DeletedBefore(ops, k + 1) \/ \A x \in Range(text) : x.id # ops[k + 1].id
      <4> SUFFICES ASSUME NEW x \in Range(text), x.id = op.id PROVE DeletedBefore(ops, k + 1)
        BY DEF op
      <4>1. PICK j \in 1..k : ops[j].op = "delete" /\ ops[j].id = x.id
        BY <2>4, <2>10
      <4> QED BY <2>7, <4>1 DEF DeletedBefore, op
    <3>4. Left(n)
      BY <2>4, <2>10, <3>3
    <3>5. (n.skipped = 1..(k + 1) /\ n.text = text) \/ Other(n)
      BY <2>5, <2>7, <2>10
    <3> QED BY <2>6, <3>1, <3>2, <3>4, <3>5 DEF n
  <2>11. CASE /\ n.skipped = s.skipped
              /\ op.op # "delete" => \E x \in Range(n.text) : x.id = op.id
              /\ \/ \E x \in Range(n.text) : x \in Mine /\ x.id \notin Blocks
                 \/ /\ op.op # "insert_after"
                    /\ IsInjective(s.text) =>
                          \E x \in Range(s.text) : x \in Range(n.text) => x \in Mine
    <3>1. n.skipped \subseteq 1..(k + 1) /\ Left(n)
      BY <2>4, <2>7, <2>11
    <3>2. HasHeir(k + 1, n)
      <4> SUFFICES ASSUME NEW x \in Range(text)
                   PROVE  \/ \E y \in Range(n.text) : y.id = x.id
                          \/ \E j \in 1..(k + 1) : ops[j].op = "delete" /\ ops[j].id = x.id
        OBVIOUS
      <4>1. CASE \E j \in 1..k : ops[j].op = "delete" /\ ops[j].id = x.id
        BY <2>7, <4>1
      <4>2. CASE \E y \in Range(s.text) : y.id = x.id
        <5>1. PICK y \in Range(s.text) : y.id = x.id
          BY <4>2
        <5>2. CASE y.id # op.id
          BY <2>8, <5>1, <5>2
        <5>3. CASE y.id = op.id /\ op.op # "delete"
          BY <2>11, <5>1, <5>3
        <5>4. CASE y.id = op.id /\ op.op = "delete"
          BY <2>7, <5>1, <5>4 DEF op
        <5> QED BY <5>2, <5>3, <5>4
      <4> QED BY <2>4, <4>1, <4>2
    <3>3. Other(n)
      <4>1. CASE \E x \in Range(n.text) : x \in Mine /\ x.id \notin Blocks
        BY <4>1
      <4>2. CASE Other(s)
        <5>1. CASE \E x \in Range(text) : x \notin Range(s.text)
          <6>1. PICK x \in Range(text) : x \notin Range(s.text)
            BY <5>1
          <6>2. x \notin Mine
            BY DEF Mine
          <6> QED BY <2>8, <6>1, <6>2
        <5>2. CASE \E x \in Range(s.text) : x \in Mine /\ x.id \notin Blocks
          BY <2>8, <2>9, <5>2
        <5> QED BY <4>2, <5>1, <5>2
      <4>3. CASE s.text = text /\ IsInjective(s.text) =>
                   \E x \in Range(s.text) : x \in Range(n.text) => x \in Mine
        <5>1. CASE s.text = text
          <6>1. PICK x \in Range(text) : x \in Range(n.text) => x \in Mine
            BY <4>3, <5>1
          <6>2. x \notin Mine
            BY DEF Mine
          <6> QED BY <6>1, <6>2
        <5>2. CASE s.text # text
          BY <2>5, <4>2, <5>2
        <5> QED BY <5>1, <5>2
      <4> QED BY <2>11, <4>1, <4>3
    <3> QED BY <2>6, <3>1, <3>2, <3>3 DEF n
  <2> QED BY <2>3, <2>10, <2>11 DEF Stepped, Mine
<1> HIDE DEF Good
<1>5. Good(bound, f[bound])
  <2> DEFINE U == {k \in 0..bound : Good(k, f[k])}
  <2>1. 0 \in U
    BY <1>1, <1>3
  <2>2. ASSUME NEW k \in 0..bound, k \in U, k < bound PROVE k + 1 \in U
    BY <1>1, <1>4, <2>2
  <2> HIDE DEF U
  <2>3. \A k \in 0..bound : k \in U
    BY <1>1, <2>1, <2>2, StepByStep
  <2> QED BY <1>1, <2>3 DEF U
<1> DEFINE done == Apply(p, r, ops, text)
<1>6. Good(bound, done)
  BY <1>2, <1>5 DEF Applies, bound
<1> HIDE DEF done
<1>7. /\ done \in Applying /\ Range(done.text) \subseteq Range(text) \cup Mine
      /\ done.skipped \subseteq 1..bound /\ Left(done)
      /\ done.skipped = 1..bound \/ Other(done)
  BY <1>6 DEF Good
<1>8. Other(done) => Range(done.text) # Range(text)
  BY DEF Mine
<1> QED BY <1>7, <1>8 DEF done, bound, Mine

-----------------------------------------------------------------------------
(* Accepting.                                                              *)

\* The text of a replica is part of the common order.
LEMMA TextIs ==
    ASSUME NEW facts, order \in Seq(Block)
    PROVE  /\ TextIn(facts, order) \in Seq(Block)
           /\ Range(TextIn(facts, order)) = Range(order) \cap (There(facts) \ Gone(facts))
           /\ IsInjective(order) => IsInjective(TextIn(facts, order))
BY OnlyIs DEF TextIn

\* More facts show and take away more blocks.
LEMMA FactsGrow ==
    ASSUME NEW few, NEW many, few \subseteq many
    PROVE  /\ \A kind : Facts(few, kind) \subseteq Facts(many, kind)
           /\ \A p : OfferIn(few, p) \subseteq OfferIn(many, p)
           /\ There(few) \subseteq There(many)
           /\ \A x \in There(few) \ Gone(few) : x \notin There(many) \ Gone(many) =>
                \E c \in Facts(many, "change") \ few : x \in c.removed
<1>1. /\ \A kind : Facts(few, kind) \subseteq Facts(many, kind)
      /\ \A p : OfferIn(few, p) \subseteq OfferIn(many, p)
  BY DEF Facts, OfferIn
<1>2. There(few) \subseteq There(many)
  <2>1. Facts(few, "change") \subseteq Facts(many, "change")
    BY <1>1
  <2> QED BY <2>1 DEF There
<1>3. ASSUME NEW x \in There(few) \ Gone(few), x \notin There(many) \ Gone(many)
      PROVE  \E c \in Facts(many, "change") \ few : x \in c.removed
  <2>1. PICK c \in Facts(many, "change") : x \in c.removed
    BY <1>2, <1>3 DEF Gone
  <2>2. c \notin few
    BY <2>1 DEF Gone, Facts
  <2> QED BY <2>1, <2>2
<1> QED BY <1>1, <1>2, <1>3

\* The operations a replica applies are those of the offer it knows.
LEMMA OfferIs ==
    ASSUME ProposalsInv, NEW r \in Replicas, NEW p \in Offers, OfferIn(knows[r], p) # {}
    PROVE  \E o \in OfferIn(knows[r], p) :
              /\ OpsIn(knows[r], p) = o.ops /\ o.ops \in Seq(Op)
              /\ o.seen \subseteq knows[r] /\ Rooted(o)
<1> DEFINE o == CHOOSE f \in OfferIn(knows[r], p) : TRUE
<1>1. o \in OfferIn(knows[r], p) /\ OpsIn(knows[r], p) = o.ops
  BY DEF OpsIn
<1> HIDE DEF o
<1>2. o \in Facts(knows[r], "offer") /\ o \in Fact /\ o.is = "offer"
  BY <1>1 DEF OfferIn, Facts, ProposalsInv, PropTypeOK
<1>3. o.seen \subseteq knows[r] /\ Rooted(o)
  BY <1>2 DEF ProposalsInv, OffersAreRooted
<1>4. o \in OfferFact
  BY <1>2 DEF Fact, ChangeFact, DecisionFact
<1> QED BY <1>1, <1>3, <1>4 DEF OfferFact

\* An acceptance that counts: what it drops is explained by what is known, it
\* changes the text, and the order takes in blocks of its own making.
Counts(acc, r, p) ==
    /\ acc.decision \in DecisionFact /\ acc.decision.about = p /\ acc.decision.by = r
    /\ acc.decision.life = reloads /\ acc.decision.is = "decision"
    /\ \E o \in OfferIn(knows[r], p) : \A k \in acc.decision.dropped : Explained(o, k, knows[r])
    /\ acc.change \in ChangeFact /\ acc.change.is = "change" /\ acc.change.about = p
    /\ acc.change.by = r /\ acc.change.life = reloads
    /\ acc.change.added # {} \/ acc.change.removed # {}
    /\ acc.order \in Seq(Block) /\ IsInjective(acc.order)
    /\ Range(order) \subseteq Range(acc.order)
    /\ Range(acc.order) \subseteq Range(order) \cup MadeBy(p, r)

LEMMA AcceptedIs ==
    ASSUME ProposalsInv, NEW r \in Replicas, NEW p \in Offers,
           Pending(knows[r], p), Accepted(r, p).valid
    PROVE  Counts(Accepted(r, p), r, p)
<1> DEFINE ops == OpsIn(knows[r], p)
           text == TextIn(knows[r], order)
           done == Apply(p, r, ops, text)
           acc == Accepted(r, p)
<1>1. /\ acc.valid = (Buildable(r, ops) /\ Acceptance(ops, done))
      /\ acc.order = Woven(order, done.text)
      /\ acc.decision = Decided(p, r, "accepted", done.skipped)
      /\ acc.change = Change(p, r, ToSet(done.text) \ ToSet(text), ToSet(text) \ ToSet(done.text))
  BY DEF Accepted
<1>2. PICK o \in OfferIn(knows[r], p) :
         ops = o.ops /\ o.ops \in Seq(Op) /\ o.seen \subseteq knows[r] /\ Rooted(o)
  BY OfferIs DEF Pending
<1>3. order \in Seq(Block) /\ IsInjective(order) /\ reloads \in Nat
  BY DEF ProposalsInv, PropTypeOK, OrderIsOne
<1>4. /\ text \in Seq(Block) /\ IsInjective(text)
      /\ Range(text) = Range(order) \cap (There(knows[r]) \ Gone(knows[r]))
  BY <1>3, TextIs
<1>5. Range(text) \cap MadeBy(p, r) = {}
  <2> SUFFICES ASSUME NEW x \in Range(order), x \in MadeBy(p, r) PROVE FALSE
    BY <1>4
  <2>1. PICK k \in Nat, i \in Nat : x.of = <<p, r, reloads, k, i>>
    BY DEF MadeBy
  <2>2. x.of \in Identity /\ x.of[1] = p /\ x.of[2] = r /\ x.of[3] = reloads
    BY <1>3, <2>1 DEF Identity, Life
  <2>3. DecisionsIn(knows[r], p) # {}
    BY <1>3, <2>2 DEF ProposalsInv, MintedOnce
  <2> QED BY <2>3 DEF Pending
<1> HIDE DEF ops, text, done, acc
<1>6. /\ done \in Applying
      /\ Range(done.text) \subseteq Range(text) \cup MadeBy(p, r)
      /\ done.skipped \subseteq 1..Len(ops)
      /\ \A k \in done.skipped : DeletedBefore(ops, k) \/ \A x \in Range(text) : x.id # ops[k].id
      /\ done.skipped # 1..Len(ops) => Range(done.text) # Range(text)
  <2>1. ops \in Seq(Op)
    BY <1>2
  <2>2. done = Apply(p, r, ops, text)
    BY DEF done
  <2> QED BY <1>3, <1>4, <1>5, <2>1, <2>2, ApplyIs
<1>7. done.text \in Seq(Block) /\ done.skipped \in SUBSET Nat
  BY <1>6 DEF Applying
<1>8. ToSet(done.text) = Range(done.text) /\ ToSet(text) = Range(text)
      /\ Range(done.text) \subseteq Block /\ Range(text) \subseteq Block
  BY <1>4, <1>7, RangeIs
<1>9. DOMAIN ops = 1..Len(ops)
  BY <1>2
<1>10. Range(done.text) # Range(text)
  BY <1>1, <1>6, <1>9 DEF Acceptance, acc
<1>11. /\ acc.decision \in DecisionFact /\ acc.decision.about = p /\ acc.decision.by = r
       /\ acc.decision.life = reloads /\ acc.decision.dropped = done.skipped
       /\ acc.decision.is = "decision"
  BY <1>1, <1>3, <1>7 DEF Decided, DecisionFact, Life
<1>12. /\ acc.change \in ChangeFact /\ acc.change.about = p /\ acc.change.is = "change"
       /\ acc.change.by = r /\ acc.change.life = reloads
       /\ acc.change.added = Range(done.text) \ Range(text)
       /\ acc.change.removed = Range(text) \ Range(done.text)
  BY <1>1, <1>3, <1>8 DEF Change, ChangeFact, Life
<1>13. acc.change.added # {} \/ acc.change.removed # {}
  BY <1>10, <1>12
<1>14. /\ acc.order \in Seq(Block) /\ IsInjective(acc.order)
       /\ Range(acc.order) = Range(order) \cup Range(done.text)
  BY <1>1, <1>3, <1>7, WovenIs
<1>15. Range(order) \subseteq Range(acc.order) /\ Range(acc.order) \subseteq Range(order) \cup MadeBy(p, r)
  BY <1>4, <1>6, <1>14
<1>16. ASSUME NEW k \in done.skipped PROVE Explained(o, k, knows[r])
  <2>1. CASE DeletedBefore(ops, k)
    BY <1>2, <2>1 DEF DeletedBefore, Explained
  <2>2. CASE \A x \in Range(text) : x.id # ops[k].id
    <3>1. k \in DOMAIN o.ops
      BY <1>2, <1>6, <1>9
    <3>2. PICK x \in Range(order) : x.id = o.ops[k].id /\ x \in There(o.seen) \ Gone(o.seen)
      BY <1>2, <3>1 DEF Rooted
    <3>3. x \notin There(knows[r]) \ Gone(knows[r])
      BY <1>2, <1>4, <2>2, <3>2
    <3>4. o.seen \subseteq knows[r]
      BY <1>2
    <3>5. \A y \in There(o.seen) \ Gone(o.seen) : y \notin There(knows[r]) \ Gone(knows[r]) =>
             \E c \in Facts(knows[r], "change") \ o.seen : y \in c.removed
      BY <3>4, FactsGrow
    <3>6. PICK c \in Facts(knows[r], "change") \ o.seen : x \in c.removed
      BY <3>2, <3>3, <3>5
    <3> QED BY <3>2, <3>6 DEF Explained
  <2> QED BY <1>6, <2>1, <2>2
<1>17. \E f \in OfferIn(knows[r], p) : \A k \in acc.decision.dropped : Explained(f, k, knows[r])
  BY <1>11, <1>16
<1> QED BY <1>11, <1>12, <1>13, <1>14, <1>15, <1>17 DEF Counts, acc

-----------------------------------------------------------------------------
(* What a step keeps.                                                      *)

\* Facts that explain their decisions go on doing so together, and with more
\* facts that are no decisions.
LEMMA AccountsJoin ==
    ASSUME NEW some, NEW others, AccountsFor(some), AccountsFor(others)
    PROVE  AccountsFor(some \cup others)
<1> DEFINE all == some \cup others
<1>1. /\ Facts(all, "decision") = Facts(some, "decision") \cup Facts(others, "decision")
      /\ \A p : OfferIn(some, p) \subseteq OfferIn(all, p) /\ OfferIn(others, p) \subseteq OfferIn(all, p)
  BY DEF Facts, OfferIn
<1>2. /\ Facts(some, "change") \subseteq Facts(all, "change")
      /\ Facts(others, "change") \subseteq Facts(all, "change")
  BY DEF Facts
<1>3. \A o, k : Explained(o, k, some) \/ Explained(o, k, others) => Explained(o, k, all)
  BY <1>2 DEF Explained
<1> HIDE DEF all
<1>4. \A d \in Facts(some, "decision") : \E o \in OfferIn(all, d.about) :
         \A k \in d.dropped : Explained(o, k, all)
  BY <1>1, <1>3 DEF AccountsFor
<1>5. \A d \in Facts(others, "decision") : \E o \in OfferIn(all, d.about) :
         \A k \in d.dropped : Explained(o, k, all)
  BY <1>1, <1>3 DEF AccountsFor
<1>6. AccountsFor(all)
  BY <1>1, <1>4, <1>5 DEF AccountsFor
<1> QED BY <1>6 DEF all

LEMMA AccountsAdd ==
    ASSUME NEW some, NEW others, AccountsFor(some),
           \A d \in Facts(others, "decision") : \E o \in OfferIn(some, d.about) :
              \A k \in d.dropped : Explained(o, k, some)
    PROVE  AccountsFor(some \cup others)
<1> DEFINE all == some \cup others
<1>1. /\ Facts(all, "decision") = Facts(some, "decision") \cup Facts(others, "decision")
      /\ \A p : OfferIn(some, p) \subseteq OfferIn(all, p)
  BY DEF Facts, OfferIn
<1>2. Facts(some, "change") \subseteq Facts(all, "change")
  BY DEF Facts
<1>3. \A o, k : Explained(o, k, some) => Explained(o, k, all)
  BY <1>2 DEF Explained
<1> HIDE DEF all
<1>4. \A d \in Facts(some, "decision") : \E o \in OfferIn(all, d.about) :
         \A k \in d.dropped : Explained(o, k, all)
  BY <1>1, <1>3 DEF AccountsFor
<1>5. \A d \in Facts(others, "decision") : \E o \in OfferIn(all, d.about) :
         \A k \in d.dropped : Explained(o, k, all)
  BY <1>1, <1>3
<1>6. AccountsFor(all)
  BY <1>1, <1>4, <1>5 DEF AccountsFor
<1> QED BY <1>6 DEF all

\* The common order takes in blocks that were made just now.
OrderGrows(r, p) ==
    /\ order' \in Seq(Block) /\ IsInjective(order')
    /\ Range(order) \subseteq Range(order')
    /\ Range(order') \subseteq Range(order) \cup MadeBy(p, r)

LEMMA RootsStay ==
    ASSUME Range(order) \subseteq Range(order')
    PROVE  \A o : Rooted(o) => Rooted(o)'
BY DEF Rooted, There, Gone, Facts, Block0

\* Nothing that is known is forgotten, but by a page that is opened again.
LEMMA MintsStay ==
    ASSUME ProposalsInv, reloads' = reloads, NEW new \in SUBSET Block,
           Range(order') \subseteq Range(order) \cup new,
           \A r \in Replicas : knows[r] \subseteq knows'[r],
           \A x \in new : x.of \in Identity =>
              x.of[3] = reloads /\ DecisionsIn(knows'[x.of[2]], x.of[1]) # {}
    PROVE  MintedOnce'
<1> SUFFICES ASSUME NEW x \in Range(order'), x.of \in Identity
             PROVE  \/ x.of[3] < reloads
                    \/ x.of[3] = reloads /\ DecisionsIn(knows'[x.of[2]], x.of[1]) # {}
  BY DEF MintedOnce
<1>1. CASE x \in new
  BY <1>1
<1>2. CASE x \in Range(order)
  <2>1. x.of[2] \in Replicas
    BY DEF Identity
  <2>2. DecisionsIn(knows[x.of[2]], x.of[1]) \subseteq DecisionsIn(knows'[x.of[2]], x.of[1])
    BY <2>1 DEF DecisionsIn, Facts
  <2> QED BY <1>2, <2>2 DEF ProposalsInv, MintedOnce
<1> QED BY <1>1, <1>2

\* An acceptance that has landed stays so as long as nothing that is out is lost
\* sight of.
LEMMA LandedStays ==
    ASSUME ProposalsInv,
           NEW before, before = knows[Server] \cup lost \cup UNION {ToSet(sent[g]) : g \in Pages},
           before \subseteq (knows[Server] \cup lost \cup UNION {ToSet(sent[g]) : g \in Pages})',
           \A r \in Replicas : \A f \in Facts(knows'[r], "decision") : f.status = "accepted" =>
              (\E q \in Replicas : f \in knows[q]) \/ Landed(f)'
    PROVE  AcceptedLanded'
<1>1. \A f : Landed(f) => Landed(f)'
  BY DEF Landed
<1>2. \A q \in Replicas : \A f \in knows[q] : f.is = "decision" /\ f.status = "accepted" => Landed(f)
  BY DEF ProposalsInv, AcceptedLanded, Facts
<1>3. \A r : \A f \in Facts(knows'[r], "decision") : f.is = "decision"
  BY DEF Facts
<1> QED BY <1>1, <1>2, <1>3 DEF AcceptedLanded

\* Offers that are the first about what they are about.
FirstOffers(new) ==
    /\ \A o \in Facts(new, "offer") :
          o.seen \subseteq knows[Server] /\ Rooted(o) /\ OfferIn(knows[Server], o.about) = {}
    /\ \A o1, o2 \in Facts(new, "offer") : o1 = o2

\* The server writes, or hears.
LEMMA ServerLearns ==
    ASSUME ProposalsInv, NEW new \in SUBSET Fact,
           knows' = [knows EXCEPT ![Server] = @ \cup new], sent' = sent,
           Range(order) \subseteq Range(order'),
           FirstOffers(new), AccountsFor(knows[Server] \cup new)
    PROVE  OffersAreRooted' /\ PagesSendAll' /\ AllAreExplained'
<1>1. knows \in [Replicas -> SUBSET Fact] /\ Server \in Replicas /\ Server \notin Pages
      /\ Pages \subseteq Replicas
  BY ProposalsAssumption DEF ProposalsInv, PropTypeOK, ProposalsAssumption, Replicas
<1>2. /\ knows'[Server] = knows[Server] \cup new
      /\ \A r \in Replicas : r # Server => knows'[r] = knows[r]
  BY <1>1
<1>3. OffersAreRooted'
  <2>1. \A o : Rooted(o) => Rooted(o)'
    BY RootsStay
  <2>2. ASSUME NEW r \in Replicas, NEW o \in Facts(knows'[r], "offer")
        PROVE  o \in knows'[Server] /\ o.seen \subseteq knows'[r] /\ Rooted(o)'
    <3>1. CASE o \in knows[r]
      <4>1. o \in Facts(knows[r], "offer")
        BY <2>2, <3>1 DEF Facts
      <4>2. o \in knows[Server] /\ o.seen \subseteq knows[r] /\ Rooted(o)
        BY <4>1 DEF ProposalsInv, OffersAreRooted
      <4> QED BY <1>2, <2>1, <4>2
    <3>2. CASE o \notin knows[r]
      <4>1. r = Server /\ o \in Facts(new, "offer")
        BY <1>2, <2>2, <3>2 DEF Facts
      <4> QED BY <1>2, <2>1, <2>2, <4>1 DEF FirstOffers, Facts
    <3> QED BY <3>1, <3>2
  <2>3. ASSUME NEW p \in Offers, NEW o1 \in OfferIn(knows'[Server], p),
               NEW o2 \in OfferIn(knows'[Server], p)
        PROVE  o1 = o2
    <3>1. \A o \in OfferIn(knows'[Server], p) :
             o.about = p /\ (o \in OfferIn(knows[Server], p) \/ o \in Facts(new, "offer"))
      BY <1>2 DEF OfferIn, Facts
    <3>2. \A o \in OfferIn(knows[Server], p) : \A f \in OfferIn(knows[Server], p) : o = f
      BY DEF ProposalsInv, OffersAreRooted
    <3>3. \A o \in Facts(new, "offer") : OfferIn(knows[Server], o.about) = {}
      BY DEF FirstOffers
    <3>4. \A f1, f2 \in Facts(new, "offer") : f1 = f2
      BY DEF FirstOffers
    <3> QED BY <2>3, <3>1, <3>2, <3>3, <3>4
  <2> QED BY <2>2, <2>3 DEF OffersAreRooted
<1>4. \A g \in Pages : \A n : Arrived(g, n)' = Arrived(g, n) \cup (knows[Server] \cup new)
  BY <1>2 DEF Arrived
<1>5. PagesSendAll'
  <2>1. ASSUME NEW g \in Pages
        PROVE  /\ \A i \in 1..Len(sent'[g]) : sent'[g][i] \in knows'[g] /\ sent'[g][i].is # "offer"
               /\ knows'[g] \subseteq Arrived(g, Len(sent[g]))'
    <3>1. knows'[g] = knows[g] /\ sent'[g] = sent[g]
      BY <1>1, <1>2
    <3> QED BY <1>4, <3>1 DEF ProposalsInv, PagesSendAll
  <2> QED BY <2>1 DEF PagesSendAll
<1>6. AllAreExplained'
  <2>1. ASSUME NEW r \in Replicas PROVE AccountsFor(knows'[r])
    BY <1>2 DEF ProposalsInv, AllAreExplained
  <2>2. ASSUME NEW g \in Pages, NEW n \in 0..Len(sent[g]) PROVE AccountsFor(Arrived(g, n)')
    <3>1. AccountsFor(Arrived(g, n))
      BY DEF ProposalsInv, AllAreExplained
    <3>2. AccountsFor(Arrived(g, n) \cup (knows[Server] \cup new))
      BY <3>1, AccountsJoin
    <3> QED BY <1>4, <3>2
  <2> QED BY <2>1, <2>2 DEF AllAreExplained, AccountsFor, Facts, OfferIn, Explained
<1> QED BY <1>3, <1>5, <1>6

\* What a page writes explains its decisions, write by write.
Explaining(g, new) == \A m \in 0..Len(new) : AccountsFor(knows[g] \cup {new[i] : i \in 1..m})

\* A page writes, and has it to send.
LEMMA PageWrites ==
    ASSUME ProposalsInv, NEW g \in Pages, NEW new \in Seq(ChangeFact \cup DecisionFact),
           knows' = [knows EXCEPT ![g] = @ \cup Range(new)],
           sent' = [sent EXCEPT ![g] = @ \o new],
           Range(order) \subseteq Range(order'), Explaining(g, new)
    PROVE  OffersAreRooted' /\ PagesSendAll' /\ AllAreExplained'
<1>1. /\ knows \in [Replicas -> SUBSET Fact] /\ sent \in [Pages -> Seq(Fact)]
      /\ Server \in Replicas /\ Server \notin Pages /\ Pages \subseteq Replicas
  BY ProposalsAssumption DEF ProposalsInv, PropTypeOK, ProposalsAssumption, Replicas
<1>2. /\ knows'[g] = knows[g] \cup Range(new)
      /\ \A r \in Replicas : r # g => knows'[r] = knows[r]
      /\ knows'[Server] = knows[Server]
  BY <1>1
<1>3. sent'[g] = sent[g] \o new /\ \A h \in Pages : h # g => sent'[h] = sent[h]
  BY <1>1
<1>4. /\ Len(new) \in Nat /\ Len(sent[g]) \in Nat
      /\ Range(new) \subseteq ChangeFact \cup DecisionFact
      /\ Range(new) = {new[i] : i \in 1..Len(new)}
  BY <1>1, RangeIs
<1>5. \A f \in ChangeFact \cup DecisionFact : f.is # "offer"
  BY DEF ChangeFact, DecisionFact
<1>6. /\ Len(sent'[g]) = Len(sent[g]) + Len(new)
      /\ \A i \in 1..(Len(sent[g]) + Len(new)) :
           sent'[g][i] = IF i <= Len(sent[g]) THEN sent[g][i] ELSE new[i - Len(sent[g])]
  <2>1. sent[g] \in Seq(Fact) /\ new \in Seq(Fact)
    BY <1>1, SeqMonotonic DEF Fact
  <2> QED BY <1>3, <2>1, ConcatProperties
<1>7. OffersAreRooted'
  <2>1. \A o : Rooted(o) => Rooted(o)'
    BY RootsStay
  <2>2. ASSUME NEW r \in Replicas, NEW o \in Facts(knows'[r], "offer")
        PROVE  o \in knows'[Server] /\ o.seen \subseteq knows'[r] /\ Rooted(o)'
    <3>1. o \in Facts(knows[r], "offer")
      BY <1>2, <1>4, <1>5, <2>2 DEF Facts
    <3>2. o \in knows[Server] /\ o.seen \subseteq knows[r] /\ Rooted(o)
      BY <3>1 DEF ProposalsInv, OffersAreRooted
    <3>3. knows[r] \subseteq knows'[r]
      BY <1>2
    <3> QED BY <1>2, <2>1, <3>2, <3>3
  <2>3. \A p \in Offers : \A o1, o2 \in OfferIn(knows'[Server], p) : o1 = o2
    BY <1>2 DEF ProposalsInv, OffersAreRooted
  <2> QED BY <2>2, <2>3 DEF OffersAreRooted
<1>8. \A h \in Pages : h # g => \A n : Arrived(h, n)' = Arrived(h, n)
  BY <1>2, <1>3 DEF Arrived
<1>9. \A n \in 0..Len(sent[g]) : Arrived(g, n)' = Arrived(g, n)
  <2> SUFFICES ASSUME NEW n \in 0..Len(sent[g]) PROVE Arrived(g, n)' = Arrived(g, n)
    OBVIOUS
  <2>1. \A i \in 1..n : sent'[g][i] = sent[g][i]
    BY <1>4, <1>6
  <2>2. {sent'[g][i] : i \in 1..n} = {sent[g][i] : i \in 1..n}
    BY <2>1
  <2> QED BY <1>2, <2>2 DEF Arrived
<1>10. \A m \in 0..Len(new) : \A n : n = Len(sent[g]) + m =>
          Arrived(g, n)' = Arrived(g, Len(sent[g])) \cup {new[i] : i \in 1..m}
  <2> SUFFICES ASSUME NEW m \in 0..Len(new)
               PROVE  \A n : n = Len(sent[g]) + m =>
                  Arrived(g, n)' = Arrived(g, Len(sent[g])) \cup {new[i] : i \in 1..m}
    OBVIOUS
  <2> DEFINE len == Len(sent[g])
  <2>1. \A i \in 1..len : i \in 1..(len + m) /\ sent'[g][i] = sent[g][i]
    BY <1>4, <1>6
  <2>2. \A i \in 1..m : len + i \in 1..(len + m) /\ sent'[g][len + i] = new[i]
    BY <1>4, <1>6
  <2>3. \A i \in 1..(len + m) : i \in 1..len \/ (i - len \in 1..m /\ i = len + (i - len))
    BY <1>4
  <2> HIDE DEF len
  <2>4. {sent'[g][i] : i \in 1..(len + m)} = {sent[g][i] : i \in 1..len} \cup {new[i] : i \in 1..m}
    <3>1. ASSUME NEW i \in 1..(len + m)
          PROVE  sent'[g][i] \in {sent[g][j] : j \in 1..len} \cup {new[j] : j \in 1..m}
      <4>1. CASE i \in 1..len
        BY <2>1, <4>1
      <4>2. CASE i - len \in 1..m /\ i = len + (i - len)
        <5>1. PICK j \in 1..m : i = len + j
          BY <4>2
        <5>2. sent'[g][i] = new[j]
          BY <2>2, <5>1
        <5> QED BY <5>2
      <4> QED BY <2>3, <4>1, <4>2
    <3>2. \A i \in 1..len : sent[g][i] \in {sent'[g][j] : j \in 1..(len + m)}
      BY <2>1
    <3>3. \A i \in 1..m : new[i] \in {sent'[g][j] : j \in 1..(len + m)}
      BY <2>2
    <3> QED BY <3>1, <3>2, <3>3
  <2> QED BY <1>2, <2>4 DEF Arrived, len
<1>11. \A n \in 0..(Len(sent[g]) + Len(new)) :
          \/ n \in 0..Len(sent[g])
          \/ n - Len(sent[g]) \in 0..Len(new) /\ n = Len(sent[g]) + (n - Len(sent[g]))
  BY <1>4
<1>12. PagesSendAll'
  <2>1. ASSUME NEW h \in Pages, h # g
        PROVE  /\ \A i \in 1..Len(sent'[h]) : sent'[h][i] \in knows'[h] /\ sent'[h][i].is # "offer"
               /\ knows'[h] \subseteq Arrived(h, Len(sent[h]))'
    <3>1. knows'[h] = knows[h] /\ sent'[h] = sent[h]
      BY <1>1, <1>2, <1>3, <2>1
    <3> QED BY <1>8, <2>1, <3>1 DEF ProposalsInv, PagesSendAll
  <2>2. ASSUME NEW i \in 1..Len(sent'[g])
        PROVE  sent'[g][i] \in knows'[g] /\ sent'[g][i].is # "offer"
    <3>1. CASE i <= Len(sent[g])
      <4>1. i \in 1..Len(sent[g]) /\ sent'[g][i] = sent[g][i]
        BY <1>4, <1>6, <2>2, <3>1
      <4> QED BY <1>2, <4>1 DEF ProposalsInv, PagesSendAll
    <3>2. CASE ~(i <= Len(sent[g]))
      <4>1. i - Len(sent[g]) \in 1..Len(new) /\ sent'[g][i] = new[i - Len(sent[g])]
        BY <1>4, <1>6, <2>2, <3>2
      <4>2. sent'[g][i] \in Range(new)
        BY <1>4, <4>1
      <4> QED BY <1>2, <1>4, <1>5, <4>2
    <3> QED BY <3>1, <3>2
  <2>3. knows'[g] \subseteq Arrived(g, Len(sent[g]))'
    <3>1. Len(new) \in 0..Len(new)
      BY <1>4
    <3>2. \A n : n = Len(sent[g]) + Len(new) =>
             Arrived(g, n)' = Arrived(g, Len(sent[g])) \cup Range(new)
      BY <1>4, <1>10, <3>1
    <3>3. \A n : n = Len(sent'[g]) =>
             knows'[Server] \cup {sent'[g][i] : i \in 1..n} = Arrived(g, Len(sent[g])) \cup Range(new)
      BY <1>6, <3>2 DEF Arrived
    <3>4. knows[g] \subseteq Arrived(g, Len(sent[g]))
      BY DEF ProposalsInv, PagesSendAll
    <3>5. knows'[g] \subseteq knows'[Server] \cup {sent'[g][i] : i \in 1..Len(sent'[g])}
      BY <1>2, <3>3, <3>4
    <3> QED BY <3>5 DEF Arrived
  <2> QED BY <2>1, <2>2, <2>3 DEF PagesSendAll
<1>13. AllAreExplained'
  <2>1. ASSUME NEW r \in Replicas PROVE AccountsFor(knows'[r])
    <3>1. Len(new) \in 0..Len(new)
      BY <1>4
    <3>2. AccountsFor(knows[g] \cup Range(new))
      BY <1>4, <3>1 DEF Explaining
    <3> QED BY <1>2, <3>2 DEF ProposalsInv, AllAreExplained
  <2>2. ASSUME NEW h \in Pages, NEW n \in 0..Len(sent'[h]) PROVE AccountsFor(Arrived(h, n)')
    <3>1. CASE h # g
      <4>1. n \in 0..Len(sent[h])
        BY <1>3, <3>1
      <4> QED BY <1>8, <3>1, <4>1 DEF ProposalsInv, AllAreExplained
    <3>2. CASE h = g
      <4>1. n \in 0..(Len(sent[g]) + Len(new))
        BY <1>6, <3>2
      <4>2. CASE n \in 0..Len(sent[g])
        BY <1>9, <3>2, <4>2 DEF ProposalsInv, AllAreExplained
      <4>3. CASE n \notin 0..Len(sent[g])
        <5> DEFINE m == n - Len(sent[g])
        <5>1. m \in 0..Len(new) /\ n = Len(sent[g]) + m
          BY <1>11, <4>1, <4>3
        <5> HIDE DEF m
        <5>2. Arrived(g, n)' = Arrived(g, Len(sent[g])) \cup {new[i] : i \in 1..m}
          BY <1>10, <5>1
        <5>3. AccountsFor(knows[g] \cup {new[i] : i \in 1..m})
          BY <5>1 DEF Explaining
        <5>4. AccountsFor(Arrived(g, Len(sent[g])))
          <6>1. Len(sent[g]) \in 0..Len(sent[g])
            BY <1>4
          <6> QED BY <6>1 DEF ProposalsInv, AllAreExplained
        <5>5. knows[g] \subseteq Arrived(g, Len(sent[g]))
          BY DEF ProposalsInv, PagesSendAll
        <5>6. AccountsFor(Arrived(g, Len(sent[g])) \cup (knows[g] \cup {new[i] : i \in 1..m}))
          BY <5>3, <5>4, AccountsJoin
        <5>7. Arrived(g, Len(sent[g])) \cup (knows[g] \cup {new[i] : i \in 1..m})
              = Arrived(g, Len(sent[g])) \cup {new[i] : i \in 1..m}
          BY <5>5
        <5> QED BY <3>2, <5>2, <5>6, <5>7
      <4> QED BY <4>2, <4>3
    <3> QED BY <3>1, <3>2
  <2> QED BY <2>1, <2>2 DEF AllAreExplained
<1> QED BY <1>7, <1>12, <1>13

-----------------------------------------------------------------------------
(* One lemma for each action.                                              *)

LEMMA Kinds ==
    /\ \A f \in ChangeFact : f.is = "change"
    /\ \A f \in OfferFact : f.is = "offer"
    /\ \A f \in DecisionFact : f.is = "decision"
    /\ ChangeFact \subseteq Fact /\ OfferFact \subseteq Fact /\ DecisionFact \subseteq Fact
    /\ \A f \in Fact : f.is = "change" => f \in ChangeFact
BY DEF ChangeFact, OfferFact, DecisionFact, Fact

LEMMA ProposalsInitGood == ProposalsInit => ProposalsInv
<1> SUFFICES ASSUME ProposalsInit PROVE ProposalsInv
  OBVIOUS
<1>1. /\ knows = [r \in Replicas |-> {}] /\ sent = [g \in Pages |-> <<>>]
      /\ order = [i \in DOMAIN FirstText |-> Block0(FirstText[i])]
      /\ lost = {} /\ edits = 0 /\ reloads = 0
  BY DEF ProposalsInit
<1>2. /\ FirstText \in Seq(Blocks) /\ Len(FirstText) \in Nat
      /\ DOMAIN FirstText = 1..Len(FirstText)
      /\ \A i, j \in 1..Len(FirstText) : FirstText[i] = FirstText[j] => i = j
      /\ Server \in Replicas /\ Pages \subseteq Replicas
  BY ProposalsAssumption, RangeIs DEF ProposalsAssumption, Replicas
<1>3. \A b \in Blocks : Block0(b) \in Block /\ Block0(b).id = b /\ Block0(b).of = <<>>
  BY DEF Block0, Block
<1>4. order \in Seq(Block) /\ Len(order) = Len(FirstText)
      /\ \A i \in 1..Len(order) : order[i] = Block0(FirstText[i]) /\ FirstText[i] \in Blocks
  BY <1>1, <1>2, <1>3
<1>5. \A g \in Pages : sent[g] = <<>> /\ Len(sent[g]) = 0
  BY <1>1
<1>6. \A r \in Replicas : knows[r] = {}
  BY <1>1
<1>7. PropTypeOK
  <2>1. sent \in [Pages -> Seq(Fact)]
    BY <1>1
  <2> QED BY <1>1, <1>4, <2>1 DEF PropTypeOK
<1>8. OrderIsOne
  <2>1. \A i, j \in 1..Len(order) : order[i] = order[j] => i = j
    BY <1>2, <1>3, <1>4
  <2> QED BY <1>4, <2>1, RangeIs DEF OrderIsOne
<1>9. MintedOnce
  <2>1. \A x \in Range(order) : x.of = <<>>
    BY <1>3, <1>4, RangeIs
  <2>2. <<>> \notin Identity
    BY DEF Identity
  <2> QED BY <2>1, <2>2 DEF MintedOnce
<1>10. OffersAreRooted
  BY <1>2, <1>6 DEF OffersAreRooted, OfferIn, Facts
<1>11. PagesSendAll
  BY <1>2, <1>5, <1>6 DEF PagesSendAll
<1>12. AllAreExplained
  <2>1. AccountsFor({})
    BY DEF AccountsFor, Facts
  <2>2. \A g \in Pages : \A n \in 0..Len(sent[g]) : Arrived(g, n) = {}
    BY <1>2, <1>5, <1>6 DEF Arrived
  <2> QED BY <1>6, <2>1, <2>2 DEF AllAreExplained
<1>13. AcceptedLanded
  BY <1>6 DEF AcceptedLanded, Facts
<1> QED BY <1>7, <1>8, <1>9, <1>10, <1>11, <1>12, <1>13 DEF ProposalsInv

\* Most steps leave the order alone.
LEMMA SameOrder ==
    ASSUME ProposalsInv, order' = order, reloads' = reloads,
           \A r \in Replicas : knows[r] \subseteq knows'[r]
    PROVE  /\ Range(order) \subseteq Range(order') /\ OrderIsOne' /\ MintedOnce'
<1>1. OrderIsOne'
  BY DEF ProposalsInv, OrderIsOne, IsInjective
<1>2. Range(order') \subseteq Range(order) \cup {} /\ {} \in SUBSET Block
  OBVIOUS
<1>3. MintedOnce'
  BY <1>2, MintsStay
<1> QED BY <1>1, <1>3

LEMMA ProposeKeeps ==
    ASSUME ProposalsInv, NEW p \in Offers, NEW draft \in Drafts, Propose(p, draft)
    PROVE  ProposalsInv'
<1> DEFINE ops == Validated(p, draft)
           o == Offered(p, ops, Facts(knows[Server], "change"))
<1>1. /\ knows' = [knows EXCEPT ![Server] = @ \cup {o}]
      /\ sent' = sent /\ order' = order /\ lost' = lost /\ edits' = edits /\ reloads' = reloads
      /\ OfferIn(knows[Server], p) = {}
  BY DEF Propose
<1>2. /\ knows \in [Replicas -> SUBSET Fact] /\ Server \in Replicas /\ order \in Seq(Block)
  BY DEF ProposalsInv, PropTypeOK, Replicas
<1>3. /\ ops \in Seq(Op)
      /\ \A k \in DOMAIN ops : ops[k].id \in Known(p)
  <2>1. draft \in Seq(Op)
    BY ProposalsAssumption DEF ProposalsAssumption
  <2> DEFINE S == {op \in Range(draft) : op.id \in Known(p)}
  <2>2. ops = Only(S, draft)
    BY DEF Validated
  <2> HIDE DEF S, ops
  <2>3. ops \in Seq(Op) /\ Range(ops) = Range(draft) \cap S
    BY <2>1, <2>2, OnlyIs
  <2>4. \A k \in DOMAIN ops : ops[k] \in Range(ops)
    BY <2>3, RangeIs
  <2> QED BY <2>3, <2>4 DEF S
<1>4. Facts(knows[Server], "change") \in SUBSET ChangeFact
  BY <1>2, Kinds DEF Facts
<1> HIDE DEF ops
<1>5. /\ o \in OfferFact /\ o.is = "offer" /\ o.about = p /\ o.ops = ops
      /\ o.seen = Facts(knows[Server], "change")
  BY <1>3, <1>4 DEF Offered, OfferFact
<1> HIDE DEF o
<1>6. {o} \in SUBSET Fact /\ Facts({o}, "offer") = {o} /\ Facts({o}, "decision") = {}
  BY <1>5, Kinds DEF Facts
<1>7. Rooted(o)
  <2> SUFFICES ASSUME NEW k \in DOMAIN ops
               PROVE  \E x \in Range(order) : x.id = ops[k].id /\ x \in There(o.seen) \ Gone(o.seen)
    BY <1>5 DEF Rooted
  <2> DEFINE text == TextIn(knows[Server], order)
  <2>1. /\ text \in Seq(Block)
        /\ Range(text) = Range(order) \cap (There(knows[Server]) \ Gone(knows[Server]))
    BY <1>2, TextIs
  <2>2. ops[k].id \in Ids(text)
    BY <1>3 DEF Known
  <2> HIDE DEF text
  <2>3. PICK i \in DOMAIN text : text[i].id = ops[k].id
    BY <2>2 DEF Ids
  <2>4. text[i] \in Range(text)
    BY <2>1, RangeIs
  <2>5. Facts(o.seen, "change") = Facts(knows[Server], "change")
    BY <1>5 DEF Facts
  <2>6. There(o.seen) = There(knows[Server]) /\ Gone(o.seen) = Gone(knows[Server])
    BY <2>5 DEF There, Gone
  <2> QED BY <2>1, <2>3, <2>4, <2>6
<1>8. FirstOffers({o})
  <2>1. o.seen \subseteq knows[Server]
    BY <1>5 DEF Facts
  <2> QED BY <1>1, <1>5, <1>6, <1>7, <2>1 DEF FirstOffers
<1>9. AccountsFor(knows[Server] \cup {o})
  <2>1. AccountsFor(knows[Server])
    BY <1>2 DEF ProposalsInv, AllAreExplained
  <2> QED BY <1>6, <2>1, AccountsAdd
<1>10. \A r \in Replicas : knows[r] \subseteq knows'[r] /\ knows'[r] \subseteq knows[r] \cup {o}
  BY <1>1, <1>2
<1>11. Range(order) \subseteq Range(order') /\ OrderIsOne' /\ MintedOnce'
  BY <1>1, <1>10, SameOrder
<1>12. OffersAreRooted' /\ PagesSendAll' /\ AllAreExplained'
  BY <1>1, <1>6, <1>8, <1>9, <1>11, ServerLearns
<1>13. PropTypeOK'
  <2>1. knows' \in [Replicas -> SUBSET Fact]
    BY <1>1, <1>2, <1>6
  <2> QED BY <1>1, <2>1 DEF ProposalsInv, PropTypeOK
<1>14. AcceptedLanded'
  <2> DEFINE before == knows[Server] \cup lost \cup UNION {ToSet(sent[g]) : g \in Pages}
  <2>1. before \subseteq knows'[Server] \cup lost' \cup UNION {ToSet(sent'[g]) : g \in Pages}
    BY <1>1, <1>2, <1>10
  <2>2. \A r \in Replicas : \A f \in Facts(knows'[r], "decision") :
           \E q \in Replicas : f \in knows[q]
    BY <1>5, <1>10 DEF Facts
  <2> QED BY <2>1, <2>2, LandedStays
<1> QED BY <1>11, <1>12, <1>13, <1>14 DEF ProposalsInv

\* The server decides: `new' is its decision, and the change that goes with it.
ServerDecides(new, d, p) ==
    /\ knows' = [knows EXCEPT ![Server] = @ \cup new]
    /\ sent' = sent /\ lost' = lost /\ edits' = edits /\ reloads' = reloads
    /\ d \in new /\ d \in DecisionFact /\ d.about = p /\ d.by = Server
    /\ new \subseteq ChangeFact \cup {d}
    /\ d.status = "accepted" => Landed(d)'
    /\ \E o \in OfferIn(knows[Server], p) : \A k \in d.dropped : Explained(o, k, knows[Server])

LEMMA ServerDecidesKeeps ==
    ASSUME ProposalsInv, NEW p \in Offers, NEW new, NEW d, ServerDecides(new, d, p),
           OrderGrows(Server, p)
    PROVE  ProposalsInv'
<1>1. /\ knows \in [Replicas -> SUBSET Fact] /\ Server \in Replicas /\ reloads \in Nat
  BY DEF ProposalsInv, PropTypeOK, Replicas
<1>2. /\ knows' = [knows EXCEPT ![Server] = @ \cup new]
      /\ sent' = sent /\ lost' = lost /\ edits' = edits /\ reloads' = reloads
      /\ d \in new /\ d \in DecisionFact /\ d.about = p /\ d.by = Server
      /\ new \subseteq ChangeFact \cup {d}
  BY DEF ServerDecides
<1>3. new \in SUBSET Fact /\ Facts(new, "offer") = {} /\ Facts(new, "decision") = {d} /\ d.is = "decision"
  BY <1>2, Kinds DEF Facts
<1>4. FirstOffers(new)
  BY <1>3 DEF FirstOffers
<1>5. AccountsFor(knows[Server] \cup new)
  <2>1. AccountsFor(knows[Server])
    BY <1>1 DEF ProposalsInv, AllAreExplained
  <2>2. \A f \in Facts(new, "decision") : \E o \in OfferIn(knows[Server], f.about) :
           \A k \in f.dropped : Explained(o, k, knows[Server])
    BY <1>2, <1>3 DEF ServerDecides
  <2> QED BY <2>1, <2>2, AccountsAdd
<1>6. /\ \A r \in Replicas : knows[r] \subseteq knows'[r] /\ knows'[r] \subseteq knows[r] \cup new
      /\ d \in knows'[Server]
  BY <1>1, <1>2
<1>7. Range(order) \subseteq Range(order')
  BY DEF OrderGrows
<1>8. OffersAreRooted' /\ PagesSendAll' /\ AllAreExplained'
  BY <1>2, <1>3, <1>4, <1>5, <1>7, ServerLearns
<1>9. PropTypeOK' /\ OrderIsOne'
  <2>1. knows' \in [Replicas -> SUBSET Fact]
    BY <1>1, <1>2, <1>3
  <2> QED BY <1>2, <2>1 DEF OrderGrows, ProposalsInv, PropTypeOK, OrderIsOne
<1>10. MintedOnce'
  <2>1. \A x \in MadeBy(p, Server) : x.of[1] = p /\ x.of[2] = Server /\ x.of[3] = reloads
    BY DEF MadeBy
  <2>2. d \in DecisionsIn(knows'[Server], p)
    BY <1>2, <1>3, <1>6 DEF DecisionsIn, Facts
  <2>3. MadeBy(p, Server) \in SUBSET Block
    BY DEF MadeBy
  <2>4. Range(order') \subseteq Range(order) \cup MadeBy(p, Server)
    BY DEF OrderGrows
  <2>5. \A x \in MadeBy(p, Server) : x.of \in Identity =>
           x.of[3] = reloads /\ DecisionsIn(knows'[x.of[2]], x.of[1]) # {}
    BY <2>1, <2>2
  <2> QED BY <1>2, <1>6, <2>3, <2>4, <2>5, MintsStay
<1>11. AcceptedLanded'
  <2> DEFINE before == knows[Server] \cup lost \cup UNION {ToSet(sent[g]) : g \in Pages}
  <2>1. before \subseteq knows'[Server] \cup lost' \cup UNION {ToSet(sent'[g]) : g \in Pages}
    BY <1>1, <1>2, <1>6
  <2>2. \A r \in Replicas : \A f \in Facts(knows'[r], "decision") : f.status = "accepted" =>
           (\E q \in Replicas : f \in knows[q]) \/ Landed(f)'
    <3> SUFFICES ASSUME NEW r \in Replicas, NEW f \in Facts(knows'[r], "decision"),
                        f.status = "accepted", f \notin knows[r]
                 PROVE  Landed(f)'
      OBVIOUS
    <3>1. f = d
      BY <1>2, <1>6, Kinds DEF Facts
    <3> QED BY <3>1 DEF ServerDecides
  <2> QED BY <2>1, <2>2, LandedStays
<1> QED BY <1>8, <1>9, <1>10, <1>11 DEF ProposalsInv

LEMMA AcceptOnServerKeeps ==
    ASSUME ProposalsInv, NEW p \in Offers, AcceptOnServer(p)
    PROVE  ProposalsInv'
<1>1. PICK acc : acc = Accepted(Server, p)
  OBVIOUS
<1>2. /\ Pending(knows[Server], p) /\ Accepted(Server, p).valid
      /\ knows' = [knows EXCEPT ![Server] = @ \cup {acc.decision, acc.change}]
      /\ order' = acc.order
      /\ sent' = sent /\ lost' = lost /\ edits' = edits /\ reloads' = reloads
  BY <1>1 DEF AcceptOnServer
<1>3. Server \in Replicas /\ knows \in [Replicas -> SUBSET Fact]
  BY DEF Replicas, ProposalsInv, PropTypeOK
<1>4. Counts(acc, Server, p)
  BY <1>1, <1>2, <1>3, AcceptedIs
<1>5. OrderGrows(Server, p)
  BY <1>2, <1>4 DEF Counts, OrderGrows
<1>6. Landed(acc.decision)'
  <2>1. acc.change \in knows'[Server]
    BY <1>2, <1>3
  <2>2. /\ acc.change.is = "change" /\ acc.change.about = acc.decision.about
        /\ acc.change.by = acc.decision.by /\ acc.change.life = acc.decision.life
        /\ acc.change.added # {} \/ acc.change.removed # {}
    BY <1>4 DEF Counts
  <2> QED BY <2>1, <2>2 DEF Landed
<1>7. ServerDecides({acc.decision, acc.change}, acc.decision, p)
  BY <1>2, <1>4, <1>6 DEF Counts, ServerDecides
<1> QED BY <1>5, <1>7, ServerDecidesKeeps

LEMMA RejectOnServerKeeps ==
    ASSUME ProposalsInv, NEW p \in Offers, RejectOnServer(p)
    PROVE  ProposalsInv'
<1>1. PICK d : d = Decided(p, Server, "rejected", {})
  OBVIOUS
<1>2. /\ Pending(knows[Server], p)
      /\ knows' = [knows EXCEPT ![Server] = @ \cup {d}]
      /\ sent' = sent /\ order' = order /\ lost' = lost /\ edits' = edits /\ reloads' = reloads
  BY <1>1 DEF RejectOnServer
<1>3. Server \in Replicas /\ order \in Seq(Block) /\ IsInjective(order) /\ reloads \in Nat
  BY DEF Replicas, ProposalsInv, PropTypeOK, OrderIsOne
<1>4. /\ d \in DecisionFact /\ d.about = p /\ d.by = Server /\ d.status = "rejected" /\ d.dropped = {}
  BY <1>1, <1>3 DEF Decided, DecisionFact, Life
<1>5. OrderGrows(Server, p)
  BY <1>2, <1>3 DEF OrderGrows, IsInjective
<1>6. \E o \in OfferIn(knows[Server], p) : \A k \in d.dropped : Explained(o, k, knows[Server])
  BY <1>2, <1>4 DEF Pending
<1>7. ServerDecides({d}, d, p)
  BY <1>2, <1>4, <1>6 DEF ServerDecides
<1> QED BY <1>5, <1>7, ServerDecidesKeeps

\* A page writes a decision first, or none.
PageSays(g, new) ==
    /\ knows' = [knows EXCEPT ![g] = @ \cup Range(new)]
    /\ sent' = [sent EXCEPT ![g] = @ \o new]
    /\ lost' = lost /\ edits' \in Nat /\ reloads' = reloads
    /\ new \in Seq(ChangeFact \cup DecisionFact)
    /\ \A i \in 1..Len(new) : i > 1 => new[i] \in ChangeFact
    /\ \A f \in Facts(Range(new), "decision") : f.status = "accepted" => Landed(f)'
    /\ \A d \in Facts(Range(new), "decision") : \E o \in OfferIn(knows[g], d.about) :
          \A k \in d.dropped : Explained(o, k, knows[g])

LEMMA PageSaysKeeps ==
    ASSUME ProposalsInv, NEW g \in Pages, NEW new, PageSays(g, new),
           order' \in Seq(Block), OrderIsOne', MintedOnce', Range(order) \subseteq Range(order')
    PROVE  ProposalsInv'
<1>1. /\ knows \in [Replicas -> SUBSET Fact] /\ sent \in [Pages -> Seq(Fact)]
      /\ g \in Replicas /\ Server \in Replicas
  BY DEF ProposalsInv, PropTypeOK, Replicas
<1>2. /\ knows' = [knows EXCEPT ![g] = @ \cup Range(new)]
      /\ sent' = [sent EXCEPT ![g] = @ \o new]
      /\ lost' = lost /\ edits' \in Nat /\ reloads' = reloads
      /\ new \in Seq(ChangeFact \cup DecisionFact)
  BY DEF PageSays
<1>3. Range(new) \subseteq Fact /\ new \in Seq(Fact)
  <2>1. Range(new) \subseteq ChangeFact \cup DecisionFact
    BY <1>2, RangeIs
  <2> QED BY <1>2, <2>1, Kinds, SeqMonotonic
<1>4. Explaining(g, new)
  <2> SUFFICES ASSUME NEW m \in 0..Len(new)
               PROVE  AccountsFor(knows[g] \cup {new[i] : i \in 1..m})
    BY DEF Explaining
  <2>1. AccountsFor(knows[g])
    BY <1>1 DEF ProposalsInv, AllAreExplained
  <2>2. {new[i] : i \in 1..m} \subseteq Range(new)
    <3>1. \A i \in 1..m : i \in 1..Len(new)
      BY <1>2
    <3>2. \A i \in 1..Len(new) : new[i] \in Range(new)
      BY <1>2, RangeIs
    <3> QED BY <3>1, <3>2
  <2>3. \A d \in Facts({new[i] : i \in 1..m}, "decision") : \E o \in OfferIn(knows[g], d.about) :
           \A k \in d.dropped : Explained(o, k, knows[g])
    BY <2>2 DEF PageSays, Facts
  <2> QED BY <2>1, <2>3, AccountsAdd
<1>5. OffersAreRooted' /\ PagesSendAll' /\ AllAreExplained'
  BY <1>2, <1>4, PageWrites
<1>6. PropTypeOK'
  <2>1. knows' \in [Replicas -> SUBSET Fact]
    BY <1>1, <1>2, <1>3
  <2>2. sent' \in [Pages -> Seq(Fact)]
    <3>1. sent[g] \o new \in Seq(Fact)
      BY <1>1, <1>3, ConcatProperties
    <3> QED BY <1>1, <1>2, <3>1
  <2> QED BY <1>2, <2>1, <2>2 DEF ProposalsInv, PropTypeOK
<1>7. AcceptedLanded'
  <2> DEFINE before == knows[Server] \cup lost \cup UNION {ToSet(sent[h]) : h \in Pages}
             after == knows'[Server] \cup lost' \cup UNION {ToSet(sent'[h]) : h \in Pages}
  <2>1. \A h \in Pages : ToSet(sent[h]) \subseteq ToSet(sent'[h])
    <3> SUFFICES ASSUME NEW h \in Pages PROVE ToSet(sent[h]) \subseteq ToSet(sent'[h])
      OBVIOUS
    <3>1. CASE h = g
      <4>1. sent[g] \in Seq(Fact) /\ sent'[g] = sent[g] \o new
        BY <1>1, <1>2
      <4>2. Range(sent[g] \o new) = Range(sent[g]) \cup Range(new) /\ sent[g] \o new \in Seq(Fact)
        BY <1>3, <4>1, RangeConcatenation, ConcatProperties
      <4>3. ToSet(sent[g]) = Range(sent[g]) /\ ToSet(sent'[g]) = Range(sent'[g])
        BY DEF ToSet, Range
      <4> QED BY <3>1, <4>1, <4>2, <4>3
    <3>2. CASE h # g
      BY <1>1, <1>2, <3>2
    <3> QED BY <3>1, <3>2
  <2>2. knows[Server] \subseteq knows'[Server] /\ lost' = lost
    BY <1>1, <1>2
  <2>3. before \subseteq after
    BY <2>1, <2>2
  <2>4. \A r \in Replicas : \A f \in Facts(knows'[r], "decision") : f.status = "accepted" =>
           (\E q \in Replicas : f \in knows[q]) \/ Landed(f)'
    <3> SUFFICES ASSUME NEW r \in Replicas, NEW f \in Facts(knows'[r], "decision"),
                        f.status = "accepted", f \notin knows[r]
                 PROVE  Landed(f)'
      OBVIOUS
    <3>1. f \in Facts(Range(new), "decision")
      BY <1>1, <1>2 DEF Facts
    <3> QED BY <3>1 DEF PageSays
  <2> QED BY <2>3, <2>4, LandedStays
<1> QED BY <1>5, <1>6, <1>7 DEF ProposalsInv

LEMMA AcceptOnPageKeeps ==
    ASSUME ProposalsInv, NEW p \in Offers, NEW g \in Pages, AcceptOnPage(g, p)
    PROVE  ProposalsInv'
<1>1. PICK acc : acc = Accepted(g, p)
  OBVIOUS
<1>2. PICK new : new = <<acc.decision, acc.change>>
  OBVIOUS
<1>3. /\ Pending(knows[g], p) /\ Accepted(g, p).valid
      /\ knows' = [knows EXCEPT ![g] = @ \cup {acc.decision, acc.change}]
      /\ sent' = [sent EXCEPT ![g] = @ \o new]
      /\ order' = acc.order
      /\ lost' = lost /\ edits' = edits /\ reloads' = reloads
  BY <1>1, <1>2 DEF AcceptOnPage
<1>4. /\ g \in Replicas /\ knows \in [Replicas -> SUBSET Fact] /\ sent \in [Pages -> Seq(Fact)]
      /\ edits \in Nat
  BY DEF Replicas, ProposalsInv, PropTypeOK
<1>5. Counts(acc, g, p)
  BY <1>1, <1>3, <1>4, AcceptedIs
<1>6. /\ acc.decision \in DecisionFact /\ acc.decision.about = p /\ acc.decision.is = "decision"
      /\ acc.change \in ChangeFact /\ acc.change.is = "change" /\ acc.change.about = acc.decision.about
      /\ acc.change.by = acc.decision.by /\ acc.change.life = acc.decision.life
      /\ acc.change.added # {} \/ acc.change.removed # {}
  BY <1>5 DEF Counts
<1>7. /\ new \in Seq(ChangeFact \cup DecisionFact) /\ Len(new) = 2
      /\ new[1] = acc.decision /\ new[2] = acc.change
  BY <1>2, <1>6
<1>8. Range(new) = {acc.decision, acc.change}
  <2>1. 1 \in 1..Len(new) /\ 2 \in 1..Len(new) /\ \A i \in 1..Len(new) : i = 1 \/ i = 2
    BY <1>7
  <2>2. \A x \in Range(new) : \E i \in 1..Len(new) : x = new[i]
    BY <1>7, RangeIs
  <2>3. \A i \in 1..Len(new) : new[i] \in Range(new)
    BY <1>7, RangeIs
  <2>4. acc.decision \in Range(new) /\ acc.change \in Range(new)
    BY <1>7, <2>1, <2>3
  <2>5. \A x \in Range(new) : x = acc.decision \/ x = acc.change
    BY <1>7, <2>1, <2>2
  <2> QED BY <2>4, <2>5
<1>9. Facts(Range(new), "decision") = {acc.decision}
  BY <1>6, <1>8 DEF Facts
<1>10. Landed(acc.decision)'
  <2>1. sent[g] \o new = sent'[g] /\ sent[g] \in Seq(Fact) /\ new \in Seq(Fact)
    BY <1>3, <1>4, <1>7, Kinds, SeqMonotonic
  <2>2. sent'[g] \in Seq(Fact) /\ Range(sent'[g]) = Range(sent[g]) \cup Range(new)
    <3>1. sent[g] \o new \in Seq(Fact)
      BY <2>1, ConcatProperties
    <3>2. Range(sent[g] \o new) = Range(sent[g]) \cup Range(new)
      BY <2>1, RangeConcatenation
    <3> QED BY <2>1, <3>1, <3>2, Zenon
  <2>3. acc.change \in ToSet(sent'[g])
    <3>1. ToSet(sent'[g]) = Range(sent'[g])
      BY <2>2, RangeIs
    <3> QED BY <1>8, <2>2, <3>1
  <2> QED BY <1>6, <2>3 DEF Landed
<1>11. PageSays(g, new)
  <2>1. \A i \in 1..Len(new) : i > 1 => new[i] \in ChangeFact
    BY <1>6, <1>7
  <2>2. \E o \in OfferIn(knows[g], p) : \A k \in acc.decision.dropped : Explained(o, k, knows[g])
    BY <1>5 DEF Counts
  <2> QED BY <1>3, <1>4, <1>6, <1>7, <1>8, <1>9, <1>10, <2>1, <2>2 DEF PageSays
<1>12. /\ order' \in Seq(Block) /\ OrderIsOne' /\ Range(order) \subseteq Range(order')
       /\ Range(order') \subseteq Range(order) \cup MadeBy(p, g)
  BY <1>3, <1>5 DEF Counts, OrderIsOne
<1>13. MintedOnce'
  <2>1. \A x \in MadeBy(p, g) : x.of[1] = p /\ x.of[2] = g /\ x.of[3] = reloads
    BY DEF MadeBy
  <2>2. acc.decision \in DecisionsIn(knows'[g], p)
    BY <1>3, <1>4, <1>5 DEF DecisionsIn, Facts, Counts
  <2>3. MadeBy(p, g) \in SUBSET Block
    BY DEF MadeBy
  <2>4. \A x \in MadeBy(p, g) : x.of \in Identity =>
           x.of[3] = reloads /\ DecisionsIn(knows'[x.of[2]], x.of[1]) # {}
    BY <2>1, <2>2
  <2>5. \A r \in Replicas : knows[r] \subseteq knows'[r]
    BY <1>3, <1>4
  <2> QED BY <1>3, <1>12, <2>3, <2>4, <2>5, MintsStay
<1> QED BY <1>11, <1>12, <1>13, PageSaysKeeps

\* A sequence of one member.
LEMMA OneIs ==
    ASSUME NEW S, NEW f \in S
    PROVE  <<f>> \in Seq(S) /\ Len(<<f>>) = 1 /\ <<f>>[1] = f /\ Range(<<f>>) = {f}
<1>1. PICK new : new = <<f>>
  OBVIOUS
<1>2. new \in Seq(S)
  BY <1>1
<1>3. Len(new) = 1 /\ new[1] = f
  BY <1>1
<1>4. DOMAIN new = {1}
  BY <1>1
<1>5. Range(new) = {f}
  BY <1>3, <1>4 DEF Range
<1> QED BY <1>1, <1>2, <1>3, <1>5

\* A page says one thing, and the order stays.
LEMMA PageSaysOne ==
    ASSUME ProposalsInv, NEW g \in Pages, NEW f \in ChangeFact \cup DecisionFact,
           knows' = [knows EXCEPT ![g] = @ \cup {f}],
           sent' = [sent EXCEPT ![g] = Append(@, f)],
           order' = order, lost' = lost, edits' \in Nat, reloads' = reloads,
           f \in DecisionFact => /\ f.status = "rejected" /\ f.dropped = {}
                                 /\ OfferIn(knows[g], f.about) # {}
    PROVE  ProposalsInv'
<1>1. PICK new : new = <<f>>
  OBVIOUS
<1>2. /\ new \in Seq(ChangeFact \cup DecisionFact) /\ Len(new) = 1 /\ new[1] = f
      /\ Range(new) = {f}
  BY <1>1, OneIs
<1>3. /\ knows \in [Replicas -> SUBSET Fact] /\ sent \in [Pages -> Seq(Fact)]
      /\ order \in Seq(Block) /\ g \in Replicas
  BY DEF Replicas, ProposalsInv, PropTypeOK
<1>4. sent' = [sent EXCEPT ![g] = @ \o new]
  <2>1. Append(sent[g], f) = sent[g] \o <<f>>
    <3>1. sent[g] \in Seq(Fact) /\ f \in Fact
      BY <1>3, Kinds
    <3> QED BY <3>1, AppendIsConcat
  <2> QED BY <1>1, <1>3, <2>1
<1>5. \A d \in Facts(Range(new), "decision") :
         d \in DecisionFact /\ d.status = "rejected" /\ d.dropped = {} /\ OfferIn(knows[g], d.about) # {}
  BY <1>2, Kinds DEF Facts
<1>6. PageSays(g, new)
  <2>1. knows' = [knows EXCEPT ![g] = @ \cup Range(new)]
    BY <1>2
  <2>2. \A i \in 1..Len(new) : i > 1 => new[i] \in ChangeFact
    BY <1>2
  <2>3. \A d \in Facts(Range(new), "decision") : d.status = "accepted" => Landed(d)'
    BY <1>5
  <2>4. \A d \in Facts(Range(new), "decision") : \E o \in OfferIn(knows[g], d.about) :
           \A k \in d.dropped : Explained(o, k, knows[g])
    BY <1>5
  <2> QED BY <1>2, <1>4, <2>1, <2>2, <2>3, <2>4 DEF PageSays
<1>7. \A r \in Replicas : knows[r] \subseteq knows'[r]
  BY <1>3
<1>8. Range(order) \subseteq Range(order') /\ OrderIsOne' /\ MintedOnce'
  BY <1>7, SameOrder
<1> QED BY <1>3, <1>6, <1>8, PageSaysKeeps

LEMMA RejectOnPageKeeps ==
    ASSUME ProposalsInv, NEW p \in Offers, NEW g \in Pages, RejectOnPage(g, p)
    PROVE  ProposalsInv'
<1>1. PICK no : no = Decided(p, g, "rejected", {})
  OBVIOUS
<1>2. /\ Pending(knows[g], p)
      /\ knows' = [knows EXCEPT ![g] = @ \cup {no}]
      /\ sent' = [sent EXCEPT ![g] = Append(@, no)]
      /\ order' = order /\ lost' = lost /\ edits' = edits /\ reloads' = reloads
  BY <1>1 DEF RejectOnPage
<1>3. g \in Replicas /\ reloads \in Nat /\ edits \in Nat
  BY DEF Replicas, ProposalsInv, PropTypeOK
<1>4. /\ no \in DecisionFact /\ no.about = p /\ no.status = "rejected" /\ no.dropped = {}
  BY <1>1, <1>3 DEF Decided, DecisionFact, Life
<1>5. OfferIn(knows[g], no.about) # {}
  BY <1>2, <1>4 DEF Pending
<1> QED BY <1>2, <1>3, <1>4, <1>5, PageSaysOne

LEMMA DeleteBlockKeeps ==
    ASSUME ProposalsInv, NEW g \in Pages, DeleteBlock(g)
    PROVE  ProposalsInv'
<1>1. PICK x \in ToSet(TextIn(knows[g], order)) :
         /\ knows' = [knows EXCEPT ![g] = @ \cup {Typed(edits, {x})}]
         /\ sent' = [sent EXCEPT ![g] = Append(@, Typed(edits, {x}))]
  BY DEF DeleteBlock
<1>2. order' = order /\ lost' = lost /\ edits' = edits + 1 /\ reloads' = reloads
  BY DEF DeleteBlock
<1>3. PICK cut : cut = Typed(edits, {x})
  OBVIOUS
<1>4. reloads \in Nat /\ edits \in Nat /\ order \in Seq(Block)
  BY DEF ProposalsInv, PropTypeOK
<1>5. x \in Block
  <2>1. TextIn(knows[g], order) \in Seq(Block)
    BY <1>4, TextIs
  <2> QED BY <2>1, RangeIs
<1>6. cut \in ChangeFact
  BY <1>3, <1>4, <1>5 DEF Typed, ChangeFact, Life
<1>7. cut \notin DecisionFact
  BY <1>6, Kinds
<1>8. /\ knows' = [knows EXCEPT ![g] = @ \cup {cut}]
      /\ sent' = [sent EXCEPT ![g] = Append(@, cut)]
  BY <1>1, <1>3
<1>9. edits' \in Nat /\ cut \in ChangeFact \cup DecisionFact
  BY <1>2, <1>4, <1>6
<1> QED BY <1>2, <1>7, <1>8, <1>9, PageSaysOne

LEMMA ReceiveKeeps ==
    ASSUME ProposalsInv, NEW g \in Pages, Receive(g)
    PROVE  ProposalsInv'
<1>1. PICK f : f = Head(sent[g])
  OBVIOUS
<1>2. /\ sent[g] # <<>>
      /\ knows' = [knows EXCEPT ![Server] = @ \cup {f}]
      /\ sent' = [sent EXCEPT ![g] = Tail(@)]
      /\ order' = order /\ lost' = lost /\ edits' = edits /\ reloads' = reloads
  BY <1>1 DEF Receive
<1>3. /\ knows \in [Replicas -> SUBSET Fact] /\ sent \in [Pages -> Seq(Fact)]
      /\ order \in Seq(Block) /\ g \in Replicas /\ Server \in Replicas /\ Server \notin Pages
      /\ Pages \subseteq Replicas
  BY ProposalsAssumption DEF Replicas, ProposalsInv, PropTypeOK, ProposalsAssumption
<1>4. /\ Len(sent[g]) \in Nat /\ Len(sent[g]) >= 1 /\ f = sent[g][1]
      /\ Tail(sent[g]) \in Seq(Fact) /\ Len(Tail(sent[g])) = Len(sent[g]) - 1
      /\ \A i \in 1..(Len(sent[g]) - 1) : Tail(sent[g])[i] = sent[g][i + 1]
  <2>1. sent[g] \in Seq(Fact) /\ sent[g] # <<>>
    BY <1>2, <1>3
  <2> QED BY <1>1, <2>1
<1>5. /\ sent'[g] = Tail(sent[g]) /\ \A h \in Pages : h # g => sent'[h] = sent[h]
      /\ knows'[Server] = knows[Server] \cup {f}
      /\ \A r \in Replicas : r # Server => knows'[r] = knows[r]
  BY <1>2, <1>3
<1>6. f \in knows[g] /\ f.is # "offer" /\ f \in Fact
  <2>1. 1 \in 1..Len(sent[g])
    BY <1>4
  <2>2. f \in knows[g] /\ f.is # "offer"
    BY <1>4, <2>1 DEF ProposalsInv, PagesSendAll
  <2> QED BY <1>3, <2>2
<1>7. \A r \in Replicas : knows[r] \subseteq knows'[r]
  BY <1>3, <1>5
<1>8. Range(order) \subseteq Range(order') /\ OrderIsOne' /\ MintedOnce'
  BY <1>2, <1>7, SameOrder
<1>9. PropTypeOK'
  <2>1. knows' \in [Replicas -> SUBSET Fact] /\ sent' \in [Pages -> Seq(Fact)]
    BY <1>2, <1>3, <1>4, <1>6
  <2> QED BY <1>2, <2>1 DEF ProposalsInv, PropTypeOK
<1>10. OffersAreRooted'
  <2>1. \A r \in Replicas : Facts(knows'[r], "offer") = Facts(knows[r], "offer")
    BY <1>5, <1>6 DEF Facts
  <2>2. \A p : OfferIn(knows'[Server], p) = OfferIn(knows[Server], p)
    BY <1>3, <2>1 DEF OfferIn
  <2>3. \A o : Rooted(o) => Rooted(o)'
    BY <1>8, RootsStay
  <2>4. \A r \in Replicas : \A o \in Facts(knows'[r], "offer") :
           o \in knows'[Server] /\ o.seen \subseteq knows'[r] /\ Rooted(o)'
    BY <1>3, <1>7, <2>1, <2>3 DEF ProposalsInv, OffersAreRooted
  <2>5. \A p \in Offers : \A o1, o2 \in OfferIn(knows'[Server], p) : o1 = o2
    BY <2>2 DEF ProposalsInv, OffersAreRooted
  <2> QED BY <2>4, <2>5 DEF OffersAreRooted
<1>11. \A n \in 0..(Len(sent[g]) - 1) : Arrived(g, n)' = Arrived(g, n + 1)
  <2> SUFFICES ASSUME NEW n \in 0..(Len(sent[g]) - 1)
               PROVE  Arrived(g, n)' = Arrived(g, n + 1)
    OBVIOUS
  <2>1. \A i \in 1..n : i + 1 \in 1..(n + 1) /\ sent'[g][i] = sent[g][i + 1]
    BY <1>4, <1>5
  <2>2. \A i \in 1..(n + 1) : i = 1 \/ (i - 1 \in 1..n /\ (i - 1) + 1 = i)
    OBVIOUS
  <2>3. {sent[g][i] : i \in 1..(n + 1)} = {f} \cup {sent'[g][i] : i \in 1..n}
    <3>1. ASSUME NEW i \in 1..(n + 1) PROVE sent[g][i] \in {f} \cup {sent'[g][j] : j \in 1..n}
      <4>1. CASE i = 1
        BY <1>4, <4>1
      <4>2. CASE i # 1
        <5>1. PICK j \in 1..n : i = j + 1
          BY <2>2, <4>2
        <5>2. sent[g][i] = sent'[g][j]
          BY <2>1, <5>1
        <5> QED BY <5>2
      <4> QED BY <4>1, <4>2
    <3>2. ASSUME NEW j \in 1..n PROVE sent'[g][j] \in {sent[g][i] : i \in 1..(n + 1)}
      BY <2>1
    <3>3. f \in {sent[g][i] : i \in 1..(n + 1)}
      <4>1. 1 \in 1..(n + 1)
        OBVIOUS
      <4> QED BY <1>4, <4>1
    <3> QED BY <3>1, <3>2, <3>3
  <2> QED BY <1>5, <2>3 DEF Arrived
<1>12. \A h \in Pages : h # g => \A n : Arrived(h, n)' = Arrived(h, n) \cup Arrived(g, 1)
  <2>1. Arrived(g, 1) = knows[Server] \cup {f}
    <3>1. 1..1 = {1}
      OBVIOUS
    <3> QED BY <1>4, <3>1 DEF Arrived
  <2> QED BY <1>5, <2>1 DEF Arrived
<1>13. PagesSendAll'
  <2>1. ASSUME NEW h \in Pages, h # g
        PROVE  /\ \A i \in 1..Len(sent'[h]) : sent'[h][i] \in knows'[h] /\ sent'[h][i].is # "offer"
               /\ knows'[h] \subseteq Arrived(h, Len(sent[h]))'
    <3>1. knows'[h] = knows[h] /\ sent'[h] = sent[h]
      BY <1>3, <1>5, <2>1
    <3> QED BY <1>12, <2>1, <3>1 DEF ProposalsInv, PagesSendAll
  <2>2. \A i \in 1..Len(sent'[g]) : sent'[g][i] \in knows'[g] /\ sent'[g][i].is # "offer"
    <3> TAKE i \in 1..Len(sent'[g])
    <3>1. i + 1 \in 1..Len(sent[g]) /\ sent'[g][i] = sent[g][i + 1]
      BY <1>4, <1>5
    <3> QED BY <1>3, <1>7, <3>1 DEF ProposalsInv, PagesSendAll
  <2>3. knows'[g] \subseteq Arrived(g, Len(sent[g]))'
    <3>1. Len(sent[g]) - 1 \in 0..(Len(sent[g]) - 1) /\ (Len(sent[g]) - 1) + 1 = Len(sent[g])
      BY <1>4
    <3>2. \A n : n = Len(sent'[g]) => Arrived(g, n)' = Arrived(g, Len(sent[g]))
      BY <1>4, <1>5, <1>11, <3>1
    <3>3. \A n : n = Len(sent'[g]) =>
             knows'[Server] \cup {sent'[g][i] : i \in 1..n} = Arrived(g, Len(sent[g]))
      BY <3>2 DEF Arrived
    <3>4. knows'[g] = knows[g] /\ knows[g] \subseteq Arrived(g, Len(sent[g]))
      BY <1>3, <1>5 DEF ProposalsInv, PagesSendAll
    <3>5. knows'[g] \subseteq knows'[Server] \cup {sent'[g][i] : i \in 1..Len(sent'[g])}
      BY <3>3, <3>4
    <3> QED BY <3>5 DEF Arrived
  <2> QED BY <2>1, <2>2, <2>3 DEF PagesSendAll
<1>14. AllAreExplained'
  <2>1. \A n \in 0..Len(sent[g]) : AccountsFor(Arrived(g, n))
    BY DEF ProposalsInv, AllAreExplained
  <2>2. AccountsFor(Arrived(g, 1)) /\ Arrived(g, 1) = knows[Server] \cup {f}
    <3>1. 1 \in 0..Len(sent[g]) /\ 1..1 = {1}
      BY <1>4
    <3> QED BY <1>4, <2>1, <3>1 DEF Arrived
  <2>3. ASSUME NEW r \in Replicas PROVE AccountsFor(knows'[r])
    <3>1. CASE r = Server
      BY <1>5, <2>2, <3>1
    <3>2. CASE r # Server
      BY <1>5, <3>2 DEF ProposalsInv, AllAreExplained
    <3> QED BY <3>1, <3>2
  <2>4. ASSUME NEW h \in Pages, NEW n \in 0..Len(sent'[h]) PROVE AccountsFor(Arrived(h, n)')
    <3>1. CASE h # g
      <4>1. n \in 0..Len(sent[h])
        BY <1>5, <3>1
      <4>2. AccountsFor(Arrived(h, n))
        BY <4>1 DEF ProposalsInv, AllAreExplained
      <4>3. AccountsFor(Arrived(h, n) \cup Arrived(g, 1))
        BY <2>2, <4>2, AccountsJoin
      <4> QED BY <1>12, <3>1, <4>3
    <3>2. CASE h = g
      <4>0. Len(sent'[g]) = Len(sent[g]) - 1 /\ n \in 0..Len(sent'[g])
        BY <1>4, <1>5, <3>2
      <4>1. n \in 0..(Len(sent[g]) - 1) /\ n + 1 \in 0..Len(sent[g])
        BY <1>4, <4>0
      <4> QED BY <1>11, <2>1, <3>2, <4>1
    <3> QED BY <3>1, <3>2
  <2> QED BY <2>3, <2>4 DEF AllAreExplained, AccountsFor, Facts, OfferIn, Explained
<1>15. AcceptedLanded'
  <2> DEFINE before == knows[Server] \cup lost \cup UNION {ToSet(sent[h]) : h \in Pages}
             after == knows'[Server] \cup lost' \cup UNION {ToSet(sent'[h]) : h \in Pages}
  <2>1. ToSet(sent[g]) \subseteq {f} \cup ToSet(sent'[g])
    <3>1. sent[g] \in Seq(Fact) /\ sent'[g] \in Seq(Fact)
      BY <1>3, <1>4, <1>5
    <3>2. ASSUME NEW x \in ToSet(sent[g]), x # f PROVE x \in ToSet(sent'[g])
      <4>1. PICK i \in 1..Len(sent[g]) : x = sent[g][i]
        BY <3>1, RangeIs
      <4>2. i - 1 \in 1..(Len(sent[g]) - 1) /\ (i - 1) + 1 = i
        BY <1>4, <3>2, <4>1
      <4>3. x = sent'[g][i - 1] /\ i - 1 \in 1..Len(sent'[g])
        BY <1>4, <1>5, <4>1, <4>2
      <4>4. \A j \in 1..Len(sent'[g]) : sent'[g][j] \in ToSet(sent'[g])
        BY <3>1, RangeIs
      <4> QED BY <4>3, <4>4
    <3> QED BY <3>2
  <2>2. \A h \in Pages : h # g => ToSet(sent'[h]) = ToSet(sent[h])
    BY <1>5
  <2>3. before \subseteq after
    BY <1>2, <1>5, <2>1, <2>2
  <2>4. \A r \in Replicas : \A d \in Facts(knows'[r], "decision") :
           \E q \in Replicas : d \in knows[q]
    BY <1>3, <1>5, <1>6 DEF Facts
  <2> QED BY <2>3, <2>4, LandedStays
<1> QED BY <1>8, <1>9, <1>10, <1>13, <1>14, <1>15 DEF ProposalsInv

LEMMA HearKeeps ==
    ASSUME ProposalsInv, NEW g \in Pages, Hear(g)
    PROVE  ProposalsInv'
<1>1. /\ knows' = [knows EXCEPT ![g] = @ \cup knows[Server]]
      /\ sent' = sent /\ order' = order /\ lost' = lost /\ edits' = edits /\ reloads' = reloads
  BY DEF Hear
<1>2. /\ knows \in [Replicas -> SUBSET Fact] /\ g \in Replicas /\ Server \in Replicas
      /\ Server \notin Pages /\ Pages \subseteq Replicas
  BY ProposalsAssumption DEF Replicas, ProposalsInv, PropTypeOK, ProposalsAssumption
<1>3. /\ knows'[g] = knows[g] \cup knows[Server] /\ knows'[Server] = knows[Server]
      /\ \A r \in Replicas : r # g => knows'[r] = knows[r]
  BY <1>1, <1>2
<1>4. \A r \in Replicas : knows[r] \subseteq knows'[r]
  BY <1>3
<1>5. Range(order) \subseteq Range(order') /\ OrderIsOne' /\ MintedOnce'
  BY <1>1, <1>4, SameOrder
<1>6. PropTypeOK'
  <2>1. knows' \in [Replicas -> SUBSET Fact]
    BY <1>1, <1>2
  <2> QED BY <1>1, <2>1 DEF ProposalsInv, PropTypeOK
<1>7. OffersAreRooted'
  <2>1. \A o : Rooted(o) => Rooted(o)'
    BY <1>5, RootsStay
  <2>2. ASSUME NEW r \in Replicas, NEW o \in Facts(knows'[r], "offer")
        PROVE  o \in knows'[Server] /\ o.seen \subseteq knows'[r] /\ Rooted(o)'
    <3>1. CASE o \in knows[r]
      <4>1. o \in Facts(knows[r], "offer")
        BY <2>2, <3>1 DEF Facts
      <4> QED BY <1>3, <1>4, <2>1, <4>1 DEF ProposalsInv, OffersAreRooted
    <3>2. CASE o \notin knows[r]
      <4>1. r = g /\ o \in Facts(knows[Server], "offer")
        BY <1>3, <2>2, <3>2 DEF Facts
      <4> QED BY <1>2, <1>3, <2>1, <4>1 DEF ProposalsInv, OffersAreRooted
    <3> QED BY <3>1, <3>2
  <2>3. \A p \in Offers : \A o1, o2 \in OfferIn(knows'[Server], p) : o1 = o2
    BY <1>3 DEF ProposalsInv, OffersAreRooted
  <2> QED BY <2>2, <2>3 DEF OffersAreRooted
<1>8. \A h \in Pages : \A n : Arrived(h, n)' = Arrived(h, n)
  BY <1>1, <1>3 DEF Arrived
<1>9. PagesSendAll'
  <2>1. ASSUME NEW h \in Pages
        PROVE  /\ \A i \in 1..Len(sent[h]) : sent[h][i] \in knows'[h] /\ sent[h][i].is # "offer"
               /\ knows'[h] \subseteq Arrived(h, Len(sent[h]))
    <3>1. knows'[h] \subseteq knows[h] \cup knows[Server] /\ knows[h] \subseteq knows'[h]
      BY <1>2, <1>3
    <3>2. knows[Server] \subseteq Arrived(h, Len(sent[h]))
      BY DEF Arrived
    <3> QED BY <3>1, <3>2 DEF ProposalsInv, PagesSendAll
  <2> QED BY <1>1, <1>8, <2>1 DEF PagesSendAll
<1>10. AllAreExplained'
  <2>1. ASSUME NEW r \in Replicas PROVE AccountsFor(knows'[r])
    <3>1. AccountsFor(knows[g]) /\ AccountsFor(knows[Server])
      BY <1>2 DEF ProposalsInv, AllAreExplained
    <3>2. AccountsFor(knows[g] \cup knows[Server])
      BY <3>1, AccountsJoin
    <3> QED BY <1>3, <3>2 DEF ProposalsInv, AllAreExplained
  <2>2. ASSUME NEW h \in Pages, NEW n \in 0..Len(sent[h]) PROVE AccountsFor(Arrived(h, n)')
    BY <1>8 DEF ProposalsInv, AllAreExplained
  <2> QED BY <1>1, <2>1, <2>2 DEF AllAreExplained, AccountsFor, Facts, OfferIn, Explained
<1>11. AcceptedLanded'
  <2> DEFINE before == knows[Server] \cup lost \cup UNION {ToSet(sent[h]) : h \in Pages}
  <2>1. before \subseteq knows'[Server] \cup lost' \cup UNION {ToSet(sent'[h]) : h \in Pages}
    BY <1>1, <1>3
  <2>2. \A r \in Replicas : \A d \in Facts(knows'[r], "decision") :
           \E q \in Replicas : d \in knows[q]
    BY <1>2, <1>3 DEF Facts
  <2> QED BY <2>1, <2>2, LandedStays
<1> QED BY <1>5, <1>6, <1>7, <1>9, <1>10, <1>11 DEF ProposalsInv

LEMMA ReloadKeeps ==
    ASSUME ProposalsInv, NEW g \in Pages, Reload(g)
    PROVE  ProposalsInv'
<1>1. /\ knows' = [knows EXCEPT ![g] = knows[Server]]
      /\ sent' = [sent EXCEPT ![g] = <<>>]
      /\ lost' = lost \cup ToSet(sent[g])
      /\ order' = order /\ edits' = edits /\ reloads' = reloads + 1
  BY DEF Reload
<1>2. /\ knows \in [Replicas -> SUBSET Fact] /\ sent \in [Pages -> Seq(Fact)]
      /\ order \in Seq(Block) /\ lost \subseteq Fact /\ reloads \in Nat /\ edits \in Nat
      /\ g \in Replicas /\ Server \in Replicas /\ Server \notin Pages /\ Pages \subseteq Replicas
  BY ProposalsAssumption DEF Replicas, ProposalsInv, PropTypeOK, ProposalsAssumption
<1>3. /\ knows'[g] = knows[Server] /\ knows'[Server] = knows[Server]
      /\ \A r \in Replicas : r # g => knows'[r] = knows[r]
  BY <1>1, <1>2
<1>4. sent'[g] = <<>> /\ Len(sent'[g]) = 0 /\ \A h \in Pages : h # g => sent'[h] = sent[h]
  BY <1>1, <1>2
<1>5. PropTypeOK'
  <2>1. knows' \in [Replicas -> SUBSET Fact]
    BY <1>1, <1>2
  <2>2. <<>> \in Seq(Fact)
    OBVIOUS
  <2>3. sent' \in [Pages -> Seq(Fact)]
    BY <1>1, <1>2, <2>2
  <2>4. ToSet(sent[g]) \subseteq Fact
    BY <1>2, RangeIs
  <2> QED BY <1>1, <1>2, <2>1, <2>3, <2>4 DEF PropTypeOK
<1>6. OrderIsOne' /\ Range(order) \subseteq Range(order')
  BY <1>1 DEF ProposalsInv, OrderIsOne, IsInjective
<1>7. MintedOnce'
  <2> SUFFICES ASSUME NEW x \in Range(order), x.of \in Identity PROVE x.of[3] < reloads + 1
    BY <1>1 DEF MintedOnce
  <2>1. x.of[3] \in Nat
    BY DEF Identity, Life
  <2>2. x.of[3] < reloads \/ x.of[3] = reloads
    BY DEF ProposalsInv, MintedOnce
  <2> QED BY <1>2, <2>1, <2>2
<1>8. OffersAreRooted'
  <2>1. \A o : Rooted(o) => Rooted(o)'
    BY <1>6, RootsStay
  <2>2. ASSUME NEW r \in Replicas, NEW o \in Facts(knows'[r], "offer")
        PROVE  o \in knows'[Server] /\ o.seen \subseteq knows'[r] /\ Rooted(o)'
    <3>1. CASE r = g
      BY <1>2, <1>3, <2>1, <2>2, <3>1 DEF ProposalsInv, OffersAreRooted
    <3>2. CASE r # g
      BY <1>3, <2>1, <2>2, <3>2 DEF ProposalsInv, OffersAreRooted
    <3> QED BY <3>1, <3>2
  <2>3. \A p \in Offers : \A o1, o2 \in OfferIn(knows'[Server], p) : o1 = o2
    BY <1>3 DEF ProposalsInv, OffersAreRooted
  <2> QED BY <2>2, <2>3 DEF OffersAreRooted
<1>9. \A h \in Pages : h # g => \A n : Arrived(h, n)' = Arrived(h, n)
  BY <1>3, <1>4 DEF Arrived
<1>10. Arrived(g, 0)' = knows[Server]
  BY <1>3 DEF Arrived
<1>11. PagesSendAll'
  <2>1. ASSUME NEW h \in Pages, h # g
        PROVE  /\ \A i \in 1..Len(sent'[h]) : sent'[h][i] \in knows'[h] /\ sent'[h][i].is # "offer"
               /\ knows'[h] \subseteq Arrived(h, Len(sent[h]))'
    <3>1. knows'[h] = knows[h] /\ sent'[h] = sent[h]
      BY <1>2, <1>3, <1>4, <2>1
    <3> QED BY <1>9, <2>1, <3>1 DEF ProposalsInv, PagesSendAll
  <2>2. \A i \in 1..Len(sent'[g]) : sent'[g][i] \in knows'[g] /\ sent'[g][i].is # "offer"
    BY <1>4
  <2>3. knows'[g] \subseteq Arrived(g, Len(sent[g]))'
    BY <1>3 DEF Arrived
  <2> QED BY <2>1, <2>2, <2>3 DEF PagesSendAll
<1>12. AllAreExplained'
  <2>1. ASSUME NEW r \in Replicas PROVE AccountsFor(knows'[r])
    <3>1. CASE r = g
      BY <1>2, <1>3, <3>1 DEF ProposalsInv, AllAreExplained
    <3>2. CASE r # g
      BY <1>3, <3>2 DEF ProposalsInv, AllAreExplained
    <3> QED BY <3>1, <3>2
  <2>2. ASSUME NEW h \in Pages, NEW n \in 0..Len(sent'[h]) PROVE AccountsFor(Arrived(h, n)')
    <3>1. CASE h = g
      <4>1. n = 0
        BY <1>4, <3>1
      <4> QED BY <1>2, <1>10, <3>1, <4>1 DEF ProposalsInv, AllAreExplained
    <3>2. CASE h # g
      BY <1>4, <1>9, <3>2 DEF ProposalsInv, AllAreExplained
    <3> QED BY <3>1, <3>2
  <2> QED BY <2>1, <2>2 DEF AllAreExplained, AccountsFor, Facts, OfferIn, Explained
<1>13. AcceptedLanded'
  <2> DEFINE before == knows[Server] \cup lost \cup UNION {ToSet(sent[h]) : h \in Pages}
             after == knows'[Server] \cup lost' \cup UNION {ToSet(sent'[h]) : h \in Pages}
  <2>1. \A h \in Pages : ToSet(sent[h]) \subseteq lost' \cup ToSet(sent'[h])
    BY <1>1, <1>4
  <2>2. before \subseteq after
    BY <1>1, <1>3, <2>1
  <2>3. \A r \in Replicas : \A d \in Facts(knows'[r], "decision") :
           \E q \in Replicas : d \in knows[q]
    BY <1>2, <1>3 DEF Facts
  <2> QED BY <2>2, <2>3, LandedStays
<1> QED BY <1>5, <1>6, <1>7, <1>8, <1>11, <1>12, <1>13 DEF ProposalsInv

-----------------------------------------------------------------------------
(* What the records say is true.                                           *)

LEMMA RestKeeps ==
    ASSUME ProposalsInv, knows' = knows, sent' = sent, order' = order, lost' = lost,
           edits' = edits, reloads' = reloads
    PROVE  ProposalsInv'
<1>1. PropTypeOK' /\ OrderIsOne'
  BY DEF ProposalsInv, PropTypeOK, OrderIsOne, IsInjective
<1>2. MintedOnce'
  BY DEF ProposalsInv, MintedOnce, DecisionsIn, Facts
<1>3. OffersAreRooted'
  BY DEF ProposalsInv, OffersAreRooted, Rooted, There, Gone, Facts, Block0, OfferIn
<1>4. \A g \in Pages : \A n : Arrived(g, n)' = Arrived(g, n)
  BY DEF Arrived
<1>5. PagesSendAll'
  BY <1>4 DEF ProposalsInv, PagesSendAll
<1>6. AllAreExplained'
  BY <1>4 DEF ProposalsInv, AllAreExplained, AccountsFor, Facts, OfferIn, Explained
<1>7. AcceptedLanded'
  BY DEF ProposalsInv, AcceptedLanded, Landed, Facts
<1> QED BY <1>1, <1>2, <1>3, <1>5, <1>6, <1>7 DEF ProposalsInv

LEMMA ProposalsNextGood == ProposalsInv /\ [ProposalsNext]_propVars => ProposalsInv'
<1> SUFFICES ASSUME ProposalsInv, [ProposalsNext]_propVars PROVE ProposalsInv'
  OBVIOUS
<1>1. ASSUME NEW p \in Offers, ReadBlocks(p) PROVE ProposalsInv'
  <2>1. /\ knows' = knows /\ sent' = sent /\ order' = order /\ lost' = lost
        /\ edits' = edits /\ reloads' = reloads
    BY <1>1 DEF ReadBlocks
  <2> QED BY <2>1, RestKeeps
<1>2. ASSUME NEW p \in Offers, NEW draft \in Drafts, Propose(p, draft) PROVE ProposalsInv'
  BY <1>2, ProposeKeeps
<1>3. ASSUME NEW p \in Offers, AcceptOnServer(p) PROVE ProposalsInv'
  BY <1>3, AcceptOnServerKeeps
<1>4. ASSUME NEW p \in Offers, RejectOnServer(p) PROVE ProposalsInv'
  BY <1>4, RejectOnServerKeeps
<1>5. ASSUME NEW p \in Offers, NEW g \in Pages, AcceptOnPage(g, p) PROVE ProposalsInv'
  BY <1>5, AcceptOnPageKeeps
<1>6. ASSUME NEW p \in Offers, NEW g \in Pages, RejectOnPage(g, p) PROVE ProposalsInv'
  BY <1>6, RejectOnPageKeeps
<1>7. ASSUME NEW g \in Pages, DeleteBlock(g) PROVE ProposalsInv'
  BY <1>7, DeleteBlockKeeps
<1>8. ASSUME NEW g \in Pages, Receive(g) PROVE ProposalsInv'
  BY <1>8, ReceiveKeeps
<1>9. ASSUME NEW g \in Pages, Hear(g) PROVE ProposalsInv'
  BY <1>9, HearKeeps
<1>10. ASSUME NEW g \in Pages, Reload(g) PROVE ProposalsInv'
  BY <1>10, ReloadKeeps
<1>11. CASE UNCHANGED propVars
  <2>1. /\ knows' = knows /\ sent' = sent /\ order' = order /\ lost' = lost
        /\ edits' = edits /\ reloads' = reloads
    BY <1>11 DEF propVars
  <2> QED BY <2>1, RestKeeps
<1> QED BY <1>1, <1>2, <1>3, <1>4, <1>5, <1>6, <1>7, <1>8, <1>9, <1>10, <1>11 DEF ProposalsNext

\* The induction: every reachable state satisfies ProposalsInv.
THEOREM ProposalsInvariant == ProposalsSpec => []ProposalsInv
BY ProposalsInitGood, ProposalsNextGood, PTL DEF ProposalsSpec

\* What a record says was dropped had been taken away, and what it says was
\* accepted changed the text: `apply_ops' and `decide', in the server and in any
\* number of pages, for proposals of any length.
THEOREM RecordsAreTrueHolds == ProposalsSpec => []RecordsAreTrue
<1>1. ProposalsInv => RecordsAreTrue
  <2> SUFFICES ASSUME ProposalsInv PROVE DroppedWasTaken
    BY DEF RecordsAreTrue, ProposalsInv
  <2> SUFFICES ASSUME NEW r \in Replicas, NEW f \in Facts(knows[r], "decision"),
                      NEW k \in f.dropped
               PROVE  LET offer == CHOOSE o \in OfferIn(knows[r], f.about) : TRUE
                          id == offer.ops[k].id
                      IN  \/ \E j \in 1..(k - 1) : offer.ops[j].op = "delete" /\ offer.ops[j].id = id
                          \/ \E c \in Facts(knows[r], "change") \ offer.seen :
                                \E x \in c.removed : x.id = id
    BY DEF DroppedWasTaken
  <2> DEFINE offer == CHOOSE o \in OfferIn(knows[r], f.about) : TRUE
  <2>1. PICK o \in OfferIn(knows[r], f.about) : \A i \in f.dropped : Explained(o, i, knows[r])
    BY DEF ProposalsInv, AllAreExplained, AccountsFor
  <2>2. offer \in OfferIn(knows[r], f.about)
    BY <2>1
  <2> HIDE DEF offer
  <2>3. OfferIn(knows[r], f.about) \subseteq OfferIn(knows[Server], f.about)
    BY DEF ProposalsInv, OffersAreRooted, OfferIn, Facts
  <2>4. f.about \in Offers
    <3>1. f \in Fact /\ f.is = "decision"
      BY DEF ProposalsInv, PropTypeOK, Facts
    <3> QED BY <3>1 DEF Fact, ChangeFact, OfferFact, DecisionFact
  <2>5. offer = o
    BY <2>1, <2>2, <2>3, <2>4 DEF ProposalsInv, OffersAreRooted
  <2>6. Explained(offer, k, knows[r])
    BY <2>1, <2>5
  <2> QED BY <2>6 DEF Explained, offer
<1> QED BY <1>1, ProposalsInvariant, PTL

-----------------------------------------------------------------------------
(* Operations land as they are meant: cutting and joining sequences.       *)

\* The least of a set of places, when it is known.
LEMMA FirstIs ==
    ASSUME NEW places \in SUBSET Nat, NEW at \in places, \A m \in places : at <= m
    PROVE  Min(places) = at
<1>1. \A k \in places : (\A m \in places : k =< m) => k = at
  OBVIOUS
<1>2. \E k \in places : \A m \in places : k =< m
  OBVIOUS
<1> QED BY <1>1, <1>2 DEF Min

LEMMA FoundFirst ==
    ASSUME NEW T, NEW text \in Seq(T), NEW id, NEW at \in 1..Len(text),
           text[at].id = id, \A j \in 1..(at - 1) : text[j].id # id
    PROVE  Found(text, id) = at
<1> DEFINE places == {i \in 1..Len(text) : text[i].id = id}
<1>1. Found(text, id) = IF places # {} THEN Min(places) ELSE 0
  BY DEF Found, SelectInSeq
<1>2. places \in SUBSET Nat /\ at \in places /\ Len(text) \in Nat
  OBVIOUS
<1>3. \A m \in places : at <= m
  <2> SUFFICES ASSUME NEW m \in places, m < at PROVE FALSE
    BY <1>2
  <2>1. m \in 1..(at - 1) /\ text[m].id = id
    BY <1>2
  <2> QED BY <2>1
<1> HIDE DEF places
<1> QED BY <1>1, <1>2, <1>3, FirstIs

LEMMA Cut ==
    ASSUME NEW T, NEW s \in Seq(T), NEW t \in Seq(T)
    PROVE  /\ SubSeq(s \o t, 1, Len(s)) = s
           /\ SubSeq(s \o t, Len(s) + 1, Len(s \o t)) = t
<1> DEFINE u == s \o t
<1>1. /\ u \in Seq(T) /\ Len(u) = Len(s) + Len(t)
      /\ \A i \in 1..(Len(s) + Len(t)) : u[i] = IF i <= Len(s) THEN s[i] ELSE t[i - Len(s)]
  BY ConcatProperties
<1>2. Len(s) \in Nat /\ Len(t) \in Nat
  OBVIOUS
<1> HIDE DEF u
<1>3. SubSeq(u, 1, Len(s)) = s
  <2> DEFINE v == SubSeq(u, 1, Len(s))
  <2>1. v \in Seq(T) /\ Len(v) = Len(s) /\ \A i \in 1..Len(s) : v[i] = u[i]
    BY <1>1, <1>2
  <2> HIDE DEF v
  <2>2. \A i \in 1..Len(s) : v[i] = s[i]
    BY <1>1, <1>2, <2>1
  <2>3. v = s
    BY <2>1, <2>2, SeqEqual
  <2> QED BY <2>3 DEF v
<1>4. SubSeq(u, Len(s) + 1, Len(u)) = t
  <2> DEFINE v == SubSeq(u, Len(s) + 1, Len(u))
  <2>1. v \in Seq(T) /\ Len(v) = Len(t) /\ \A i \in 1..Len(t) : v[i] = u[Len(s) + i]
    BY <1>1, <1>2
  <2> HIDE DEF v
  <2>2. ASSUME NEW i \in 1..Len(t) PROVE v[i] = t[i]
    <3>1. Len(s) + i \in 1..(Len(s) + Len(t)) /\ ~(Len(s) + i <= Len(s)) /\ (Len(s) + i) - Len(s) = i
      BY <1>2
    <3>2. u[Len(s) + i] = t[(Len(s) + i) - Len(s)]
      BY <1>1, <3>1
    <3> QED BY <2>1, <3>1, <3>2
  <2>3. v = t
    BY <2>1, <2>2, SeqEqual
  <2> QED BY <2>3 DEF v
<1> QED BY <1>3, <1>4 DEF u

\* Joining three: it does not matter which two are joined first.
LEMMA Regroup ==
    ASSUME NEW T, NEW a \in Seq(T), NEW b \in Seq(T), NEW c \in Seq(T)
    PROVE  /\ a \o b \in Seq(T) /\ b \o c \in Seq(T) /\ (a \o b) \o c \in Seq(T)
           /\ (a \o b) \o c = a \o (b \o c)
<1>1. a \o b \in Seq(T) /\ b \o c \in Seq(T)
  BY ConcatProperties
<1>2. (a \o b) \o c \in Seq(T)
  BY <1>1, ConcatProperties
<1>3. (a \o b) \o c = a \o (b \o c)
  BY ConcatAssociative
<1> QED BY <1>1, <1>2, <1>3

LEMMA SplicedCut ==
    ASSUME NEW T, NEW s \in Seq(T), NEW t \in Seq(T), NEW new \in Seq(T)
    PROVE  Spliced(s \o t, Len(s), new) = (s \o new) \o t
BY Cut DEF Spliced

LEMMA WithoutCut ==
    ASSUME NEW T, NEW s \in Seq(T), NEW t \in Seq(T), NEW h \in T
    PROVE  Without((s \o <<h>>) \o t, Len(s) + 1) = s \o t
<1>1. PICK one : one = <<h>>
  OBVIOUS
<1>2. one \in Seq(T)
  BY <1>1
<1>3. Len(one) = 1 /\ Len(s) \in Nat
  BY <1>1
<1> DEFINE u == (s \o one) \o t
           begun == s \o one
           ended == one \o t
<1>4. /\ begun \in Seq(T) /\ Len(begun) = Len(s) + 1
      /\ ended \in Seq(T) /\ u = s \o ended
  <2>1. begun \in Seq(T) /\ Len(begun) = Len(s) + 1
    <3>1. begun \in Seq(T) /\ Len(begun) = Len(s) + Len(one)
      BY <1>2, ConcatProperties, Zenon
    <3> QED BY <1>3, <3>1
  <2>2. ended \in Seq(T)
    BY <1>2, ConcatProperties
  <2>3. u = s \o ended
    BY <1>2, ConcatAssociative
  <2> QED BY <2>1, <2>2, <2>3
<1> HIDE DEF begun, ended
<1>5. SubSeq(s \o ended, 1, Len(s)) = s
  BY <1>4, Cut
<1>6. SubSeq(begun \o t, Len(begun) + 1, Len(begun \o t)) = t
  BY <1>4, Cut
<1>7. u = begun \o t
  BY DEF begun
<1> HIDE DEF u
<1>8. SubSeq(u, 1, (Len(s) + 1) - 1) = s
  <2>1. (Len(s) + 1) - 1 = Len(s)
    BY <1>3
  <2> QED BY <1>4, <1>5, <2>1, Zenon
<1>9. SubSeq(u, (Len(s) + 1) + 1, Len(u)) = t
  BY <1>4, <1>6, <1>7, Zenon
<1>10. Without(u, Len(s) + 1) = s \o t
  BY <1>8, <1>9 DEF Without
<1> QED BY <1>1, <1>10 DEF u

-----------------------------------------------------------------------------
(* Flattening a sequence of sequences.                                     *)

\* The walk of FlattenSeq.
Flattens(f, T, seqs) ==
    /\ f \in [0..Len(seqs) -> Seq(T)]
    /\ f[0] = <<>>
    /\ \A k \in 0..Len(seqs) : k < Len(seqs) => f[k + 1] = f[k] \o seqs[k + 1]
    /\ FlattenSeq(seqs) = f[Len(seqs)]

LEMMA FlattenWalks ==
    ASSUME NEW T, NEW seqs \in Seq(Seq(T))
    PROVE  \E f : Flattens(f, T, seqs)
<1> DEFINE bound == Len(seqs)
           V == Seq(T)
           Is(f) == f = [i \in 1..bound |-> IF i = 1 THEN seqs[i] ELSE f[i - 1] \o seqs[i]]
           c == CHOOSE f : Is(f)
           step == [x \in (0..bound) \X V |-> IF x[1] < bound THEN x[2] \o seqs[x[1] + 1] ELSE x[2]]
           first == <<>>
<1>1. bound \in Nat /\ first \in V /\ \A k \in 1..bound : seqs[k] \in V
  OBVIOUS
<1>2. \A k \in 0..bound, v \in V : step[<<k, v>>] = IF k < bound THEN v \o seqs[k + 1] ELSE v
  OBVIOUS
<1>3. step \in [(0..bound) \X V -> V]
  <2>1. ASSUME NEW x \in (0..bound) \X V
        PROVE  (IF x[1] < bound THEN x[2] \o seqs[x[1] + 1] ELSE x[2]) \in V
    <3>1. x[1] \in 0..bound /\ x[2] \in V
      OBVIOUS
    <3>2. x[1] < bound => seqs[x[1] + 1] \in V
      BY <1>1, <3>1
    <3> QED BY <3>1, <3>2, ConcatProperties
  <2> QED BY <2>1
<1>4. FlattenSeq(seqs) = IF bound = 0 THEN seqs ELSE c[bound]
  BY DEF FlattenSeq
<1>5. bound = 0 => seqs = first
  OBVIOUS
<1>6. \A v \in V : first \o v = v
  BY ConcatEmptySeq
<1> HIDE DEF step, V, bound, first, c
<1>7. PICK f : Iterates(f, bound, V, first, step)
  BY <1>1, <1>3, RecursionExists
<1>8. f \in [0..bound -> V] /\ f[0] = first
  BY <1>7 DEF Iterates
<1>9. ASSUME NEW k \in 0..bound, k < bound PROVE f[k + 1] = f[k] \o seqs[k + 1]
  <2>1. f[k + 1] = step[<<k, f[k]>>] /\ f[k] \in V
    BY <1>7, <1>9 DEF Iterates
  <2> QED BY <1>2, <1>9, <2>1
<1>10. CASE bound = 0
  BY <1>4, <1>5, <1>8, <1>9, <1>10 DEF Flattens, bound, V, first
<1>11. CASE bound # 0
  <2> DEFINE h == [i \in 1..bound |-> f[i]]
  <2>1. ASSUME NEW i \in 1..bound PROVE h[i] = IF i = 1 THEN seqs[i] ELSE h[i - 1] \o seqs[i]
    <3>1. i - 1 \in 0..bound /\ i - 1 < bound /\ (i - 1) + 1 = i
      BY <1>1
    <3>2. h[i] = f[i - 1] \o seqs[i]
      BY <1>9, <3>1
    <3>3. CASE i = 1
      <4>1. f[i - 1] = first /\ seqs[i] \in V
        BY <1>1, <1>8, <3>3
      <4>2. h[i] = seqs[i]
        BY <1>6, <3>2, <4>1
      <4> QED BY <3>3, <4>2
    <3>4. CASE i # 1
      <4>1. h[i - 1] = f[i - 1]
        BY <1>1, <3>4
      <4> QED BY <3>2, <3>4, <4>1
    <3> QED BY <3>3, <3>4
  <2>2. \E g : Is(g)
    <3>1. h = [i \in 1..bound |-> h[i]]
      OBVIOUS
    <3> HIDE DEF h
    <3>2. Is(h)
      BY <2>1, <3>1
    <3> QED BY <3>2
  <2>3. Is(c)
    BY <2>2 DEF c
  <2> DEFINE U == {k \in 0..bound : k = 0 \/ c[k] = f[k]}
  <2>4. 0 \in U
    BY <1>1
  <2>5. ASSUME NEW k \in 0..bound, k \in U, k < bound PROVE k + 1 \in U
    <3>1. k + 1 \in 1..bound /\ k + 1 \in 0..bound /\ (k + 1) - 1 = k
      BY <1>1, <2>5
    <3>2. c[k + 1] = IF k + 1 = 1 THEN seqs[k + 1] ELSE c[k] \o seqs[k + 1]
      BY <2>3, <3>1
    <3>3. h[k + 1] = f[k + 1] /\ h[k + 1] = IF k + 1 = 1 THEN seqs[k + 1] ELSE h[k] \o seqs[k + 1]
      BY <2>1, <3>1
    <3>4. k # 0 => h[k] = f[k] /\ c[k] = f[k]
      BY <1>1, <2>5
    <3>5. c[k + 1] = f[k + 1]
      BY <1>1, <3>2, <3>3, <3>4
    <3> QED BY <3>1, <3>5
  <2> HIDE DEF U
  <2>6. \A k \in 0..bound : k \in U
    BY <1>1, <2>4, <2>5, StepByStep
  <2>7. c[bound] = f[bound]
    BY <1>1, <1>11, <2>6 DEF U
  <2> QED BY <1>4, <1>8, <1>9, <1>11, <2>7 DEF Flattens, bound, V, first
<1> QED BY <1>10, <1>11

LEMMA FlattenConcat ==
    ASSUME NEW T, NEW s \in Seq(Seq(T)), NEW t \in Seq(Seq(T))
    PROVE  FlattenSeq(s \o t) = FlattenSeq(s) \o FlattenSeq(t)
<1>0. \A a, b, c \in Seq(T) : (a \o b) \o c = a \o (b \o c)
  OBVIOUS
<1> DEFINE u == s \o t
           m == Len(s)
           n == Len(t)
<1>1. /\ u \in Seq(Seq(T)) /\ Len(u) = m + n
      /\ \A i \in 1..(m + n) : u[i] = IF i <= m THEN s[i] ELSE t[i - m]
  BY ConcatProperties
<1>2. m \in Nat /\ n \in Nat
  OBVIOUS
<1>3. (\A i \in 1..m : s[i] \in Seq(T)) /\ \A i \in 1..n : t[i] \in Seq(T)
  OBVIOUS
<1> HIDE DEF u
<1>4. PICK f : Flattens(f, T, s)
  BY FlattenWalks
<1>5. PICK g : Flattens(g, T, t)
  BY FlattenWalks
<1>6. PICK h : Flattens(h, T, u)
  BY <1>1, FlattenWalks
<1>7. /\ f \in [0..m -> Seq(T)] /\ f[0] = <<>> /\ FlattenSeq(s) = f[m]
      /\ \A k \in 0..m : k < m => f[k + 1] = f[k] \o s[k + 1]
  BY <1>4 DEF Flattens
<1>8. /\ g \in [0..n -> Seq(T)] /\ g[0] = <<>> /\ FlattenSeq(t) = g[n]
      /\ \A k \in 0..n : k < n => g[k + 1] = g[k] \o t[k + 1]
  BY <1>5 DEF Flattens
<1>9. /\ h[0] = <<>> /\ FlattenSeq(u) = h[m + n]
      /\ \A k \in 0..(m + n) : k < m + n => h[k + 1] = h[k] \o u[k + 1]
  BY <1>1, <1>6 DEF Flattens
<1> HIDE DEF m, n
<1>10. \A k \in 0..m : h[k] = f[k]
  <2> DEFINE U == {k \in 0..m : h[k] = f[k]}
  <2>1. 0 \in U
    BY <1>2, <1>7, <1>9
  <2>2. ASSUME NEW k \in 0..m, k \in U, k < m PROVE k + 1 \in U
    <3>1. k + 1 \in 0..m /\ k + 1 \in 1..(m + n) /\ k \in 0..(m + n) /\ k < m + n /\ k + 1 <= m
      BY <1>2, <2>2
    <3>2. u[k + 1] = s[k + 1] /\ h[k + 1] = h[k] \o u[k + 1] /\ f[k + 1] = f[k] \o s[k + 1]
      BY <1>1, <1>7, <1>9, <2>2, <3>1
    <3> QED BY <2>2, <3>1, <3>2
  <2> HIDE DEF U
  <2>3. \A k \in 0..m : k \in U
    BY <1>2, <2>1, <2>2, StepByStep
  <2> QED BY <2>3 DEF U
<1>11. \A k \in 0..n : h[m + k] = f[m] \o g[k]
  <2> DEFINE U == {k \in 0..n : h[m + k] = f[m] \o g[k]}
  <2>0. f[m] \in Seq(T) /\ m + 0 = m /\ h[m] = f[m]
    BY <1>2, <1>7, <1>10
  <2>1. 0 \in U
    <3>1. f[m] \o <<>> = f[m]
      BY <2>0, ConcatEmptySeq
    <3>2. h[m + 0] = f[m] \o g[0]
      BY <1>8, <2>0, <3>1, Zenon
    <3>3. 0 \in 0..n
      BY <1>2
    <3> QED BY <3>2, <3>3
  <2>2. ASSUME NEW k \in 0..n, k \in U, k < n PROVE k + 1 \in U
    <3>1. /\ k + 1 \in 0..n /\ k + 1 \in 1..n /\ m + k \in 0..(m + n) /\ m + k < m + n
          /\ (m + k) + 1 \in 1..(m + n) /\ ~((m + k) + 1 <= m) /\ ((m + k) + 1) - m = k + 1
          /\ m + (k + 1) = (m + k) + 1
      BY <1>2, <2>2
    <3>2. u[(m + k) + 1] = t[k + 1]
      BY <1>1, <3>1
    <3>3. h[(m + k) + 1] = (f[m] \o g[k]) \o t[k + 1]
      BY <1>9, <2>2, <3>1, <3>2
    <3>4. g[k] \in Seq(T) /\ t[k + 1] \in Seq(T) /\ g[k + 1] = g[k] \o t[k + 1]
      BY <1>3, <1>8, <2>2, <3>1
    <3>5. (f[m] \o g[k]) \o t[k + 1] = f[m] \o (g[k] \o t[k + 1])
      <4>1. f[m] \in Seq(T) /\ g[k] \in Seq(T) /\ t[k + 1] \in Seq(T)
        BY <2>0, <3>4
      <4>2. QED BY <1>0, <4>1
    <3>6. h[m + (k + 1)] = f[m] \o g[k + 1]
      BY <3>1, <3>3, <3>4, <3>5
    <3> QED BY <3>1, <3>6
  <2> HIDE DEF U
  <2>3. \A k \in 0..n : k \in U
    BY <1>2, <2>1, <2>2, StepByStep
  <2> QED BY <2>3 DEF U
<1>12. h[m + n] = f[m] \o g[n]
  <2>1. n \in 0..n
    BY <1>2
  <2> QED BY <1>11, <2>1, Zenon
<1> QED BY <1>7, <1>8, <1>9, <1>12 DEF u

LEMMA FlattenOne ==
    ASSUME NEW T, NEW w \in Seq(T)
    PROVE  FlattenSeq(<<w>>) = w
<1>1. PICK one : one = <<w>>
  OBVIOUS
<1>2. one \in Seq(Seq(T))
  BY <1>1
<1>3. Len(one) = 1 /\ one[1] = w
  BY <1>1
<1>4. PICK f : Flattens(f, T, one)
  BY <1>2, FlattenWalks
<1>5. f[0] = <<>> /\ f[1] = f[0] \o one[1] /\ FlattenSeq(one) = f[1]
  <2>1. /\ f[0] = <<>> /\ FlattenSeq(one) = f[Len(one)]
        /\ \A k \in 0..Len(one) : k < Len(one) => f[k + 1] = f[k] \o one[k + 1]
    BY <1>4 DEF Flattens
  <2>2. 0 \in 0..Len(one) /\ 0 < Len(one) /\ 0 + 1 = 1
    BY <1>3
  <2>3. f[0 + 1] = f[0] \o one[0 + 1]
    BY <2>1, <2>2
  <2> QED BY <1>3, <2>1, <2>2, <2>3
<1>6. <<>> \o w = w
  BY ConcatEmptySeq
<1> QED BY <1>1, <1>3, <1>5, <1>6

LEMMA FlattenSplit ==
    ASSUME NEW T, NEW s \in Seq(Seq(T)), NEW t \in Seq(Seq(T)), NEW w \in Seq(T)
    PROVE  FlattenSeq((s \o <<w>>) \o t) = (FlattenSeq(s) \o w) \o FlattenSeq(t)
<1>1. PICK one : one = <<w>>
  OBVIOUS
<1>2. one \in Seq(Seq(T))
  BY <1>1
<1>3. s \o one \in Seq(Seq(T))
  BY <1>2, ConcatProperties
<1>4. FlattenSeq((s \o one) \o t) = FlattenSeq(s \o one) \o FlattenSeq(t)
  BY <1>3, FlattenConcat
<1>5. FlattenSeq(s \o one) = FlattenSeq(s) \o FlattenSeq(one)
  BY <1>2, FlattenConcat
<1>6. FlattenSeq(one) = w
  BY <1>1, FlattenOne
<1> QED BY <1>1, <1>4, <1>5, <1>6, Zenon

\* Flattening shows what the members show, and nothing else.
LEMMA FlattenRange ==
    ASSUME NEW T, NEW seqs \in Seq(Seq(T))
    PROVE  /\ FlattenSeq(seqs) \in Seq(T)
           /\ \A x \in Range(FlattenSeq(seqs)) : \E i \in 1..Len(seqs) : x \in Range(seqs[i])
<1> DEFINE bound == Len(seqs)
<1>1. bound \in Nat /\ \A i \in 1..bound : seqs[i] \in Seq(T)
  OBVIOUS
<1>2. PICK f : Flattens(f, T, seqs)
  BY FlattenWalks
<1>3. /\ f \in [0..bound -> Seq(T)] /\ f[0] = <<>> /\ FlattenSeq(seqs) = f[bound]
      /\ \A k \in 0..bound : k < bound => f[k + 1] = f[k] \o seqs[k + 1]
  BY <1>2 DEF Flattens
<1> HIDE DEF bound
<1> DEFINE U == {k \in 0..bound : \A x \in Range(f[k]) : \E i \in 1..k : x \in Range(seqs[i])}
<1>4. 0 \in U
  <2>1. Range(<<>>) = {}
    BY DEF Range
  <2> QED BY <1>1, <1>3, <2>1
<1>5. ASSUME NEW k \in 0..bound, k \in U, k < bound PROVE k + 1 \in U
  <2>1. k + 1 \in 0..bound /\ k + 1 \in 1..bound /\ k + 1 \in 1..(k + 1) /\ \A i \in 1..k : i \in 1..(k + 1)
    BY <1>1, <1>5
  <2>2. f[k] \in Seq(T) /\ seqs[k + 1] \in Seq(T) /\ f[k + 1] = f[k] \o seqs[k + 1]
    BY <1>1, <1>3, <1>5, <2>1
  <2>3. Range(f[k + 1]) = Range(f[k]) \cup Range(seqs[k + 1])
    BY <2>2, RangeConcatenation
  <2>4. \A x \in Range(f[k]) : \E i \in 1..k : x \in Range(seqs[i])
    BY <1>5
  <2> QED BY <2>1, <2>3, <2>4
<1> HIDE DEF U
<1>6. \A k \in 0..bound : k \in U
  BY <1>1, <1>4, <1>5, StepByStep
<1>7. \A x \in Range(f[bound]) : \E i \in 1..bound : x \in Range(seqs[i])
  <2>1. bound \in U
    BY <1>1, <1>6
  <2> QED BY <2>1 DEF U
<1>8. f[bound] \in Seq(T)
  BY <1>1, <1>3
<1> QED BY <1>3, <1>7, <1>8 DEF bound

\* A sequence around one of its places.
LEMMA CutAt ==
    ASSUME NEW T, NEW s \in Seq(T), NEW i \in 1..Len(s)
    PROVE  /\ SubSeq(s, 1, i - 1) \in Seq(T) /\ SubSeq(s, i + 1, Len(s)) \in Seq(T)
           /\ s[i] \in T
           /\ s = (SubSeq(s, 1, i - 1) \o <<s[i]>>) \o SubSeq(s, i + 1, Len(s))
<1>1. Len(s) \in Nat /\ i \in Nat /\ i >= 1 /\ i <= Len(s)
  OBVIOUS
<1>2. SubSeq(s, 1, i - 1) \in Seq(T) /\ SubSeq(s, i + 1, Len(s)) \in Seq(T) /\ s[i] \in T
  BY <1>1
<1>3. SubSeq(s, 1, i) = SubSeq(s, 1, i - 1) \o <<s[i]>>
  <2>1. 1 \in 1..Len(s) /\ i \in 1..Len(s)
    BY <1>1
  <2> QED BY <2>1, SubSeqRecursiveSecond
<1>4. SubSeq(s, 1, i) \o SubSeq(s, i + 1, Len(s)) = SubSeq(s, 1, Len(s))
  <2>1. 1 \in 1..(Len(s) + 1) /\ i \in (1 - 1)..Len(s) /\ Len(s) \in i..Len(s)
    BY <1>1
  <2> QED BY <2>1, ConcatAdjacentSubSeq
<1>5. SubSeq(s, 1, Len(s)) = s
  BY SubSeqFull
<1> QED BY <1>2, <1>3, <1>4, <1>5, Zenon

\* Other ways to join what is joined here.
CutJoin(a, h, t, z) == (a \o (h \o t)) \o z = (a \o h) \o (t \o z)
DeepJoin(a, h, t, z) == (a \o (h \o t)) \o z = ((a \o h) \o t) \o z
NewJoin(a, h, n, t, z) == (a \o (h \o (n \o t))) \o z = (a \o (h \o n)) \o (t \o z)
BehindJoin(a, h, t, n, z) == (a \o (h \o (t \o n))) \o z = (((a \o h) \o t) \o n) \o z

Joins(x, y, w) == (x \o y) \o w = x \o (y \o w)

LEMMA JoinAny == \A x, y, w \in Seq(Block) : Joins(x, y, w)
<1>1. \A x, y, w \in Seq(Block) : (x \o y) \o w = x \o (y \o w)
  OBVIOUS
<1> QED BY <1>1 DEF Joins

LEMMA JoinBoth == \A x, y \in Seq(Block) : x \o y \in Seq(Block)
  OBVIOUS

LEMMA JoinCut == \A a, h, t, z \in Seq(Block) : CutJoin(a, h, t, z)
<1> TAKE a, h, t, z \in Seq(Block)
<1>1. Joins(a, h, t)
  BY JoinAny
<1>2. Joins(a \o h, t, z)
  BY JoinAny, JoinBoth
<1> QED BY <1>1, <1>2, Zenon DEF Joins, CutJoin

LEMMA JoinDeep == \A a, h, t, z \in Seq(Block) : DeepJoin(a, h, t, z)
<1> TAKE a, h, t, z \in Seq(Block)
<1>1. Joins(a, h, t)
  BY JoinAny
<1> QED BY <1>1, Zenon DEF Joins, DeepJoin

LEMMA JoinNew == \A a, h, n, t, z \in Seq(Block) : NewJoin(a, h, n, t, z)
<1> TAKE a, h, n, t, z \in Seq(Block)
<1>1. h \o n \in Seq(Block)
  BY JoinBoth
<1>2. a \o (h \o n) \in Seq(Block)
  BY <1>1, JoinBoth
<1>3. Joins(h, n, t)
  BY JoinAny
<1>4. Joins(a, h \o n, t)
  BY <1>1, JoinAny
<1>5. Joins(a \o (h \o n), t, z)
  BY <1>2, JoinAny
<1> QED BY <1>3, <1>4, <1>5, Zenon DEF Joins, NewJoin

LEMMA JoinBehind == \A a, h, t, n, z \in Seq(Block) : BehindJoin(a, h, t, n, z)
<1> TAKE a, h, t, n, z \in Seq(Block)
<1>1. h \o t \in Seq(Block)
  BY JoinBoth
<1>2. Joins(h, t, n)
  BY JoinAny
<1>3. Joins(a, h \o t, n)
  BY <1>1, JoinAny
<1>4. Joins(a, h, t)
  BY JoinAny
<1> QED BY <1>2, <1>3, <1>4, Zenon DEF Joins, BehindJoin

-----------------------------------------------------------------------------
(* Blocks with their tails, and the text they tell.                        *)

Group == [head : {<<>>} \cup {<<b>> : b \in Block}, tail : Seq(Block)]

Parts(groups) == [i \in DOMAIN groups |-> groups[i].head \o groups[i].tail]

HeadIs(group, id) == group.head # <<>> /\ group.head[1].id = id

LEMMA GroupIs ==
    ASSUME NEW g \in Group
    PROVE  /\ g.head \in Seq(Block) /\ g.tail \in Seq(Block) /\ g.head \o g.tail \in Seq(Block)
           /\ g = [head |-> g.head, tail |-> g.tail]
           /\ g.head = <<>> \/ \E h \in Block : g.head = <<h>>
           /\ \A x \in Range(g.head \o g.tail) : HeadIs(g, x.id) \/ x \in Range(g.tail)
<1>1. /\ g = [head |-> g.head, tail |-> g.tail]
      /\ g.head = <<>> \/ \E h \in Block : g.head = <<h>>
      /\ g.tail \in Seq(Block)
  BY DEF Group
<1>2. g.head \in Seq(Block)
  <2>1. <<>> \in Seq(Block)
    OBVIOUS
  <2>2. \A h \in Block : <<h>> \in Seq(Block)
    OBVIOUS
  <2> QED BY <1>1, <2>1, <2>2
<1>3. g.head \o g.tail \in Seq(Block) /\ Range(g.head \o g.tail) = Range(g.head) \cup Range(g.tail)
  BY <1>1, <1>2, ConcatProperties, RangeConcatenation
<1>4. ASSUME NEW x \in Range(g.head) PROVE HeadIs(g, x.id)
  <2>1. CASE g.head = <<>>
    <3>1. Range(<<>>) = {}
      BY DEF Range
    <3> QED BY <1>4, <2>1, <3>1
  <2>2. CASE \E h \in Block : g.head = <<h>>
    <3>1. PICK h \in Block : g.head = <<h>>
      BY <2>2
    <3>2. Len(g.head) = 1 /\ g.head[1] = h /\ Range(g.head) = {h}
      BY <3>1, OneIs
    <3>3. g.head # <<>>
      BY <3>2
    <3> QED BY <1>4, <3>2, <3>3 DEF HeadIs
  <2> QED BY <1>1, <2>1, <2>2
<1> QED BY <1>1, <1>2, <1>3, <1>4

LEMMA PartsAre ==
    ASSUME NEW groups \in Seq(Group)
    PROVE  /\ Parts(groups) \in Seq(Seq(Block)) /\ Len(Parts(groups)) = Len(groups)
           /\ \A i \in 1..Len(groups) : Parts(groups)[i] = groups[i].head \o groups[i].tail
<1> DEFINE all == Parts(groups)
           N == Len(groups)
<1>1. DOMAIN groups = 1..N /\ N \in Nat /\ \A i \in 1..N : groups[i] \in Group
  OBVIOUS
<1>2. \A i \in 1..N : groups[i].head \o groups[i].tail \in Seq(Block)
  BY <1>1, GroupIs
<1>3. all = [i \in 1..N |-> groups[i].head \o groups[i].tail]
  BY <1>1 DEF Parts
<1>4. \A i \in 1..N : all[i] = groups[i].head \o groups[i].tail
  BY <1>3
<1>5. all \in [1..N -> Seq(Block)]
  BY <1>2, <1>3
<1> HIDE DEF all
<1>6. all \in Seq(Seq(Block)) /\ Len(all) = N
  BY <1>1, <1>5
<1> QED BY <1>4, <1>6 DEF all

\* How the text reads around a group.
Splits(before, behind, groups, i) ==
    /\ before \in Seq(Block) /\ behind \in Seq(Block)
    /\ \A x \in Range(before) : \E j \in 1..(i - 1) : x \in Range(groups[j].head \o groups[j].tail)
    /\ \A g \in Group : Retold([groups EXCEPT ![i] = g]) = (before \o (g.head \o g.tail)) \o behind
    /\ Retold(groups) = (before \o (groups[i].head \o groups[i].tail)) \o behind

LEMMA ToldSplits ==
    ASSUME NEW groups \in Seq(Group), NEW i \in 1..Len(groups)
    PROVE  \E before, behind : Splits(before, behind, groups, i)
<1> DEFINE all == Parts(groups)
           s == SubSeq(all, 1, i - 1)
           t == SubSeq(all, i + 1, Len(all))
           before == FlattenSeq(s)
           behind == FlattenSeq(t)
<1>1. /\ all \in Seq(Seq(Block)) /\ Len(all) = Len(groups) /\ Len(groups) \in Nat
      /\ \A j \in 1..Len(groups) : all[j] = groups[j].head \o groups[j].tail
  <2>1. Len(groups) \in Nat
    OBVIOUS
  <2>2. all \in Seq(Seq(Block)) /\ Len(all) = Len(groups)
    BY PartsAre
  <2>3. \A j \in 1..Len(groups) : all[j] = groups[j].head \o groups[j].tail
    BY PartsAre
  <2> QED BY <2>1, <2>2, <2>3
<1>2. i \in Nat /\ i >= 1 /\ i <= Len(groups) /\ groups[i] \in Group
  OBVIOUS
<1> HIDE DEF all
<1>3. s \in Seq(Seq(Block)) /\ t \in Seq(Seq(Block)) /\ i \in 1..Len(all)
  <2>1. i \in 1..Len(all)
    BY <1>1
  <2> QED BY <1>1, <2>1, CutAt
<1>4. before \in Seq(Block) /\ behind \in Seq(Block)
  <2> HIDE DEF s, t
  <2> QED BY <1>3, FlattenRange
<1>5. ASSUME NEW x \in Range(before)
      PROVE  \E j \in 1..(i - 1) : x \in Range(groups[j].head \o groups[j].tail)
  <2>1. Len(s) = i - 1 /\ \A j \in 1..(i - 1) : s[j] = all[j]
    BY <1>1, <1>2
  <2> HIDE DEF s
  <2>2. PICK j \in 1..Len(s) : x \in Range(s[j])
    BY <1>3, <1>5, FlattenRange
  <2>3. j \in 1..(i - 1) /\ s[j] = all[j] /\ j \in 1..Len(groups)
    BY <1>2, <2>1, <2>2
  <2> QED BY <1>1, <2>2, <2>3
<1>6. ASSUME NEW g \in Group, NEW other, other = [groups EXCEPT ![i] = g]
      PROVE  Retold(other) = (before \o (g.head \o g.tail)) \o behind
  <2> DEFINE p == Parts(other)
             w == g.head \o g.tail
  <2>1. other \in Seq(Group) /\ Len(other) = Len(groups)
        /\ \A j \in 1..Len(groups) : other[j] = IF j = i THEN g ELSE groups[j]
    BY <1>6, ExceptSeq
  <2>2. /\ p \in Seq(Seq(Block)) /\ Len(p) = Len(groups)
        /\ \A j \in 1..Len(groups) : p[j] = other[j].head \o other[j].tail
    BY <2>1, PartsAre
  <2>3. w \in Seq(Block) /\ p[i] = w
    BY <2>1, <2>2, GroupIs
  <2>4. \A j \in 1..Len(groups) : j # i => p[j] = all[j]
    BY <1>1, <2>1, <2>2
  <2> HIDE DEF p, w
  <2>5. SubSeq(p, 1, i - 1) = s
    <3> DEFINE v == SubSeq(p, 1, i - 1)
    <3>1. v \in Seq(Seq(Block)) /\ Len(v) = i - 1 /\ \A j \in 1..(i - 1) : v[j] = p[j]
      BY <1>2, <2>2
    <3>2. Len(s) = i - 1 /\ \A j \in 1..(i - 1) : s[j] = all[j]
      BY <1>1, <1>2
    <3>3. \A j \in 1..(i - 1) : j \in 1..Len(groups) /\ j # i
      BY <1>2
    <3> HIDE DEF v, s
    <3>4. v = s
      BY <1>3, <2>4, <3>1, <3>2, <3>3, SeqEqual
    <3> QED BY <3>4 DEF v
  <2>6. SubSeq(p, i + 1, Len(p)) = t
    <3> DEFINE v == SubSeq(p, i + 1, Len(p))
               m == Len(groups) - i
    <3>1. v \in Seq(Seq(Block)) /\ Len(v) = m /\ \A j \in 1..m : v[j] = p[i + j]
      BY <1>1, <1>2, <2>2
    <3>2. Len(t) = m /\ \A j \in 1..m : t[j] = all[i + j]
      BY <1>1, <1>2
    <3>3. \A j \in 1..m : i + j \in 1..Len(groups) /\ i + j # i
      BY <1>1, <1>2
    <3> HIDE DEF v, t, m
    <3>4. v = t
      BY <1>3, <2>4, <3>1, <3>2, <3>3, SeqEqual
    <3> QED BY <3>4 DEF v
  <2>7. p = (SubSeq(p, 1, i - 1) \o <<p[i]>>) \o SubSeq(p, i + 1, Len(p))
    <3>1. i \in 1..Len(p)
      BY <2>2
    <3> QED BY <2>2, <3>1, CutAt
  <2>8. p = (s \o <<w>>) \o t
    BY <2>3, <2>5, <2>6, <2>7, Zenon
  <2>9. FlattenSeq((s \o <<w>>) \o t) = (before \o w) \o behind
    <3> HIDE DEF s, t
    <3> QED BY <1>3, <2>3, FlattenSplit
  <2>10. Retold(other) = FlattenSeq(p)
    BY DEF Retold, p, Parts
  <2> QED BY <2>8, <2>9, <2>10 DEF w
<1> HIDE DEF before, behind
<1>7. \A g \in Group : Retold([groups EXCEPT ![i] = g]) = (before \o (g.head \o g.tail)) \o behind
  BY <1>6
<1>8. [groups EXCEPT ![i] = groups[i]] = groups
  BY <1>2
<1>9. Retold(groups) = (before \o (groups[i].head \o groups[i].tail)) \o behind
  BY <1>2, <1>7, <1>8
<1> QED BY <1>4, <1>5, <1>7, <1>9 DEF Splits

-----------------------------------------------------------------------------
(* The groups that an operation leaves.                                    *)

\* The blocks behind a block are none that an operation can name.
LoneTails(groups) ==
    \A i \in 1..Len(groups) : \A x \in Range(groups[i].tail) : x.id \notin Blocks

\* The first group whose block has the id.
Leads(groups, i, id) == HeadIs(groups[i], id) /\ \A j \in 1..(i - 1) : ~HeadIs(groups[j], id)

\* `trailing' counts what is behind the block that an operation on b meets;
\* behind others with its id nothing was put.
Measured(groups, trailing) ==
    \A i \in 1..Len(groups), b \in Blocks :
        HeadIs(groups[i], b) =>
          Len(groups[i].tail) = IF Leads(groups, i, b) THEN trailing[b] ELSE 0

\* What a group is after an operation on its block: v blocks behind it.
Amends(g, id, v) ==
    /\ g \in Group /\ v \in Nat
    /\ \A x \in Range(g.tail) : x.id \notin Blocks
    /\ (g.head = <<>> /\ v = 0) \/ (HeadIs(g, id) /\ Len(g.tail) = v)

LEMMA Regrouped ==
    ASSUME NEW groups \in Seq(Group), NEW i \in 1..Len(groups), NEW id \in Blocks,
           NEW trailing \in [Blocks -> Nat], NEW g, NEW v, Amends(g, id, v),
           LoneTails(groups), Measured(groups, trailing), Leads(groups, i, id)
    PROVE  /\ [groups EXCEPT ![i] = g] \in Seq(Group)
           /\ LoneTails([groups EXCEPT ![i] = g])
           /\ Measured([groups EXCEPT ![i] = g], [trailing EXCEPT ![id] = v])
<1> DEFINE other == [groups EXCEPT ![i] = g]
           count == [trailing EXCEPT ![id] = v]
<1>1. g \in Group /\ v \in Nat /\ i \in Nat /\ Len(groups) \in Nat
  BY DEF Amends
<1>2. /\ other \in Seq(Group) /\ Len(other) = Len(groups)
      /\ \A j \in 1..Len(groups) : other[j] = IF j = i THEN g ELSE groups[j]
  BY <1>1, ExceptSeq
<1>3. \A b \in Blocks : count[b] = IF b = id THEN v ELSE trailing[b]
  OBVIOUS
<1> HIDE DEF other, count
<1>4. LoneTails(other)
  BY <1>2 DEF LoneTails, Amends
<1>5. \A b \in Blocks : HeadIs(groups[i], b) => b = id
  BY DEF Leads, HeadIs
<1>6. \A b \in Blocks : HeadIs(g, b) => b = id
  BY DEF Amends, HeadIs
<1>7. ASSUME NEW j \in 1..Len(other), NEW b \in Blocks, HeadIs(other[j], b)
      PROVE  Len(other[j].tail) = IF Leads(other, j, b) THEN count[b] ELSE 0
  <2>1. j \in 1..Len(groups) /\ j \in Nat /\ \A m \in 1..(j - 1) : m \in 1..Len(groups)
    BY <1>1, <1>2
  <2>2. CASE j = i
    <3>1. other[j] = g /\ b = id
      BY <1>2, <1>6, <1>7, <2>1, <2>2
    <3>2. Len(g.tail) = v
      BY <1>7, <3>1 DEF Amends, HeadIs
    <3>3. \A m \in 1..(j - 1) : other[m] = groups[m] /\ ~HeadIs(groups[m], id)
      BY <1>1, <1>2, <2>1, <2>2 DEF Leads
    <3>4. Leads(other, j, b)
      BY <1>7, <3>1, <3>3 DEF Leads
    <3> QED BY <1>3, <3>1, <3>2, <3>4
  <2>3. CASE j # i /\ b # id
    <3>1. other[j] = groups[j] /\ count[b] = trailing[b]
      BY <1>2, <1>3, <2>1, <2>3
    <3>2. \A m \in 1..(j - 1) : HeadIs(other[m], b) <=> HeadIs(groups[m], b)
      <4> TAKE m \in 1..(j - 1)
      <4>1. other[m] = IF m = i THEN g ELSE groups[m]
        BY <1>2, <2>1
      <4>2. CASE m = i
        BY <1>5, <1>6, <2>3, <4>1, <4>2
      <4>3. CASE m # i
        BY <4>1, <4>3
      <4> QED BY <4>2, <4>3
    <3>3. Leads(other, j, b) <=> Leads(groups, j, b)
      BY <3>1, <3>2 DEF Leads
    <3>4. Len(groups[j].tail) = IF Leads(groups, j, b) THEN trailing[b] ELSE 0
      BY <1>7, <2>1, <3>1 DEF Measured
    <3> QED BY <3>1, <3>3, <3>4
  <2>4. CASE j # i /\ b = id
    <3>1. other[j] = groups[j] /\ count[b] = v
      BY <1>2, <1>3, <2>1, <2>4
    <3>2. HeadIs(groups[i], id) /\ \A m \in 1..(i - 1) : ~HeadIs(groups[m], id)
      BY DEF Leads
    <3>3. i \in 1..(j - 1)
      <4>1. j \notin 1..(i - 1)
        BY <1>7, <2>4, <3>1, <3>2
      <4> QED BY <1>1, <2>1, <2>4, <4>1
    <3>4. ~Leads(groups, j, id)
      BY <3>2, <3>3 DEF Leads
    <3>5. Len(groups[j].tail) = 0
      BY <1>7, <2>1, <2>4, <3>1, <3>4 DEF Measured
    <3>6. CASE v = 0
      BY <2>4, <3>1, <3>5, <3>6
    <3>7. CASE HeadIs(g, id)
      <4>1. other[i] = g
        BY <1>2
      <4>2. ~Leads(other, j, b)
        BY <2>4, <3>3, <3>7, <4>1 DEF Leads
      <4> QED BY <3>1, <3>5, <4>2
    <3> QED BY <3>6, <3>7 DEF Amends
  <2> QED BY <2>2, <2>3, <2>4
<1>8. Measured(other, count)
  BY <1>7 DEF Measured
<1> QED BY <1>2, <1>4, <1>8 DEF other, count

\* The group an operation on id changes.
LEMMA NamedIs ==
    ASSUME NEW groups \in Seq(Group), NEW id
    PROVE  /\ \A i \in 1..Len(groups) : Leads(groups, i, id) => Named(groups, id) = i
           /\ \/ \E i \in 1..Len(groups) : Leads(groups, i, id)
              \/ Named(groups, id) = 0 /\ \A i \in 1..Len(groups) : ~HeadIs(groups[i], id)
<1> DEFINE places == {i \in 1..Len(groups) : HeadIs(groups[i], id)}
<1>1. Named(groups, id) = IF places # {} THEN Min(places) ELSE 0
  BY DEF Named, SelectInSeq, HeadIs
<1>2. places \in SUBSET Nat /\ Len(groups) \in Nat
  OBVIOUS
<1>3. ASSUME NEW i \in 1..Len(groups), Leads(groups, i, id) PROVE Named(groups, id) = i
  <2>1. i \in places
    BY <1>3 DEF Leads
  <2>2. \A m \in places : i <= m
    <3> SUFFICES ASSUME NEW m \in places, m < i PROVE FALSE
      BY <1>2
    <3>1. m \in 1..(i - 1)
      BY <1>2
    <3> QED BY <1>3, <3>1 DEF Leads
  <2> HIDE DEF places
  <2>3. Min(places) = i
    BY <1>2, <2>1, <2>2, FirstIs
  <2> QED BY <1>1, <2>1, <2>3
<1>4. CASE places = {}
  BY <1>1, <1>3, <1>4
<1>5. CASE places # {}
  <2> HIDE DEF places
  <2>1. PICK i \in places : \A m \in places : i <= m
    BY <1>2, <1>5, LowestExists
  <2>2. i \in 1..Len(groups) /\ HeadIs(groups[i], id)
    BY <2>1 DEF places
  <2>3. ASSUME NEW j \in 1..(i - 1) PROVE ~HeadIs(groups[j], id)
    <3>1. j \notin places /\ j \in 1..Len(groups)
      BY <1>2, <2>1, <2>2
    <3> QED BY <3>1 DEF places
  <2>4. Leads(groups, i, id)
    BY <2>2, <2>3 DEF Leads
  <2> QED BY <1>3, <2>2, <2>4
<1> QED BY <1>4, <1>5

\* The blocks an operation brings, one by one.
LEMMA BroughtHeads ==
    ASSUME NEW p \in Offers, NEW r \in Replicas, NEW k \in Nat, NEW op \in Op, reloads \in Nat
    PROVE  /\ Brought(p, r, k, op) \in Seq(Block) /\ Len(Brought(p, r, k, op)) = op.nodes
           /\ op.nodes \in Nat /\ op.nodes >= 1
           /\ \A i \in 1..op.nodes : Brought(p, r, k, op)[i].of = <<p, r, reloads, k, i>>
           /\ op.op = "replace" => Brought(p, r, k, op)[1].id = op.id
           /\ \A i \in 1..op.nodes :
                (i = 1 /\ op.op = "replace") \/ Brought(p, r, k, op)[i].id \notin Blocks
<1> DEFINE b == Brought(p, r, k, op)
<1>1. op.nodes \in Nat /\ op.nodes >= 1
  BY DEF Op
<1>2. b = [i \in 1..op.nodes |-> IF op.op = "replace" /\ i = 1
             THEN NewBlock(p, r, k, i, op.id) ELSE Minted(p, r, k, i)]
  BY DEF Brought
<1>3. b \in Seq(Block)
  BY BroughtIs
<1>4. Len(b) = op.nodes
  <2>1. DOMAIN b = 1..op.nodes /\ DOMAIN b = 1..Len(b) /\ Len(b) \in Nat
    <3>1. DOMAIN b = 1..op.nodes
      BY <1>2
    <3> HIDE DEF b
    <3> QED BY <1>3, <3>1
  <2> HIDE DEF b
  <2> QED BY <1>1, <2>1
<1>5. \A i \in Nat : <<p, r, reloads, k, i>> \in Identity
  BY DEF Identity, Life
<1>6. \A x \in Identity : x \notin Blocks
  BY ProposalsAssumption DEF ProposalsAssumption, Identity, Life
<1>7. \A i \in Nat : Minted(p, r, k, i).id \notin Blocks /\ Minted(p, r, k, i).of = <<p, r, reloads, k, i>>
  BY <1>5, <1>6 DEF Minted, NewBlock
<1>8. \A i \in Nat : /\ NewBlock(p, r, k, i, op.id).id = op.id
                     /\ NewBlock(p, r, k, i, op.id).of = <<p, r, reloads, k, i>>
  BY DEF NewBlock
<1> HIDE DEF b
<1>9. \A i \in 1..op.nodes : b[i].of = <<p, r, reloads, k, i>>
  BY <1>2, <1>7, <1>8
<1>10. op.op = "replace" => b[1].id = op.id
  BY <1>1, <1>2, <1>8
<1>11. \A i \in 1..op.nodes : (i = 1 /\ op.op = "replace") \/ b[i].id \notin Blocks
  BY <1>2, <1>7
<1> QED BY <1>1, <1>3, <1>4, <1>9, <1>10, <1>11 DEF b

LEMMA BroughtLong ==
    ASSUME NEW p \in Offers, NEW r \in Replicas, reloads \in Nat
    PROVE  \A k \in Nat : \A op \in Op :
             Brought(p, r, k, op) \in Seq(Block) /\ Len(Brought(p, r, k, op)) = op.nodes
<1> TAKE k \in Nat
<1> TAKE op \in Op
<1>1. Brought(p, r, k, op) \in Seq(Block)
  BY BroughtIs
<1>2. Len(Brought(p, r, k, op)) = op.nodes
  BY BroughtHeads
<1> QED BY <1>1, <1>2

LEMMA BroughtIds ==
    ASSUME NEW p \in Offers, NEW r \in Replicas, reloads \in Nat
    PROVE  \A k \in Nat : \A op \in Op :
             /\ op.nodes \in Nat /\ op.nodes >= 1
             /\ op.op = "replace" => Brought(p, r, k, op)[1].id = op.id
             /\ \A i \in 1..op.nodes :
                  (i = 1 /\ op.op = "replace") \/ Brought(p, r, k, op)[i].id \notin Blocks
<1> TAKE k \in Nat
<1> TAKE op \in Op
<1>1. op.nodes \in Nat /\ op.nodes >= 1
  BY BroughtHeads
<1>2. op.op = "replace" => Brought(p, r, k, op)[1].id = op.id
  BY BroughtHeads
<1>3. \A i \in 1..op.nodes :
         (i = 1 /\ op.op = "replace") \/ Brought(p, r, k, op)[i].id \notin Blocks
  BY BroughtHeads
<1> QED BY <1>1, <1>2, <1>3

\* What is told is in some group.
LEMMA ToldIs ==
    ASSUME NEW groups \in Seq(Group)
    PROVE  /\ Retold(groups) \in Seq(Block)
           /\ \A x \in Range(Retold(groups)) : \E i \in 1..Len(groups) :
                 x \in Range(groups[i].head \o groups[i].tail)
<1> DEFINE parts == Parts(groups)
<1>1. parts \in Seq(Seq(Block)) /\ Len(parts) = Len(groups)
  BY PartsAre
<1>2. \A i \in 1..Len(groups) : parts[i] = groups[i].head \o groups[i].tail
  BY PartsAre
<1>3. Retold(groups) = FlattenSeq(parts)
  BY DEF Retold, Parts
<1> HIDE DEF parts
<1>4. FlattenSeq(parts) \in Seq(Block)
  BY <1>1, FlattenRange
<1>5. \A x \in Range(FlattenSeq(parts)) : \E i \in 1..Len(parts) : x \in Range(parts[i])
  BY <1>1, FlattenRange
<1> QED BY <1>1, <1>2, <1>3, <1>4, <1>5

\* If nobody leads with an id, no block told has it.
LEMMA NobodyFound ==
    ASSUME NEW groups \in Seq(Group), LoneTails(groups), NEW id \in Blocks,
           \A i \in 1..Len(groups) : ~HeadIs(groups[i], id)
    PROVE  Found(Retold(groups), id) = 0
<1> DEFINE text == Retold(groups)
           pos == Found(text, id)
<1>1. text \in Seq(Block)
  BY ToldIs
<1>2. ASSUME NEW x \in Range(text) PROVE x.id # id
  <2>1. PICK i \in 1..Len(groups) : x \in Range(groups[i].head \o groups[i].tail)
    BY ToldIs
  <2>2. groups[i] \in Group
    OBVIOUS
  <2>3. HeadIs(groups[i], x.id) \/ x \in Range(groups[i].tail)
    BY <2>1, <2>2, GroupIs
  <2> QED BY <2>3 DEF LoneTails
<1> HIDE DEF text
<1>3. pos \in 0..Len(text) /\ (pos # 0 => text[pos].id = id)
  BY <1>1, FoundIs
<1>4. pos # 0 => text[pos] \in Range(text)
  <2>1. pos # 0 => pos \in 1..Len(text)
    BY <1>1, <1>3
  <2> QED BY <1>1, <2>1, RangeIs
<1> QED BY <1>2, <1>3, <1>4 DEF text

\* Where the text reads the block that leads with an id, and what is around it.
Reads(before, h, t, behind, groups, i, id) ==
    /\ Splits(before, behind, groups, i)
    /\ h \in Block /\ t \in Seq(Block) /\ h.id = id
    /\ groups[i].head = <<h>> /\ groups[i].tail = t
    /\ Found(Retold(groups), id) = Len(before) + 1

LEMMA LeaderFound ==
    ASSUME NEW groups \in Seq(Group), LoneTails(groups), NEW id \in Blocks,
           NEW i \in 1..Len(groups), Leads(groups, i, id)
    PROVE  \E before, h, t, behind : Reads(before, h, t, behind, groups, i, id)
<1>1. PICK before, behind : Splits(before, behind, groups, i)
  BY ToldSplits
<1>2. before \in Seq(Block) /\ behind \in Seq(Block)
  BY <1>1 DEF Splits
<1>3. groups[i] \in Group
  OBVIOUS
<1> DEFINE t == groups[i].tail
<1>4. PICK h \in Block : groups[i].head = <<h>>
  BY <1>3, GroupIs DEF Leads, HeadIs
<1>5. h.id = id
  BY <1>4 DEF Leads, HeadIs
<1>6. t \in Seq(Block)
  BY <1>3, GroupIs
<1> HIDE DEF t
<1>7. PICK one : one = <<h>>
  OBVIOUS
<1>8. one \in Seq(Block) /\ Len(one) = 1 /\ one[1] = h
  BY <1>7, OneIs
<1>9. Retold(groups) = (before \o (one \o t)) \o behind
  BY <1>1, <1>4, <1>7 DEF Splits, t
<1>10. Retold(groups) = (before \o one) \o (t \o behind)
  <2>1. CutJoin(before, one, t, behind)
    BY <1>2, <1>6, <1>8, JoinCut
  <2> QED BY <1>9, <2>1, Zenon DEF CutJoin
<1> DEFINE begun == before \o one
           ended == t \o behind
           text == begun \o ended
           at == Len(before) + 1
<1>11. /\ begun \in Seq(Block) /\ Len(begun) = at /\ ended \in Seq(Block)
       /\ Len(before) \in Nat /\ Len(ended) \in Nat
  <2>1. begun \in Seq(Block) /\ ended \in Seq(Block) /\ Len(begun) = Len(before) + Len(one)
    BY <1>2, <1>6, <1>8, ConcatProperties
  <2> HIDE DEF begun, ended
  <2> QED BY <1>2, <1>8, <2>1
<1>12. \A j \in 1..at : begun[j] = IF j <= Len(before) THEN before[j] ELSE one[j - Len(before)]
  <2>1. \A j \in 1..(Len(before) + Len(one)) :
           begun[j] = IF j <= Len(before) THEN before[j] ELSE one[j - Len(before)]
    BY <1>2, <1>8, ConcatProperties
  <2> HIDE DEF begun
  <2> QED BY <1>8, <2>1
<1> HIDE DEF begun, ended
<1>13. /\ text \in Seq(Block) /\ Len(text) = at + Len(ended)
       /\ \A j \in 1..(at + Len(ended)) : text[j] = IF j <= at THEN begun[j] ELSE ended[j - at]
  <2>1. /\ text \in Seq(Block) /\ Len(text) = Len(begun) + Len(ended)
        /\ \A j \in 1..(Len(begun) + Len(ended)) :
             text[j] = IF j <= Len(begun) THEN begun[j] ELSE ended[j - Len(begun)]
    BY <1>11, ConcatProperties
  <2> HIDE DEF text
  <2> QED BY <1>11, <2>1
<1> HIDE DEF text
<1>14. at \in 1..Len(text) /\ text[at] = h
  <2>1. at \in 1..Len(text) /\ at \in 1..at /\ at \in 1..(at + Len(ended)) /\ ~(at <= Len(before))
    BY <1>11, <1>13
  <2>2. text[at] = begun[at]
    BY <1>13, <2>1
  <2>3. begun[at] = one[at - Len(before)]
    BY <1>12, <2>1
  <2>4. at - Len(before) = 1
    BY <1>11
  <2> QED BY <1>8, <2>1, <2>2, <2>3, <2>4
<1>15. ASSUME NEW j \in 1..(at - 1) PROVE text[j].id # id
  <2>1. j \in 1..at /\ j \in 1..(at + Len(ended)) /\ j <= at /\ j <= Len(before) /\ j \in 1..Len(before)
    BY <1>11
  <2>2. text[j] = before[j]
    BY <1>12, <1>13, <2>1
  <2>3. before[j] \in Range(before)
    BY <1>2, <2>1, RangeIs
  <2>4. PICK m \in 1..(i - 1) : before[j] \in Range(groups[m].head \o groups[m].tail)
    BY <1>1, <2>3 DEF Splits
  <2>5. m \in 1..Len(groups) /\ groups[m] \in Group
    OBVIOUS
  <2>6. HeadIs(groups[m], before[j].id) \/ before[j] \in Range(groups[m].tail)
    BY <2>4, <2>5, GroupIs
  <2> QED BY <2>2, <2>5, <2>6 DEF Leads, LoneTails
<1>16. Found(text, id) = at
  BY <1>5, <1>13, <1>14, <1>15, FoundFirst
<1>17. Retold(groups) = text
  BY <1>10 DEF text, begun, ended
<1>18. Reads(before, h, t, behind, groups, i, id)
  BY <1>1, <1>4, <1>5, <1>6, <1>16, <1>17 DEF Reads, t
<1> QED BY <1>18

\* The groups tell the text that is being changed.
Tells(groups, s) ==
    /\ groups \in Seq(Group) /\ s \in Applying /\ s.text = Retold(groups)
    /\ LoneTails(groups) /\ Measured(groups, s.trailing)

LEMMA OneGroup == \A h \in Block, t \in Seq(Block) :
    [head |-> <<h>>, tail |-> t] \in Group /\ [head |-> <<>>, tail |-> t] \in Group
BY DEF Group

\* What an operation that finds its block makes of text and count.
Does(op, s, new, n) ==
    LET pos == Found(s.text, op.id)
        carried == Carried(s.trailing, op.id)
        behind == pos + carried
    IN  /\ op.op = "delete" => /\ n.text = Without(s.text, pos)
                               /\ n.trailing = [s.trailing EXCEPT ![op.id] = 0]
        /\ op.op = "replace" =>
             /\ n.text = Spliced(Without(s.text, pos), pos - 1, new)
             /\ n.trailing = [s.trailing EXCEPT ![op.id] = carried + op.nodes - 1]
        /\ op.op = "insert_after" =>
             /\ n.text = Spliced(s.text, IF behind > Len(s.text) THEN Len(s.text) ELSE behind, new)
             /\ n.trailing = [s.trailing EXCEPT ![op.id] = carried + op.nodes]

LEMMA StepDoes ==
    ASSUME NEW p \in Offers, NEW r \in Replicas, NEW ops \in Seq(Op), NEW s \in Applying,
           NEW k \in 1..Len(ops), Found(s.text, ops[k].id) # 0
    PROVE  Does(ops[k], s, Brought(p, r, k, ops[k]), Step(p, r, ops, s, k))
<1> DEFINE op == ops[k]
           pos == Found(s.text, op.id)
           new == Brought(p, r, k, op)
           carried == Carried(s.trailing, op.id)
           behind == pos + carried
           n == Step(p, r, ops, s, k)
<1>1. s = [text |-> s.text, trailing |-> s.trailing, skipped |-> s.skipped]
  BY DEF Applying
<1>2. n = IF pos = 0
          THEN [s EXCEPT !.skipped = @ \cup {k}]
          ELSE IF op.op = "delete"
          THEN [s EXCEPT !.text = Without(@, pos), !.trailing[op.id] = 0]
          ELSE IF op.op = "replace"
          THEN [s EXCEPT !.text = Spliced(Without(@, pos), pos - 1, new),
                         !.trailing[op.id] = carried + op.nodes - 1]
          ELSE [s EXCEPT !.text = Spliced(@, IF behind > Len(@) THEN Len(@) ELSE behind, new),
                         !.trailing[op.id] = carried + op.nodes]
  BY DEF Step
<1>3. pos # 0
  OBVIOUS
<1> HIDE DEF op, pos, new, carried, n
<1>4. op.op = "delete" => /\ n.text = Without(s.text, pos)
                          /\ n.trailing = [s.trailing EXCEPT ![op.id] = 0]
  BY <1>1, <1>2, <1>3
<1>5. op.op = "replace" =>
        /\ n.text = Spliced(Without(s.text, pos), pos - 1, new)
        /\ n.trailing = [s.trailing EXCEPT ![op.id] = carried + op.nodes - 1]
  BY <1>1, <1>2, <1>3
<1>6. op.op = "insert_after" =>
        /\ n.text = Spliced(s.text, IF behind > Len(s.text) THEN Len(s.text) ELSE behind, new)
        /\ n.trailing = [s.trailing EXCEPT ![op.id] = carried + op.nodes]
  BY <1>1, <1>2, <1>3
<1>7. Does(op, s, new, n)
  BY <1>4, <1>5, <1>6 DEF Does, pos, carried
<1> QED BY <1>7 DEF op, new, n

\* What a text reads after its block h is deleted, replaced, or has got company.
LEMMA AfterDelete ==
    ASSUME NEW a \in Seq(Block), NEW h \in Block, NEW t \in Seq(Block), NEW z \in Seq(Block)
    PROVE  Without((a \o (<<h>> \o t)) \o z, Len(a) + 1) = (a \o (<<>> \o t)) \o z
<1>1. PICK one : one = <<h>>
  OBVIOUS
<1>2. one \in Seq(Block)
  BY <1>1, OneIs
<1>3. t \o z \in Seq(Block)
  BY JoinBoth
<1>4. CutJoin(a, one, t, z)
  BY <1>2, JoinCut
<1>5. Joins(a, t, z)
  BY JoinAny
<1>6. Without((a \o <<h>>) \o (t \o z), Len(a) + 1) = a \o (t \o z)
  BY <1>3, WithoutCut
<1>7. <<>> \o t = t
  OBVIOUS
<1> QED BY <1>1, <1>4, <1>5, <1>6, <1>7, Zenon DEF CutJoin, Joins

ReplaceReads(a, h, t, z, new) ==
    Spliced(Without((a \o (<<h>> \o t)) \o z, Len(a) + 1), Len(a), new)
      = (a \o (<<new[1]>> \o (Tail(new) \o t))) \o z

LEMMA AfterReplace ==
    ASSUME NEW a \in Seq(Block), NEW h \in Block, NEW t \in Seq(Block), NEW z \in Seq(Block),
           NEW new \in Seq(Block), Len(new) >= 1
    PROVE  ReplaceReads(a, h, t, z, new)
<1>1. PICK one : one = <<new[1]>>
  OBVIOUS
<1>2. one \in Seq(Block) /\ Tail(new) \in Seq(Block) /\ new = one \o Tail(new)
  BY <1>1
<1>3. t \o z \in Seq(Block)
  BY JoinBoth
<1>4. Without((a \o (<<h>> \o t)) \o z, Len(a) + 1) = (a \o (<<>> \o t)) \o z
  BY AfterDelete
<1>5. <<>> \o t = t
  OBVIOUS
<1>6. Joins(a, t, z)
  BY JoinAny
<1>7. Spliced(a \o (t \o z), Len(a), new) = (a \o new) \o (t \o z)
  BY <1>3, SplicedCut
<1>8. NewJoin(a, one, Tail(new), t, z)
  BY <1>2, JoinNew
<1>9. Without((a \o (<<h>> \o t)) \o z, Len(a) + 1) = a \o (t \o z)
  BY <1>4, <1>5, <1>6, Zenon DEF Joins
<1>10. (a \o (one \o (Tail(new) \o t))) \o z = (a \o new) \o (t \o z)
  BY <1>2, <1>8, Zenon DEF NewJoin
<1> QED BY <1>1, <1>7, <1>9, <1>10, Zenon DEF ReplaceReads

InsertReads(a, h, t, z, new, text) ==
    LET at == Len(a) + 1 + Len(t)
    IN  /\ at \in Nat /\ Len(text) \in Nat /\ at <= Len(text)
        /\ Spliced(text, at, new) = (a \o (<<h>> \o (t \o new))) \o z

LEMMA AfterInsert ==
    ASSUME NEW a \in Seq(Block), NEW h \in Block, NEW t \in Seq(Block), NEW z \in Seq(Block),
           NEW new \in Seq(Block), NEW text, text = (a \o (<<h>> \o t)) \o z
    PROVE  InsertReads(a, h, t, z, new, text)
<1>1. PICK one : one = <<h>>
  OBVIOUS
<1>2. one \in Seq(Block) /\ Len(one) = 1
  BY <1>1, OneIs
<1> DEFINE ah == a \o one
           aht == ah \o t
<1>3. ah \in Seq(Block) /\ Len(ah) = Len(a) + 1
  <2>0. one \in Seq(Block)
    BY <1>2
  <2>1. ah \in Seq(Block) /\ Len(ah) = Len(a) + Len(one)
    BY <2>0, ConcatProperties
  <2> HIDE DEF ah
  <2> QED BY <1>2, <2>1
<1>4. aht \in Seq(Block) /\ Len(aht) = Len(a) + 1 + Len(t)
  <2> HIDE DEF ah
  <2>1. aht \in Seq(Block) /\ Len(aht) = Len(ah) + Len(t)
    BY <1>3, ConcatProperties
  <2> QED BY <1>3, <2>1
<1>5. DeepJoin(a, one, t, z) /\ BehindJoin(a, one, t, new, z)
  BY <1>2, JoinDeep, JoinBehind
<1>6. text = aht \o z
  BY <1>1, <1>5, Zenon DEF DeepJoin
<1>7. (a \o (one \o (t \o new))) \o z = (aht \o new) \o z
  BY <1>5, Zenon DEF BehindJoin
<1> HIDE DEF aht, ah
<1>8. Spliced(aht \o z, Len(aht), new) = (aht \o new) \o z
  BY <1>4, SplicedCut
<1>9. /\ aht \o z \in Seq(Block) /\ Len(aht \o z) = Len(aht) + Len(z)
      /\ Len(z) \in Nat /\ Len(aht) \in Nat
  <2>1. aht \o z \in Seq(Block) /\ Len(aht \o z) = Len(aht) + Len(z)
    BY <1>4, ConcatProperties
  <2> QED BY <1>4, <2>1
<1>10. Spliced(text, Len(a) + 1 + Len(t), new) = (a \o (<<h>> \o (t \o new))) \o z
  BY <1>1, <1>4, <1>6, <1>7, <1>8, Zenon
<1>11. Len(text) = Len(aht) + Len(z)
  BY <1>6, <1>9
<1>12. Len(text) \in Nat /\ Len(aht) <= Len(text)
  BY <1>9, <1>11
<1>13. Len(a) + 1 + Len(t) \in Nat /\ Len(a) + 1 + Len(t) <= Len(text)
  BY <1>4, <1>9, <1>12
<1> QED BY <1>10, <1>12, <1>13, Zenon DEF InsertReads

\* A record of a group with another tail or none to head it.
LEMMA GroupWith == \A h, t, u :
    [[head |-> h, tail |-> t] EXCEPT !.tail = u] = [head |-> h, tail |-> u]
OBVIOUS

LEMMA SomeHead == \A h \in Block : <<h>> # <<>> /\ <<h>>[1] = h
OBVIOUS

\* An operation does to the text what it does to the groups.
LEMMA AmendedTells ==
    ASSUME NEW p \in Offers, NEW r \in Replicas, NEW ops \in Seq(Op), reloads \in Nat,
           NEW s \in Applying, NEW k \in 1..Len(ops), NEW groups, Tells(groups, s)
    PROVE  Tells(Amended(p, r, ops, groups, k), Step(p, r, ops, s, k))
<1> DEFINE op == ops[k]
           id == op.id
           new == Brought(p, r, k, op)
           n == Step(p, r, ops, s, k)
           pos == Found(s.text, id)
           then == Amended(p, r, ops, groups, k)
           i == Named(groups, id)
<1>1. /\ op \in Op /\ k \in Nat /\ op.op \in {"replace", "insert_after", "delete"}
      /\ id \in Blocks
  <2>1. op \in Op /\ k \in Nat
    OBVIOUS
  <2> QED BY <2>1 DEF Op
<1>2. /\ groups \in Seq(Group) /\ s.text = Retold(groups) /\ s.trailing \in [Blocks -> Nat]
      /\ LoneTails(groups) /\ Measured(groups, s.trailing)
  BY DEF Tells, Applying
<1>3. n \in Applying
  BY StepIs DEF Stepped
<1>4. then = IF i = 0 THEN groups
        ELSE IF op.op = "delete" THEN [groups EXCEPT ![i].head = <<>>]
        ELSE IF op.op = "replace"
        THEN [groups EXCEPT ![i] = [head |-> <<new[1]>>, tail |-> Tail(new) \o @.tail]]
        ELSE [groups EXCEPT ![i].tail = @ \o new]
  BY DEF Amended
<1>5. /\ new \in Seq(Block) /\ Len(new) = op.nodes /\ op.nodes \in Nat /\ op.nodes >= 1
      /\ op.op = "replace" => new[1].id = id
      /\ \A j \in 1..op.nodes : (j = 1 /\ op.op = "replace") \/ new[j].id \notin Blocks
  <2>1. op \in Op /\ k \in Nat
    BY <1>1
  <2> HIDE DEF op
  <2>2. new \in Seq(Block) /\ Len(new) = op.nodes
    BY <2>1, BroughtLong
  <2>3. /\ op.nodes \in Nat /\ op.nodes >= 1
        /\ op.op = "replace" => new[1].id = op.id
        /\ \A j \in 1..op.nodes : (j = 1 /\ op.op = "replace") \/ new[j].id \notin Blocks
    BY <2>1, BroughtIds
  <2> QED BY <2>2, <2>3
<1> SUFFICES Tells(then, n)
  OBVIOUS
<1> HIDE DEF op, id, new, n, pos, then, i
<1>6. CASE i = 0
  <2>1. \A j \in 1..Len(groups) : ~HeadIs(groups[j], id)
    <3>1. \A j \in 1..Len(groups) : Leads(groups, j, id) => i = j
      BY <1>2, NamedIs DEF i
    <3>2. ~\E j \in 1..Len(groups) : Leads(groups, j, id)
      BY <1>6, <3>1
    <3> QED BY <1>2, <3>2, NamedIs
  <2>2. pos = 0
    BY <1>1, <1>2, <2>1, NobodyFound DEF pos
  <2>3. n.text = s.text /\ n.trailing = s.trailing
    <3>1. n = [s EXCEPT !.skipped = @ \cup {k}]
      BY <2>2 DEF Step, n, pos, id, op
    <3>2. s = [text |-> s.text, trailing |-> s.trailing, skipped |-> s.skipped]
      BY DEF Applying
    <3> QED BY <3>1, <3>2
  <2>4. then = groups
    BY <1>4, <1>6
  <2> QED BY <1>2, <1>3, <2>3, <2>4 DEF Tells
<1>7. CASE i # 0
  <2>1. i \in 1..Len(groups) /\ Leads(groups, i, id)
    <3>1. PICK j \in 1..Len(groups) : Leads(groups, j, id)
      BY <1>2, <1>7, NamedIs DEF i
    <3>2. Named(groups, id) = j
      BY <1>2, <3>1, NamedIs
    <3> QED BY <3>1, <3>2 DEF i
  <2>2. PICK before, h, t, behind : Reads(before, h, t, behind, groups, i, id)
    BY <1>1, <1>2, <2>1, LeaderFound
  <2>3. /\ before \in Seq(Block) /\ behind \in Seq(Block) /\ h \in Block /\ t \in Seq(Block)
        /\ groups[i].head = <<h>> /\ groups[i].tail = t /\ h.id = id
    BY <2>2 DEF Reads, Splits
  <2>4. s.text = (before \o (<<h>> \o t)) \o behind
    BY <1>2, <2>2, <2>3 DEF Reads, Splits
  <2>5. \A g \in Group : Retold([groups EXCEPT ![i] = g]) = (before \o (g.head \o g.tail)) \o behind
    BY <2>2 DEF Reads, Splits
  <2>6. pos = Len(before) + 1 /\ Len(before) \in Nat /\ pos # 0
    BY <1>2, <2>2, <2>3 DEF Reads, pos
  <2>7. s.trailing[id] = Len(t) /\ Len(t) \in Nat
    BY <1>1, <1>2, <2>1, <2>3 DEF Measured, Leads
  <2>8. \A x \in Range(t) : x.id \notin Blocks
    BY <1>2, <2>1, <2>3 DEF LoneTails
  <2>9. groups[i] = [head |-> <<h>>, tail |-> t]
    <3>1. groups[i] \in Group
      BY <1>2, <2>1
    <3>2. groups[i] = [head |-> groups[i].head, tail |-> groups[i].tail]
      BY <3>1, GroupIs
    <3> QED BY <2>3, <3>2
  <2>10. /\ op.op = "delete" => /\ n.text = Without(s.text, pos)
                                /\ n.trailing = [s.trailing EXCEPT ![id] = 0]
         /\ op.op = "replace" =>
               /\ n.text = Spliced(Without(s.text, pos), pos - 1, new)
               /\ n.trailing = [s.trailing EXCEPT ![id] = Len(t) + op.nodes - 1]
         /\ op.op = "insert_after" =>
               /\ n.text = Spliced(s.text, IF pos + Len(t) > Len(s.text) THEN Len(s.text)
                                           ELSE pos + Len(t), new)
               /\ n.trailing = [s.trailing EXCEPT ![id] = Len(t) + op.nodes]
    <3>1. Found(s.text, ops[k].id) # 0
      BY <2>6 DEF pos, id, op
    <3>2. Carried(s.trailing, id) = Len(t)
      BY <2>7 DEF Carried
    <3>3. Does(op, s, new, n)
      BY <3>1, StepDoes DEF op, new, n
    <3>4. pos = Found(s.text, op.id) /\ id = op.id
      BY DEF pos, id
    <3>5. op.op = "delete" => /\ n.text = Without(s.text, pos)
                              /\ n.trailing = [s.trailing EXCEPT ![id] = 0]
      BY <3>3, <3>4 DEF Does
    <3>6. op.op = "replace" =>
            /\ n.text = Spliced(Without(s.text, pos), pos - 1, new)
            /\ n.trailing = [s.trailing EXCEPT ![id] = Len(t) + op.nodes - 1]
      BY <3>2, <3>3, <3>4 DEF Does
    <3>7. op.op = "insert_after" =>
            /\ n.text = Spliced(s.text, IF pos + Len(t) > Len(s.text) THEN Len(s.text)
                                        ELSE pos + Len(t), new)
            /\ n.trailing = [s.trailing EXCEPT ![id] = Len(t) + op.nodes]
      BY <3>2, <3>3, <3>4, Zenon DEF Does
    <3> QED BY <3>5, <3>6, <3>7
  <2>11. ASSUME NEW g, NEW v, Amends(g, id, v), then = [groups EXCEPT ![i] = g],
                n.text = (before \o (g.head \o g.tail)) \o behind,
                n.trailing = [s.trailing EXCEPT ![id] = v]
         PROVE  Tells(then, n)
    <3>1. /\ [groups EXCEPT ![i] = g] \in Seq(Group)
          /\ LoneTails([groups EXCEPT ![i] = g])
          /\ Measured([groups EXCEPT ![i] = g], [s.trailing EXCEPT ![id] = v])
      BY <1>1, <1>2, <2>1, <2>11, Regrouped
    <3>2. g \in Group
      BY <2>11 DEF Amends
    <3>3. n.text = Retold(then)
      BY <2>5, <2>11, <3>2
    <3> QED BY <1>3, <2>11, <3>1, <3>3 DEF Tells
  <2>12. CASE op.op = "delete"
    <3> DEFINE g == [head |-> <<>>, tail |-> <<>> \o t]
    <3>0. <<>> \o t = t
      BY <2>3
    <3>1. g = [head |-> <<>>, tail |-> t]
      BY <3>0
    <3>2. then = [groups EXCEPT ![i] = g]
      <4>1. then = [groups EXCEPT ![i] = [groups[i] EXCEPT !.head = <<>>]]
        BY <1>4, <1>7, <2>12
      <4>2. [groups[i] EXCEPT !.head = <<>>] = [head |-> <<>>, tail |-> t]
        BY <2>9
      <4> QED BY <3>1, <4>1, <4>2
    <3>3. n.text = (before \o (<<>> \o t)) \o behind
      <4>1. Without((before \o (<<h>> \o t)) \o behind, Len(before) + 1)
              = (before \o (<<>> \o t)) \o behind
        BY <2>3, AfterDelete
      <4> QED BY <2>4, <2>6, <2>10, <2>12, <4>1, Zenon
    <3>4. g.head = <<>> /\ g.tail = t
      BY <3>1
    <3>5. g \in Group
      BY <2>3, <3>1, OneGroup
    <3> HIDE DEF g
    <3>6. Amends(g, id, 0)
      BY <2>8, <3>4, <3>5 DEF Amends
    <3>7. n.trailing = [s.trailing EXCEPT ![id] = 0]
      BY <2>10, <2>12
    <3>8. n.text = (before \o (g.head \o g.tail)) \o behind
      BY <3>3, <3>4, Zenon
    <3> QED BY <2>11, <3>2, <3>6, <3>7, <3>8
  <2>13. CASE op.op = "replace"
    <3> DEFINE rest == Tail(new)
               more == rest \o t
               g == [head |-> <<new[1]>>, tail |-> more]
               v == Len(t) + op.nodes - 1
    <3>1. /\ rest \in Seq(Block) /\ Len(rest) = op.nodes - 1
          /\ \A j \in 1..(op.nodes - 1) : rest[j] = new[j + 1]
      BY <1>5
    <3>2. new[1] \in Block /\ new[1].id = id
      BY <1>5, <2>13
    <3> HIDE DEF rest
    <3>3. more \in Seq(Block) /\ Len(more) = v
      <4>1. more \in Seq(Block) /\ Len(more) = Len(rest) + Len(t)
        BY <2>3, <3>1, ConcatProperties
      <4> HIDE DEF more
      <4> QED BY <1>5, <2>7, <3>1, <4>1
    <3>4. ASSUME NEW x \in Range(more) PROVE x.id \notin Blocks
      <4>1. Range(more) = Range(rest) \cup Range(t)
        BY <2>3, <3>1, RangeConcatenation
      <4>2. CASE x \in Range(rest)
        <5>1. PICK j \in 1..Len(rest) : x = rest[j]
          BY <3>1, <4>2, RangeIs
        <5>2. j + 1 \in 1..op.nodes /\ j + 1 # 1 /\ x = new[j + 1]
          BY <1>5, <3>1, <5>1
        <5> QED BY <1>5, <5>2
      <4> QED BY <2>8, <3>4, <4>1, <4>2
    <3>5. then = [groups EXCEPT ![i] = g]
      <4>1. then = [groups EXCEPT ![i] = [head |-> <<new[1]>>, tail |-> rest \o groups[i].tail]]
        BY <1>4, <1>7, <2>13 DEF rest
      <4> QED BY <2>3, <4>1
    <3>6. n.text = (before \o (<<new[1]>> \o more)) \o behind
      <4>1. Spliced(Without((before \o (<<h>> \o t)) \o behind, Len(before) + 1), Len(before), new)
              = (before \o (<<new[1]>> \o (Tail(new) \o t))) \o behind
        <5>1. new \in Seq(Block) /\ Len(new) >= 1
          BY <1>5
        <5>2. before \in Seq(Block) /\ behind \in Seq(Block) /\ h \in Block /\ t \in Seq(Block)
          BY <2>3
        <5>3. ReplaceReads(before, h, t, behind, new)
          BY <5>1, <5>2, AfterReplace
        <5> QED BY <5>3, Zenon DEF ReplaceReads
      <4>2. pos - 1 = Len(before)
        BY <2>6
      <4>3. n.text = Spliced(Without(s.text, pos), pos - 1, new)
        BY <2>10, <2>13
      <4> QED BY <2>4, <2>6, <4>1, <4>2, <4>3, Zenon DEF rest
    <3> HIDE DEF more
    <3>7. g.head = <<new[1]>> /\ g.tail = more
      OBVIOUS
    <3>8. g \in Group
      BY <3>2, <3>3, OneGroup
    <3>9. HeadIs(g, id)
      <4>1. PICK h1 \in Block : h1 = new[1]
        BY <3>2
      <4>2. <<h1>> # <<>> /\ <<h1>>[1] = h1
        BY SomeHead
      <4> QED BY <3>2, <3>7, <4>1, <4>2 DEF HeadIs
    <3> HIDE DEF g
    <3>10. v \in Nat
      BY <1>5, <2>7
    <3>11. n.trailing = [s.trailing EXCEPT ![id] = v]
      BY <2>10, <2>13
    <3> HIDE DEF v
    <3>12. Amends(g, id, v)
      BY <3>3, <3>4, <3>7, <3>8, <3>9, <3>10 DEF Amends
    <3>13. n.text = (before \o (g.head \o g.tail)) \o behind
      BY <3>6, <3>7, Zenon
    <3> QED BY <2>11, <3>5, <3>11, <3>12, <3>13
  <2>14. CASE op.op = "insert_after"
    <3> DEFINE more == t \o new
               g == [head |-> <<h>>, tail |-> more]
               v == Len(t) + op.nodes
    <3>1. more \in Seq(Block) /\ Len(more) = v
      <4>1. more \in Seq(Block) /\ Len(more) = Len(t) + Len(new)
        BY <1>5, <2>3, ConcatProperties
      <4> HIDE DEF more
      <4> QED BY <1>5, <2>7, <4>1
    <3>2. ASSUME NEW x \in Range(more) PROVE x.id \notin Blocks
      <4>1. Range(more) = Range(t) \cup Range(new)
        BY <1>5, <2>3, RangeConcatenation
      <4>2. CASE x \in Range(new)
        <5>1. PICK j \in 1..Len(new) : x = new[j]
          BY <1>5, <4>2, RangeIs
        <5> QED BY <1>5, <2>14, <5>1
      <4> QED BY <2>8, <3>2, <4>1, <4>2
    <3>3. then = [groups EXCEPT ![i] = g]
      <4>1. then = [groups EXCEPT ![i] = [groups[i] EXCEPT !.tail = groups[i].tail \o new]]
        BY <1>4, <1>7, <2>14
      <4>2. groups[i].tail \o new = more
        BY <2>3
      <4> HIDE DEF more
      <4>3. [[head |-> <<h>>, tail |-> t] EXCEPT !.tail = more] = g
        BY GroupWith
      <4>4. [groups[i] EXCEPT !.tail = more] = g
        BY <2>9, <4>3, Zenon
      <4> QED BY <4>1, <4>2, <4>4
    <3>4. n.text = (before \o (<<h>> \o more)) \o behind
      <4> DEFINE at == Len(before) + 1 + Len(t)
      <4>1. /\ at \in Nat /\ Len(s.text) \in Nat /\ at <= Len(s.text)
            /\ Spliced(s.text, at, new) = (before \o (<<h>> \o (t \o new))) \o behind
        <5>1. new \in Seq(Block)
          BY <1>5
        <5>2. before \in Seq(Block) /\ behind \in Seq(Block) /\ h \in Block /\ t \in Seq(Block)
          BY <2>3
        <5>3. InsertReads(before, h, t, behind, new, s.text)
          BY <2>4, <5>1, <5>2, AfterInsert
        <5> QED BY <5>3, Zenon DEF InsertReads
      <4> HIDE DEF at
      <4>2. pos + Len(t) = at
        BY <2>6 DEF at
      <4>3. ~(at > Len(s.text))
        BY <4>1
      <4>4. n.text = Spliced(s.text, at, new)
        BY <2>10, <2>14, <4>2, <4>3
      <4> QED BY <4>1, <4>4, Zenon
    <3> HIDE DEF more
    <3>5. g.head = <<h>> /\ g.tail = more
      OBVIOUS
    <3>6. g \in Group
      BY <2>3, <3>1, OneGroup
    <3>7. HeadIs(g, id)
      BY <2>1, <2>3, <3>5 DEF HeadIs, Leads
    <3> HIDE DEF g
    <3>8. v \in Nat
      BY <1>5, <2>7
    <3>9. n.trailing = [s.trailing EXCEPT ![id] = v]
      BY <2>10, <2>14
    <3> HIDE DEF v
    <3>10. Amends(g, id, v)
      BY <3>1, <3>2, <3>5, <3>6, <3>7, <3>8 DEF Amends
    <3>11. n.text = (before \o (g.head \o g.tail)) \o behind
      BY <3>4, <3>5, Zenon
    <3> QED BY <2>11, <3>3, <3>9, <3>10, <3>11
  <2> QED BY <1>1, <2>12, <2>13, <2>14
<1> QED BY <1>6, <1>7

-----------------------------------------------------------------------------
(* Applying the operations comes to what they mean.                        *)

LEMMA AmendedTyped ==
    ASSUME NEW p \in Offers, NEW r \in Replicas, NEW ops \in Seq(Op), reloads \in Nat,
           NEW k \in 1..Len(ops), NEW groups \in Seq(Group)
    PROVE  Amended(p, r, ops, groups, k) \in Seq(Group)
<1> DEFINE op == ops[k]
           new == Brought(p, r, k, op)
           i == Named(groups, op.id)
           then == Amended(p, r, ops, groups, k)
<1>1. op \in Op /\ k \in Nat
  OBVIOUS
<1>2. then = IF i = 0 THEN groups
        ELSE IF op.op = "delete" THEN [groups EXCEPT ![i].head = <<>>]
        ELSE IF op.op = "replace"
        THEN [groups EXCEPT ![i] = [head |-> <<new[1]>>, tail |-> Tail(new) \o @.tail]]
        ELSE [groups EXCEPT ![i].tail = @ \o new]
  BY DEF Amended
<1>3a. new \in Seq(Block) /\ Len(new) = op.nodes
  <2> HIDE DEF op
  <2> QED BY <1>1, BroughtLong
<1>3b. op.nodes \in Nat \ {0}
  BY <1>1 DEF Op
<1>3. new \in Seq(Block) /\ Len(new) >= 1
  <2> HIDE DEF op, new
  <2> QED BY <1>3a, <1>3b
<1>4. i = 0 \/ i \in 1..Len(groups)
  BY NamedIs
<1> HIDE DEF op, new, i, then
<1>5. CASE i = 0
  BY <1>2, <1>5 DEF then
<1>6. CASE i # 0
  <2>0. i \in 1..Len(groups)
    BY <1>4, <1>6
  <2> DEFINE h == groups[i].head
             t == groups[i].tail
  <2>1. groups[i] \in Group
    BY <2>0
  <2>2. t \in Seq(Block) /\ groups[i] = [head |-> h, tail |-> t] /\ h \in {<<>>} \cup {<<b>> : b \in Block}
    BY <2>1 DEF Group
  <2>3. \A g \in Group : [groups EXCEPT ![i] = g] \in Seq(Group)
    BY <2>0, ExceptSeq
  <2>4. CASE op.op = "delete"
    <3>1. then = [groups EXCEPT ![i] = [groups[i] EXCEPT !.head = <<>>]]
      BY <1>2, <1>6, <2>4
    <3>2. [groups[i] EXCEPT !.head = <<>>] \in Group
      BY <2>1 DEF Group
    <3> QED BY <2>3, <3>1, <3>2 DEF then
  <2>5. CASE op.op # "delete" /\ op.op = "replace"
    <3> DEFINE more == Tail(new) \o t
    <3>1. then = [groups EXCEPT ![i] = [head |-> <<new[1]>>, tail |-> more]]
      BY <1>2, <1>6, <2>5
    <3>2. Tail(new) \in Seq(Block) /\ new[1] \in Block
      BY <1>3
    <3>3. more \in Seq(Block)
      BY <2>2, <3>2, JoinBoth
    <3> HIDE DEF more
    <3>4. [head |-> <<new[1]>>, tail |-> more] \in Group
      BY <3>2, <3>3, OneGroup
    <3> QED BY <2>3, <3>1, <3>4 DEF then
  <2>6. CASE op.op # "delete" /\ op.op # "replace"
    <3> DEFINE more == t \o new
    <3>1. then = [groups EXCEPT ![i] = [groups[i] EXCEPT !.tail = more]]
      BY <1>2, <1>6, <2>6
    <3>2. more \in Seq(Block)
      BY <1>3, <2>2, JoinBoth
    <3> HIDE DEF more
    <3>3. [groups[i] EXCEPT !.tail = more] \in Group
      BY <2>1, <3>2 DEF Group
    <3> QED BY <2>3, <3>1, <3>3 DEF then
  <2> QED BY <2>4, <2>5, <2>6
<1> QED BY <1>5, <1>6

\* The walk of Meant.
Means(f, p, r, ops, text) ==
    /\ f \in [0..Len(ops) -> Seq(Group)]
    /\ f[0] = Alone(text)
    /\ \A k \in 0..Len(ops) : k < Len(ops) => f[k + 1] = Amended(p, r, ops, f[k], k + 1)
    /\ Meant(p, r, ops, text) = Retold(f[Len(ops)])

LEMMA AloneIs ==
    ASSUME NEW text \in Seq(Block)
    PROVE  /\ Alone(text) \in Seq(Group) /\ Len(Alone(text)) = Len(text)
           /\ \A i \in 1..Len(text) : /\ Alone(text)[i].head = <<text[i]>>
                                      /\ Alone(text)[i].tail = <<>>
<1> DEFINE groups == Alone(text)
           N == Len(text)
<1>1. N \in Nat /\ DOMAIN text = 1..N /\ \A i \in 1..N : text[i] \in Block
  OBVIOUS
<1>2. groups = [i \in 1..N |-> [head |-> <<text[i]>>, tail |-> <<>>]]
  BY <1>1 DEF Alone
<1>3. <<>> \in Seq(Block)
  OBVIOUS
<1>4. \A i \in 1..N : [head |-> <<text[i]>>, tail |-> <<>>] \in Group
  BY <1>1, <1>3, OneGroup
<1>5. groups \in [1..N -> Group]
  BY <1>2, <1>4
<1>6. \A i \in 1..N : groups[i].head = <<text[i]>> /\ groups[i].tail = <<>>
  BY <1>2
<1> HIDE DEF groups
<1>7. groups \in Seq(Group) /\ Len(groups) = N
  BY <1>1, <1>5
<1> QED BY <1>6, <1>7 DEF groups

LEMMA MeantWalks ==
    ASSUME NEW p \in Offers, NEW r \in Replicas, NEW ops \in Seq(Op), reloads \in Nat,
           NEW text \in Seq(Block)
    PROVE  \E f : Means(f, p, r, ops, text)
<1> DEFINE bound == Len(ops)
           V == Seq(Group)
           Is(f) == f = [k \in 0..bound |-> IF k = 0 THEN Alone(text)
                                            ELSE Amended(p, r, ops, f[k - 1], k)]
           c == CHOOSE f : Is(f)
<1>1. bound \in Nat
  OBVIOUS
<1>2. \A k \in 1..bound, v \in V : Amended(p, r, ops, v, k) \in V
  BY AmendedTyped
<1>3. Meant(p, r, ops, text) = Retold(c[bound])
  BY <1>1 DEF Meant
<1>4. Alone(text) \in V
  BY AloneIs
<1>5. \E f \in [0..bound -> V] : Is(f)
  <2> DEFINE step == [x \in (0..bound) \X V |->
                        IF x[1] < bound THEN Amended(p, r, ops, x[2], x[1] + 1) ELSE x[2]]
             first == Alone(text)
  <2>1. \A k \in 0..bound, v \in V :
           step[<<k, v>>] = IF k < bound THEN Amended(p, r, ops, v, k + 1) ELSE v
    OBVIOUS
  <2>2. step \in [(0..bound) \X V -> V]
    <3>1. ASSUME NEW x \in (0..bound) \X V
          PROVE  (IF x[1] < bound THEN Amended(p, r, ops, x[2], x[1] + 1) ELSE x[2]) \in V
      <4>1. x[1] \in 0..bound /\ x[2] \in V
        OBVIOUS
      <4>2. x[1] < bound => x[1] + 1 \in 1..bound
        BY <1>1, <4>1
      <4> QED BY <1>2, <4>1, <4>2
    <3> QED BY <3>1
  <2>3. first \in V
    BY <1>4
  <2> HIDE DEF step, V, bound, first
  <2>4. PICK f : Iterates(f, bound, V, first, step)
    BY <1>1, <2>2, <2>3, RecursionExists
  <2>5. \A k \in 0..bound : f[k] = IF k = 0 THEN Alone(text) ELSE Amended(p, r, ops, f[k - 1], k)
    <3> TAKE k \in 0..bound
    <3>1. CASE k = 0
      BY <2>4, <3>1 DEF first, Iterates
    <3>2. CASE k # 0
      <4>1. k - 1 \in 0..bound /\ k - 1 < bound /\ (k - 1) + 1 = k
        BY <1>1, <3>2
      <4>2. f[k] = step[<<k - 1, f[k - 1]>>]
        BY <2>4, <4>1 DEF Iterates
      <4>3. f[k - 1] \in V
        BY <2>4, <4>1 DEF Iterates
      <4> QED BY <2>1, <3>2, <4>1, <4>2, <4>3
    <3> QED BY <3>1, <3>2
  <2>6. f = [k \in 0..bound |-> f[k]] /\ f \in [0..bound -> V]
    BY <2>4 DEF Iterates
  <2>7. Is(f)
    BY <2>5, <2>6
  <2> QED BY <2>6, <2>7
<1> HIDE DEF c
<1>6. Is(c)
  BY <1>5 DEF c
<1> HIDE DEF bound, V
<1>7. DOMAIN c = 0..bound /\ c[0] = Alone(text)
  BY <1>1, <1>6
<1>8. ASSUME NEW k \in 0..bound, k < bound PROVE c[k + 1] = Amended(p, r, ops, c[k], k + 1)
  <2>1. k + 1 \in 0..bound /\ k + 1 # 0 /\ (k + 1) - 1 = k
    BY <1>1, <1>8
  <2> QED BY <1>6, <2>1
<1>9. c \in [0..bound -> V]
  <2> DEFINE U == {k \in 0..bound : c[k] \in V}
  <2>1. 0 \in U
    BY <1>1, <1>4, <1>7
  <2>2. ASSUME NEW k \in 0..bound, k \in U, k < bound PROVE k + 1 \in U
    <3>1. k + 1 \in 0..bound /\ k + 1 \in 1..bound /\ c[k] \in V
      BY <1>1, <2>2
    <3> QED BY <1>2, <1>8, <2>2, <3>1
  <2> HIDE DEF U
  <2>3. \A k \in 0..bound : k \in U
    BY <1>1, <2>1, <2>2, StepByStep
  <2>4. \A k \in 0..bound : c[k] \in V
    BY <2>3 DEF U
  <2> QED BY <1>6, <1>7, <2>4
<1> QED BY <1>3, <1>7, <1>8, <1>9 DEF Means, bound, V

\* Retold alone, the blocks are the text.
LEMMA AloneTells ==
    ASSUME NEW text \in Seq(Block)
    PROVE  Tells(Alone(text), Untouched(text))
<1> DEFINE groups == Alone(text)
           parts == Parts(groups)
           bound == Len(text)
           s == Untouched(text)
<1>1. /\ groups \in Seq(Group) /\ Len(groups) = bound
      /\ \A i \in 1..bound : groups[i].head = <<text[i]>> /\ groups[i].tail = <<>>
  BY AloneIs
<1>2. bound \in Nat /\ \A i \in 1..bound : text[i] \in Block
  OBVIOUS
<1> HIDE DEF groups
<1>3. parts \in Seq(Seq(Block)) /\ Len(parts) = bound
  BY <1>1, PartsAre
<1>4. ASSUME NEW i \in 1..bound PROVE parts[i] = <<text[i]>>
  <2>1. parts[i] = groups[i].head \o groups[i].tail
    BY <1>1, PartsAre
  <2>2. <<text[i]>> \in Seq(Block)
    BY <1>2, OneIs
  <2>3. \A w \in Seq(Block) : w \o <<>> = w
    OBVIOUS
  <2> QED BY <1>1, <2>1, <2>2, <2>3
<1>5. Retold(groups) = FlattenSeq(parts)
  BY DEF Retold, Parts
<1> HIDE DEF parts
<1>6. PICK f : Flattens(f, Block, parts)
  BY <1>3, FlattenWalks
<1>7. /\ f[0] = <<>> /\ FlattenSeq(parts) = f[bound]
      /\ \A k \in 0..bound : k < bound => f[k + 1] = f[k] \o parts[k + 1]
  BY <1>3, <1>6 DEF Flattens
<1> DEFINE U == {k \in 0..bound : f[k] = SubSeq(text, 1, k)}
<1>8. 0 \in U
  <2>1. SubSeq(text, 1, 0) = <<>>
    OBVIOUS
  <2>2. f[0] = SubSeq(text, 1, 0)
    BY <1>7, <2>1, Zenon
  <2> QED BY <1>2, <2>2
<1>9. ASSUME NEW k \in 0..bound, k \in U, k < bound PROVE k + 1 \in U
  <2>1. k + 1 \in 1..bound /\ 1 \in 1..bound /\ k + 1 \in 0..bound /\ (k + 1) - 1 = k
    BY <1>2, <1>9
  <2>2. SubSeq(text, 1, k + 1) = SubSeq(text, 1, (k + 1) - 1) \o <<text[k + 1]>>
    BY <2>1, SubSeqRecursiveSecond
  <2>3. f[k + 1] = f[k] \o <<text[k + 1]>> /\ f[k] = SubSeq(text, 1, k)
    BY <1>4, <1>7, <1>9, <2>1
  <2>4. f[k + 1] = SubSeq(text, 1, k + 1)
    BY <2>1, <2>2, <2>3
  <2> QED BY <2>1, <2>4
<1> HIDE DEF U
<1>10. \A k \in 0..bound : k \in U
  BY <1>2, <1>8, <1>9, StepByStep
<1>11. f[bound] = SubSeq(text, 1, bound)
  BY <1>2, <1>10 DEF U
<1>12. Retold(groups) = text
  <2>1. SubSeq(text, 1, bound) = text
    BY SubSeqFull
  <2> QED BY <1>5, <1>7, <1>11, <2>1
<1>13. s \in Applying /\ s.text = text /\ \A b \in Blocks : s.trailing[b] = 0
  BY DEF Untouched, Applying
<1>14. LoneTails(groups)
  <2>1. Range(<<>>) = {}
    BY DEF Range
  <2> QED BY <1>1, <2>1 DEF LoneTails
<1>15. Measured(groups, s.trailing)
  <2>1. Len(<<>>) = 0
    OBVIOUS
  <2> HIDE DEF s
  <2> QED BY <1>1, <1>13, <2>1 DEF Measured
<1> HIDE DEF s
<1>16. Tells(groups, s)
  BY <1>1, <1>12, <1>13, <1>14, <1>15 DEF Tells
<1> QED BY <1>16 DEF groups, s

\* Splicing a text, operation by operation, as the server and the pages do,
\* gives what the operations mean, for operations of any number.
LEMMA ApplyMeans ==
    ASSUME NEW p \in Offers, NEW r \in Replicas, NEW ops \in Seq(Op), reloads \in Nat,
           NEW text \in Seq(Block)
    PROVE  Apply(p, r, ops, text).text = Meant(p, r, ops, text)
<1> DEFINE bound == Len(ops)
<1>1. bound \in Nat
  OBVIOUS
<1>2. PICK f : Applies(f, p, r, ops, text)
  BY ApplyWalks
<1>3. PICK g : Means(g, p, r, ops, text)
  BY MeantWalks
<1> DEFINE U == {k \in 0..bound : Tells(g[k], f[k])}
<1>4. 0 \in U
  BY <1>1, <1>2, <1>3, AloneTells DEF Applies, Means
<1>5. ASSUME NEW k \in 0..bound, k \in U, k < bound PROVE k + 1 \in U
  <2>1. k + 1 \in 1..bound /\ k + 1 \in 0..bound /\ f[k] \in Applying
    BY <1>1, <1>2, <1>5 DEF Applies
  <2>2. f[k + 1] = Step(p, r, ops, f[k], k + 1) /\ g[k + 1] = Amended(p, r, ops, g[k], k + 1)
    BY <1>2, <1>3, <1>5 DEF Applies, Means
  <2>3. Tells(g[k], f[k])
    BY <1>5
  <2>4. Tells(g[k + 1], f[k + 1])
    BY <2>1, <2>2, <2>3, AmendedTells
  <2> QED BY <2>1, <2>4
<1> HIDE DEF U
<1>6. \A k \in 0..bound : k \in U
  BY <1>1, <1>4, <1>5, StepByStep
<1>7. Tells(g[bound], f[bound])
  BY <1>1, <1>6 DEF U
<1> QED BY <1>2, <1>3, <1>7 DEF Applies, Means, Tells

-----------------------------------------------------------------------------
(* Which of two blocks comes first.                                        *)

\* Where `text' has blocks of `all', it has them in the order of `all'.
KeepsOrder(all, text) ==
    \A i, j \in 1..Len(all) : \A a, b \in 1..Len(text) :
        all[i] = text[a] /\ all[j] = text[b] /\ a < b => i < j

\* Taking a block out changes the order of no others.
LEMMA WithoutOrder ==
    ASSUME NEW T, NEW all \in Seq(T), NEW text \in Seq(T), NEW at \in 1..Len(text),
           KeepsOrder(all, text), IsInjective(text)
    PROVE  KeepsOrder(all, Without(text, at)) /\ IsInjective(Without(text, at))
<1> DEFINE new == Without(text, at)
           from(i) == IF i < at THEN i ELSE i + 1
<1>1. new \in Seq(T) /\ Len(new) = Len(text) - 1 /\ Len(text) \in Nat
  BY WithoutAt
<1>2. \A i \in 1..Len(new) : new[i] = text[from(i)]
  BY <1>1, WithoutAt
<1>3. \A i \in 1..Len(new) : from(i) \in 1..Len(text)
  BY <1>1
<1>4. \A i, j \in 1..Len(new) : i < j => from(i) < from(j)
  BY <1>1
<1>5. \A i, j \in 1..Len(text) : text[i] = text[j] => i = j
  BY RangeIs
<1> HIDE DEF new, from
<1>6. KeepsOrder(all, new)
  BY <1>2, <1>3, <1>4 DEF KeepsOrder
<1>7. \A i, j \in 1..Len(new) : new[i] = new[j] => i = j
  <2> SUFFICES ASSUME NEW i \in 1..Len(new), NEW j \in 1..Len(new), new[i] = new[j] PROVE i = j
    OBVIOUS
  <2>1. from(i) = from(j)
    BY <1>2, <1>3, <1>5
  <2>2. ~(i < j) /\ ~(j < i)
    BY <2>1, <1>3, <1>4
  <2> QED BY <2>2
<1>8. IsInjective(new)
  BY <1>1, <1>7, RangeIs
<1> QED BY <1>6, <1>8 DEF new

\* Putting blocks in that are found nowhere yet changes the order of no others.
LEMMA SplicedOrder ==
    ASSUME NEW T, NEW all \in Seq(T), NEW text \in Seq(T), NEW at \in 0..Len(text),
           NEW new \in Seq(T), KeepsOrder(all, text), IsInjective(text), IsInjective(new),
           Range(new) \cap Range(text) = {}, Range(new) \cap Range(all) = {}
    PROVE  KeepsOrder(all, Spliced(text, at, new)) /\ IsInjective(Spliced(text, at, new))
<1> DEFINE n == Len(new)
           long == Spliced(text, at, new)
           old(i) == i <= at \/ i > at + n
           from(i) == IF i <= at THEN i ELSE i - n
<1>0. Len(text) \in Nat /\ n \in Nat
  OBVIOUS
<1>1. long \in Seq(T) /\ Len(long) = Len(text) + n /\ Len(text) \in Nat /\ n \in Nat
  <2>1. long \in Seq(T)
    BY SplicedAt
  <2>2. Len(long) = Len(text) + n
    BY SplicedAt
  <2> QED BY <1>0, <2>1, <2>2
<1>2. \A i \in 1..Len(long) : long[i] =
         IF i <= at THEN text[i] ELSE IF i <= at + n THEN new[i - at] ELSE text[i - n]
  <2>1. \A i \in 1..(Len(text) + n) : long[i] =
           IF i <= at THEN text[i] ELSE IF i <= at + n THEN new[i - at] ELSE text[i - n]
    BY SplicedAt
  <2> HIDE DEF long, n
  <2> QED BY <1>1, <2>1
<1>3. \A i \in 1..Len(long) : old(i) => from(i) \in 1..Len(text) /\ long[i] = text[from(i)]
  BY <1>1, <1>2
<1>4. \A i \in 1..Len(long) : ~old(i) => i - at \in 1..n /\ long[i] = new[i - at]
  BY <1>1, <1>2
<1>5. \A i, j \in 1..Len(long) : old(i) /\ old(j) /\ i < j => from(i) < from(j)
  BY <1>1
<1>6. /\ \A i, j \in 1..Len(text) : text[i] = text[j] => i = j
      /\ \A i \in 1..Len(text) : text[i] \in Range(text)
  BY RangeIs
<1>7. /\ \A i, j \in 1..n : new[i] = new[j] => i = j
      /\ \A i \in 1..n : new[i] \in Range(new)
  BY RangeIs
<1>8. \A i \in 1..Len(all) : all[i] \in Range(all)
  BY RangeIs
<1>9. \A i \in 1..Len(long) : long[i] \in Range(new) => ~old(i)
  BY <1>3, <1>6
<1>10. KeepsOrder(all, long)
  <2> SUFFICES ASSUME NEW i \in 1..Len(all), NEW j \in 1..Len(all),
                      NEW a \in 1..Len(long), NEW b \in 1..Len(long),
                      all[i] = long[a], all[j] = long[b], a < b
               PROVE  i < j
    BY DEF KeepsOrder
  <2> HIDE DEF long, old, from, n
  <2>1. old(a) /\ old(b)
    BY <1>4, <1>7, <1>8
  <2>2. from(a) \in 1..Len(text) /\ from(b) \in 1..Len(text) /\ from(a) < from(b)
    BY <2>1, <1>3, <1>5
  <2>3. all[i] = text[from(a)] /\ all[j] = text[from(b)]
    BY <2>1, <1>3
  <2> QED BY <2>2, <2>3 DEF KeepsOrder
<1>11. \A i, j \in 1..Len(long) : long[i] = long[j] => i = j
  <2> SUFFICES ASSUME NEW i \in 1..Len(long), NEW j \in 1..Len(long), long[i] = long[j]
               PROVE  i = j
    OBVIOUS
  <2> HIDE DEF long, from
  <2>1. CASE old(i) /\ old(j)
    <3>1. from(i) = from(j) /\ from(i) \in 1..Len(text)
      BY <2>1, <1>3, <1>6
    <3>2. ~(i < j) /\ ~(j < i)
      BY <3>1, <2>1, <1>5
    <3> QED BY <3>2, <1>1
  <2>2. CASE ~old(i) /\ ~old(j)
    <3>1. i - at = j - at
      BY <2>2, <1>4, <1>7
    <3> QED BY <3>1, <1>1
  <2>3. CASE ~(old(i) <=> old(j))
    <3> HIDE DEF old
    <3> QED BY <2>3, <1>3, <1>4, <1>6, <1>7
  <2> QED BY <2>1, <2>2, <2>3
<1> HIDE DEF long
<1>12. IsInjective(long)
  BY <1>1, <1>11, RangeIs
<1> QED BY <1>10, <1>12 DEF long

\* `some' has blocks of the first k of `all', in the order of `all'.
TakenInOrder(all, k, some) ==
    /\ \A a \in 1..Len(some) : \E i \in 1..k : all[i] = some[a]
    /\ \A i, j \in 1..k : \A a, b \in 1..Len(some) :
         all[i] = some[a] /\ all[j] = some[b] /\ a < b => i < j

\* Only keeps the order.
LEMMA OnlyOrder ==
    ASSUME NEW T, NEW S, NEW all \in Seq(T), IsInjective(all)
    PROVE  KeepsOrder(all, Only(S, all))
<1> DEFINE bound == Len(all)
<1>1. PICK f : Picks(f, S, T, all)
  BY OnlyWalks
<1>2. bound \in Nat /\ \A i, j \in 1..bound : all[i] = all[j] => i = j
  BY RangeIs
<1> DEFINE U == {k \in 0..bound : TakenInOrder(all, k, f[k])}
<1>3. 0 \in U
  <2>1. f[0] = <<>>
    BY <1>1 DEF Picks
  <2> QED BY <1>2, <2>1 DEF TakenInOrder
<1>4. ASSUME NEW k \in 0..bound, k \in U, k < bound PROVE k + 1 \in U
  <2>1. TakenInOrder(all, k, f[k])
    BY <1>4
  <2>2. k + 1 \in 0..bound /\ k + 1 \in 1..bound /\ f[k] \in Seq(T) /\ f[k + 1] \in Seq(T) /\ k \in Nat
    BY <1>1, <1>2, <1>4 DEF Picks
  <2>3. f[k + 1] = IF all[k + 1] \in S THEN Append(f[k], all[k + 1]) ELSE f[k]
    BY <1>1, <1>4 DEF Picks
  <2>4. \A i \in 1..k : i \in 1..bound /\ i \in 1..(k + 1) /\ all[i] # all[k + 1]
    BY <1>2, <2>2
  <2>5. \A i \in 1..(k + 1) : i \in 1..k \/ i = k + 1
    BY <2>2
  <2>6. CASE all[k + 1] \in S
    <3> DEFINE s == f[k]
               t == f[k + 1]
    <3>1. t = Append(s, all[k + 1])
      BY <2>3, <2>6
    <3>2. /\ Len(t) = Len(s) + 1 /\ Len(s) \in Nat /\ t[Len(s) + 1] = all[k + 1]
          /\ \A a \in 1..Len(s) : t[a] = s[a]
      <4> HIDE DEF s, t
      <4>1. s \in Seq(T) /\ all[k + 1] \in T
        BY <2>2 DEF s
      <4> QED BY <3>1, <4>1
    <3>3. \A a \in 1..Len(t) : a \in 1..Len(s) \/ a = Len(s) + 1
      BY <3>2
    <3> HIDE DEF s, t
    <3>4. \A a \in 1..Len(t) : \E i \in 1..(k + 1) : all[i] = t[a]
      <4> TAKE a \in 1..Len(t)
      <4>1. CASE a \in 1..Len(s)
        <5>1. PICK i \in 1..k : all[i] = s[a]
          BY <2>1, <4>1 DEF s, TakenInOrder
        <5> QED BY <5>1, <4>1, <3>2, <2>4
      <4>2. CASE a = Len(s) + 1
        <5>1. k + 1 \in 1..(k + 1)
          BY <2>2
        <5> QED BY <5>1, <4>2, <3>2
      <4> QED BY <3>3, <4>1, <4>2
    <3>5. ASSUME NEW i \in 1..(k + 1), NEW j \in 1..(k + 1), NEW a \in 1..Len(t), NEW b \in 1..Len(t),
                 all[i] = t[a], all[j] = t[b], a < b
          PROVE  i < j
      <4>1. a \in 1..Len(s) /\ t[a] = s[a]
        BY <3>2, <3>3, <3>5
      <4>2. PICK m \in 1..k : all[m] = s[a]
        BY <2>1, <4>1 DEF s, TakenInOrder
      <4>3. i \in 1..k
        BY <4>1, <4>2, <3>5, <2>4, <2>5
      <4>4. CASE b \in 1..Len(s)
        <5>1. t[b] = s[b]
          BY <4>4, <3>2
        <5>2. PICK q \in 1..k : all[q] = s[b]
          BY <2>1, <4>4 DEF s, TakenInOrder
        <5>3. j \in 1..k
          BY <5>1, <5>2, <3>5, <2>4, <2>5
        <5> QED BY <2>1, <4>1, <4>3, <4>4, <5>1, <5>3, <3>5 DEF s, TakenInOrder
      <4>5. CASE b = Len(s) + 1
        <5>1. all[j] = all[k + 1]
          BY <4>5, <3>2, <3>5
        <5>2. j = k + 1
          BY <5>1, <2>4, <2>5
        <5> QED BY <5>2, <4>3, <2>2
      <4> QED BY <3>3, <4>4, <4>5
    <3>6. TakenInOrder(all, k + 1, f[k + 1])
      BY <3>4, <3>5 DEF t, TakenInOrder
    <3> QED BY <2>2, <3>6
  <2>7. CASE all[k + 1] \notin S
    <3>1. f[k + 1] = f[k]
      BY <2>3, <2>7
    <3>2. \A a \in 1..Len(f[k]) : \A i \in 1..(k + 1) : all[i] = f[k][a] => i \in 1..k
      BY <2>1, <2>4, <2>5 DEF TakenInOrder
    <3>3. TakenInOrder(all, k + 1, f[k + 1])
      <4>1. \A a \in 1..Len(f[k]) : \E i \in 1..(k + 1) : all[i] = f[k][a]
        BY <2>1, <2>4 DEF TakenInOrder
      <4>2. \A i, j \in 1..(k + 1) : \A a, b \in 1..Len(f[k]) :
               all[i] = f[k][a] /\ all[j] = f[k][b] /\ a < b => i < j
        BY <2>1, <3>2 DEF TakenInOrder
      <4> QED BY <3>1, <4>1, <4>2 DEF TakenInOrder
    <3> QED BY <2>2, <3>3
  <2> QED BY <2>6, <2>7
<1> HIDE DEF U
<1>5. \A k \in 0..bound : k \in U
  BY <1>2, <1>3, <1>4, StepByStep
<1>6. TakenInOrder(all, bound, f[bound])
  BY <1>2, <1>5 DEF U
<1> QED BY <1>1, <1>6 DEF Picks, TakenInOrder, KeepsOrder

-----------------------------------------------------------------------------
(* The text that was written is the text that is read.                     *)

\* The place of a block that is there.
PlaceOf(seq, y) == SelectInSeq(seq, LAMBDA x : x = y)

LEMMA PlaceIs ==
    ASSUME NEW T, NEW seq \in Seq(T), NEW y, y \in Range(seq)
    PROVE  PlaceOf(seq, y) \in 1..Len(seq) /\ seq[PlaceOf(seq, y)] = y
<1> DEFINE places == {j \in 1..Len(seq) : seq[j] = y}
<1>1. PlaceOf(seq, y) = IF places # {} THEN Min(places) ELSE 0
  BY DEF SelectInSeq, PlaceOf
<1>2. places \in SUBSET Nat
  OBVIOUS
<1>3. places # {}
  BY RangeIs
<1> HIDE DEF places
<1>4. PlaceOf(seq, y) \in places
  BY <1>1, <1>2, <1>3, FirstPlace
<1> QED BY <1>4 DEF places

\* A block that is put in directly behind the one before it in the text comes
\* to stand where the text has it.
LEMMA WovenInOrder ==
    ASSUME NEW T, NEW seq \in Seq(T), NEW text \in Seq(T), NEW i \in 1..Len(text),
           IsInjective(seq), IsInjective(text), KeepsOrder(seq, text),
           i > 1 => text[i - 1] \in Range(seq)
    PROVE  KeepsOrder(WovenIn(seq, text, i), text)
<1> DEFINE at == IF i = 1 THEN 0 ELSE PlaceOf(seq, text[i - 1])
           long == WovenIn(seq, text, i)
           n == Len(seq)
<1>0. Len(text) \in Nat /\ n \in Nat /\ i \in Nat /\ text[i] \in T
  BY RangeIs
<1>1. /\ \A a, b \in 1..n : seq[a] = seq[b] => a = b
      /\ \A a \in 1..n : seq[a] \in Range(seq)
      /\ \A x \in Range(seq) : \E a \in 1..n : x = seq[a]
  BY RangeIs
<1>2. \A a, b \in 1..Len(text) : text[a] = text[b] => a = b
  BY RangeIs
<1>3. CASE Contains(seq, text[i])
  BY <1>3 DEF WovenIn
<1>4. CASE ~Contains(seq, text[i])
  <2>1. long = Spliced(seq, at, <<text[i]>>)
    BY <1>4 DEF WovenIn, PlaceOf
  <2>2. at \in 0..n /\ (i # 1 => at \in 1..n /\ seq[at] = text[i - 1])
    <3>1. CASE i = 1
      BY <3>1, <1>0
    <3>2. CASE i # 1
      <4>1. text[i - 1] \in Range(seq)
        BY <3>2
      <4>2. at = PlaceOf(seq, text[i - 1])
        BY <3>2
      <4>3. at \in 1..n /\ seq[at] = text[i - 1]
        BY <4>1, <4>2, PlaceIs
      <4> QED BY <4>3, <3>2, <1>0
    <3> QED BY <3>1, <3>2
  <2> HIDE DEF at, long
  <2>3. /\ long \in Seq(T) /\ Len(long) = n + 1
        /\ \A a \in 1..(n + 1) : long[a] =
             IF a <= at THEN seq[a] ELSE IF a = at + 1 THEN text[i] ELSE seq[a - 1]
    <3> DEFINE one == <<text[i]>>
    <3>1. one \in Seq(T) /\ Len(one) = 1 /\ one[1] = text[i]
      BY <1>0, OneIs
    <3>1a. long = Spliced(seq, at, one)
      BY <2>1
    <3>1b. at \in 0..Len(seq)
      BY <2>2
    <3> HIDE DEF one
    <3>2. long \in Seq(T)
      BY <3>1a, <3>1b, <3>1, SplicedAt
    <3>3a. Len(long) = Len(seq) + Len(one)
      BY <3>1a, <3>1b, <3>1, SplicedAt
    <3>3. Len(long) = n + 1
      BY <3>1, <3>3a
    <3>4a. \A a \in 1..(Len(seq) + Len(one)) : long[a] =
             IF a <= at THEN seq[a]
             ELSE IF a <= at + Len(one) THEN one[a - at] ELSE seq[a - Len(one)]
      BY <3>1a, <3>1b, <3>1, SplicedAt
    <3>4. \A a \in 1..(n + 1) : long[a] =
             IF a <= at THEN seq[a] ELSE IF a <= at + 1 THEN one[a - at] ELSE seq[a - 1]
      BY <3>1, <3>4a
    <3>5. \A a \in 1..(n + 1) : ~(a <= at) /\ a <= at + 1 => a = at + 1 /\ a - at = 1
      BY <1>0, <2>2
    <3> QED BY <3>1, <3>2, <3>3, <3>4, <3>5, <2>2, <1>0
  <2>4. \A a \in 1..n : seq[a] # text[i]
    BY <1>4 DEF Contains
  <2> DEFINE from(a) == IF a <= at THEN a ELSE a - 1
  <2>5. \A a \in 1..(n + 1) : a # at + 1 => from(a) \in 1..n /\ long[a] = seq[from(a)]
    BY <2>2, <2>3, <1>0
  <2>6. \A a, b \in 1..(n + 1) :
           /\ a # at + 1 /\ b # at + 1 /\ from(a) < from(b) => a < b
           /\ a # at + 1 /\ from(a) <= at => a < at + 1
           /\ a # at + 1 /\ from(a) > at => a > at + 1
    BY <2>2, <1>0
  <2>7. at + 1 \in 1..(n + 1) /\ long[at + 1] = text[i]
    BY <2>2, <2>3, <1>0
  <2> HIDE DEF from
  <2> SUFFICES ASSUME NEW a \in 1..(n + 1), NEW b \in 1..(n + 1),
                      NEW c \in 1..Len(text), NEW d \in 1..Len(text),
                      long[a] = text[c], long[b] = text[d], c < d
               PROVE  a < b
    BY <2>3 DEF KeepsOrder, long
  <2>8. CASE a # at + 1 /\ b # at + 1
    <3>1. from(a) < from(b)
      BY <2>5, <2>8 DEF KeepsOrder
    <3> QED BY <2>6, <2>8, <3>1
  <2>9. CASE a = at + 1
    <3>1. c = i /\ b # at + 1 /\ d > i
      BY <2>7, <2>9, <1>2, <1>0
    <3>2. from(b) \in 1..n /\ seq[from(b)] = text[d]
      BY <3>1, <2>5
    <3>3. from(b) > at
      <4>1. CASE i = 1
        BY <4>1, <3>2 DEF at
      <4>2. CASE i # 1
        <5>1. at \in 1..n /\ seq[at] = text[i - 1] /\ i - 1 \in 1..Len(text) /\ i - 1 < d
          BY <4>2, <2>2, <3>1, <1>0
        <5>2. at < from(b)
          BY <5>1, <3>2 DEF KeepsOrder
        <5> QED BY <5>1, <5>2, <3>2
      <4> QED BY <4>1, <4>2
    <3> QED BY <2>6, <2>9, <3>1, <3>3
  <2>10. CASE a # at + 1 /\ b = at + 1
    <3>1. d = i /\ c < i /\ i # 1
      BY <2>7, <2>10, <1>2, <1>0
    <3>2. from(a) \in 1..n /\ seq[from(a)] = text[c]
      BY <2>10, <2>5
    <3>3. at \in 1..n /\ seq[at] = text[i - 1] /\ i - 1 \in 1..Len(text)
      BY <3>1, <2>2, <1>0
    <3>4. from(a) <= at
      <4>1. CASE c = i - 1
        BY <4>1, <3>2, <3>3, <1>1
      <4>2. CASE c < i - 1
        <5>1. from(a) < at
          BY <4>2, <3>2, <3>3 DEF KeepsOrder
        <5> QED BY <5>1, <3>2, <3>3
      <4> QED BY <4>1, <4>2, <3>1, <1>0
    <3> QED BY <2>6, <2>10, <3>4
  <2> QED BY <2>8, <2>9, <2>10
<1> QED BY <1>3, <1>4

\* Weaving the text into the common order keeps both orders.
LEMMA WovenOrder ==
    ASSUME NEW T, NEW all \in Seq(T), NEW text \in Seq(T),
           IsInjective(all), IsInjective(text), KeepsOrder(all, text)
    PROVE  KeepsOrder(Woven(all, text), text)
<1> DEFINE bound == Len(text)
<1>1. PICK f : Weaves(f, T, all, text)
  BY WovenWalks
<1>2. bound \in Nat
  OBVIOUS
<1> DEFINE Good(k) == /\ IsInjective(f[k]) /\ KeepsOrder(f[k], text)
                      /\ k > 0 => text[k] \in Range(f[k])
           U == {k \in 0..bound : Good(k)}
<1>3. 0 \in U
  BY <1>1, <1>2 DEF Weaves
<1>4. ASSUME NEW k \in 0..bound, k \in U, k < bound PROVE k + 1 \in U
  <2> DEFINE seq == f[k]
             i == k + 1
             long == WovenIn(seq, text, i)
  <2>1. i \in 1..bound /\ i \in 0..bound /\ k \in Nat /\ i - 1 = k /\ (i > 1 => k > 0)
    BY <1>2, <1>4
  <2>2. f[i] = long /\ seq \in Seq(T)
    BY <1>1, <1>4 DEF Weaves
  <2>3. Good(k)
    BY <1>4
  <2> HIDE DEF seq, i, long
  <2>4. IsInjective(seq) /\ KeepsOrder(seq, text) /\ (i > 1 => text[i - 1] \in Range(seq))
    BY <2>1, <2>3 DEF seq
  <2>5. KeepsOrder(long, text)
    BY <2>1, <2>2, <2>4, WovenInOrder DEF long
  <2>6. IsInjective(long)
    BY <2>1, <2>2, <2>4, WovenInIs DEF long
  <2>7. text[i] \in Range(long)
    BY <2>1, <2>2, WovenInIs DEF long
  <2>8. Good(i)
    BY <2>2, <2>5, <2>6, <2>7
  <2> QED BY <2>1, <2>8 DEF i
<1> HIDE DEF U
<1>5. \A k \in 0..bound : k \in U
  BY <1>2, <1>3, <1>4, StepByStep
<1>6. KeepsOrder(f[bound], text)
  BY <1>2, <1>5 DEF U
<1> QED BY <1>1, <1>6 DEF Weaves

\* The first k blocks of `all' have the first of `text' and no others.
ReadSoFar(all, text, k, some) ==
    /\ Len(some) <= Len(text)
    /\ \A a \in 1..Len(some) : some[a] = text[a] /\ \E i \in 1..k : all[i] = text[a]
    /\ \A a \in 1..Len(text) : \A i \in 1..k : all[i] = text[a] => a <= Len(some)

\* What is picked from a common order that keeps to the text is the text.
LEMMA OnlyReads ==
    ASSUME NEW T, NEW all \in Seq(T), NEW text \in Seq(T),
           IsInjective(all), IsInjective(text), KeepsOrder(all, text),
           NEW S, S \cap Range(all) = Range(text)
    PROVE  Only(S, all) = text
<1> DEFINE bound == Len(all)
<1>1. PICK f : Picks(f, S, T, all)
  BY OnlyWalks
<1>2. bound \in Nat /\ \A i, j \in 1..bound : all[i] = all[j] => i = j
  BY RangeIs
<1>3. /\ Len(text) \in Nat
      /\ \A a, b \in 1..Len(text) : text[a] = text[b] => a = b
      /\ \A a \in 1..Len(text) : text[a] \in S
      /\ \A i \in 1..bound : all[i] \in S => \E a \in 1..Len(text) : all[i] = text[a]
  <2>1. \A i \in 1..bound : all[i] \in Range(all)
    BY RangeIs
  <2>2. \A a \in 1..Len(text) : text[a] \in Range(text)
    BY RangeIs
  <2>3. \A x \in Range(text) : \E a \in 1..Len(text) : x = text[a]
    BY RangeIs
  <2>4. \A a, b \in 1..Len(text) : text[a] = text[b] => a = b
    BY RangeIs
  <2> QED BY <2>1, <2>2, <2>3, <2>4
<1>4. \A a \in 1..Len(text) : \E i \in 1..bound : all[i] = text[a]
  <2> TAKE a \in 1..Len(text)
  <2>1. text[a] \in Range(text) /\ Range(text) \subseteq Range(all)
    BY RangeIs
  <2> QED BY <2>1, RangeIs
<1> DEFINE U == {k \in 0..bound : ReadSoFar(all, text, k, f[k])}
<1>5. 0 \in U
  <2>1. f[0] = <<>>
    BY <1>1 DEF Picks
  <2> QED BY <1>2, <1>3, <2>1 DEF ReadSoFar
<1>6. ASSUME NEW k \in 0..bound, k \in U, k < bound PROVE k + 1 \in U
  <2> DEFINE s == f[k]
             t == f[k + 1]
             y == all[k + 1]
  <2>1. k + 1 \in 0..bound /\ k + 1 \in 1..bound /\ k \in Nat /\ s \in Seq(T) /\ y \in T
    <3>1. k + 1 \in 0..bound /\ k + 1 \in 1..bound /\ k \in Nat
      BY <1>2, <1>6
    <3>2. s \in Seq(T)
      BY <1>1 DEF Picks
    <3> QED BY <3>1, <3>2
  <2>2. t = IF y \in S THEN Append(s, y) ELSE s
    BY <1>1, <1>6 DEF Picks
  <2>3. ReadSoFar(all, text, k, s)
    BY <1>6
  <2>4. \A i \in 1..k : i \in 1..bound /\ i \in 1..(k + 1) /\ all[i] # y
    BY <1>2, <2>1
  <2>5. \A i \in 1..(k + 1) : i \in 1..k \/ i = k + 1
    BY <2>1
  <2> HIDE DEF s, t, y
  <2>6. CASE y \in S
    <3>1. t = Append(s, y)
      BY <2>2, <2>6
    <3>2. /\ Len(t) = Len(s) + 1 /\ Len(s) \in Nat /\ t[Len(s) + 1] = y
          /\ \A a \in 1..Len(s) : t[a] = s[a]
      BY <3>1, <2>1
    <3>3. PICK b \in 1..Len(text) : y = text[b]
      BY <2>1, <2>6, <1>3 DEF y
    <3>4. b > Len(s)
      <4> SUFFICES ASSUME b <= Len(s) PROVE FALSE
        BY <3>2
      <4>1. b \in 1..Len(s)
        BY <3>2
      <4>2. PICK i \in 1..k : all[i] = text[b]
        BY <4>1, <2>3 DEF ReadSoFar
      <4> QED BY <4>2, <3>3, <2>4
    <3>5. b = Len(s) + 1
      <4> SUFFICES ASSUME b # Len(s) + 1 PROVE FALSE
        OBVIOUS
      <4> DEFINE c == Len(s) + 1
      <4>1. c \in 1..Len(text) /\ c < b
        BY <3>2, <3>4
      <4>2. PICK i \in 1..bound : all[i] = text[c]
        BY <4>1, <1>4
      <4>3. i < k + 1
        BY <4>1, <4>2, <3>3, <2>1 DEF KeepsOrder, y
      <4>4. i \in 1..k
        BY <4>3, <2>1
      <4>5. c <= Len(s)
        BY <4>1, <4>2, <4>4, <2>3 DEF ReadSoFar
      <4> QED BY <4>5, <3>2
    <3>6. Len(t) <= Len(text)
      BY <3>2, <3>5
    <3>7. ASSUME NEW a \in 1..Len(t)
          PROVE  t[a] = text[a] /\ \E i \in 1..(k + 1) : all[i] = text[a]
      <4>1. CASE a \in 1..Len(s)
        <5>1. s[a] = text[a] /\ \E i \in 1..k : all[i] = text[a]
          BY <4>1, <2>3 DEF ReadSoFar
        <5> QED BY <5>1, <4>1, <3>2, <2>4
      <4>2. CASE a = Len(s) + 1
        <5>1. k + 1 \in 1..(k + 1)
          BY <2>1
        <5> QED BY <5>1, <4>2, <3>2, <3>3, <3>5 DEF y
      <4> QED BY <4>1, <4>2, <3>2
    <3>8. ASSUME NEW a \in 1..Len(text), NEW i \in 1..(k + 1), all[i] = text[a]
          PROVE  a <= Len(t)
      <4>1. CASE i \in 1..k
        <5>1. a <= Len(s)
          BY <4>1, <3>8, <2>3 DEF ReadSoFar
        <5> QED BY <5>1, <3>2
      <4>2. CASE i = k + 1
        <5>1. text[a] = text[b]
          BY <4>2, <3>8, <3>3 DEF y
        <5> QED BY <5>1, <1>3, <3>2, <3>5
      <4> QED BY <4>1, <4>2, <2>5
    <3>9. ReadSoFar(all, text, k + 1, t)
      BY <3>6, <3>7, <3>8 DEF ReadSoFar
    <3> QED BY <3>9, <2>1 DEF t
  <2>7. CASE y \notin S
    <3>1. t = s
      BY <2>2, <2>7
    <3>2. \A a \in 1..Len(text) : text[a] # y
      BY <1>3, <2>7
    <3>3. ReadSoFar(all, text, k + 1, s)
      <4>1. Len(s) <= Len(text)
        BY <2>3 DEF ReadSoFar
      <4>2. \A a \in 1..Len(s) : s[a] = text[a] /\ \E i \in 1..(k + 1) : all[i] = text[a]
        BY <2>3, <2>4 DEF ReadSoFar
      <4>3. \A a \in 1..Len(text) : \A i \in 1..(k + 1) : all[i] = text[a] => a <= Len(s)
        BY <2>3, <2>5, <3>2 DEF ReadSoFar, y
      <4> QED BY <4>1, <4>2, <4>3 DEF ReadSoFar
    <3> QED BY <3>1, <3>3, <2>1 DEF t
  <2> QED BY <2>6, <2>7
<1> HIDE DEF U
<1>7. \A k \in 0..bound : k \in U
  BY <1>2, <1>5, <1>6, StepByStep
<1> DEFINE all1 == f[bound]
<1>8. ReadSoFar(all, text, bound, all1) /\ bound \in 0..bound
  BY <1>2, <1>7 DEF U
<1>9. all1 \in Seq(T) /\ Only(S, all) = all1
  BY <1>1, <1>8 DEF Picks
<1> HIDE DEF all1
<1>10. Len(all1) \in Nat /\ Len(all1) <= Len(text)
  BY <1>8, <1>9 DEF ReadSoFar
<1>11. Len(all1) = Len(text)
  <2>1. CASE Len(text) = 0
    BY <2>1, <1>10
  <2>2. CASE Len(text) # 0
    <3>1. Len(text) \in 1..Len(text)
      BY <2>2, <1>3
    <3>2. PICK i \in 1..bound : all[i] = text[Len(text)]
      BY <3>1, <1>4
    <3>3. Len(text) <= Len(all1)
      BY <3>1, <3>2, <1>8 DEF ReadSoFar
    <3> QED BY <3>3, <1>10, <1>3
  <2> QED BY <2>1, <2>2
<1>12. \A a \in 1..Len(text) : all1[a] = text[a]
  BY <1>8, <1>11 DEF ReadSoFar
<1>13. all1 = text
  BY <1>9, <1>11, <1>12, SeqEqual
<1> QED BY <1>9, <1>13

-----------------------------------------------------------------------------
(* Applying operations moves no block.                                     *)

\* What the first k operations of a proposal have made.
MadeTill(p, r, k) == {x \in Block : \E j, i \in Nat : j <= k /\ x.of = <<p, r, reloads, j, i>>}

\* `now' shows the blocks of `text' that are left in their order, and new ones.
Settled(p, r, k, text, now) ==
    /\ KeepsOrder(text, now) /\ IsInjective(now)
    /\ Range(now) \subseteq Range(text) \cup MadeTill(p, r, k)

LEMMA BroughtOf ==
    ASSUME NEW p, NEW r, NEW op \in Op, NEW k, NEW i \in 1..op.nodes
    PROVE  Brought(p, r, k, op)[i].of = <<p, r, reloads, k, i>>
<1>1. /\ Minted(p, r, k, i).of = <<p, r, reloads, k, i>>
      /\ NewBlock(p, r, k, i, op.id).of = <<p, r, reloads, k, i>>
  BY DEF Minted, NewBlock
<1>2. Brought(p, r, k, op)[i] =
        IF op.op = "replace" /\ i = 1 THEN NewBlock(p, r, k, i, op.id) ELSE Minted(p, r, k, i)
  BY DEF Brought
<1> QED BY <1>1, <1>2

\* What an operation brings is found nowhere yet.
LEMMA BroughtAreNew ==
    ASSUME NEW p \in Offers, NEW r \in Replicas, NEW k \in Nat, NEW op \in Op, reloads \in Nat
    PROVE  /\ IsInjective(Brought(p, r, k + 1, op))
           /\ Range(Brought(p, r, k + 1, op)) \subseteq MadeTill(p, r, k + 1)
           /\ Range(Brought(p, r, k + 1, op)) \subseteq MadeBy(p, r)
           /\ Range(Brought(p, r, k + 1, op)) \cap MadeTill(p, r, k) = {}
<1> DEFINE n == k + 1
           b == Brought(p, r, n, op)
<1>1. n \in Nat /\ n > k
  OBVIOUS
<1>2. b \in Seq(Block) /\ Len(b) = op.nodes
  <2> HIDE DEF n
  <2> QED BY <1>1, BroughtLong
<1>3. \A i \in 1..op.nodes : b[i].of = <<p, r, reloads, n, i>>
  BY BroughtOf
<1>4. op.nodes \in Nat
  BY DEF Op
<1>5. Range(b) \subseteq MadeBy(p, r)
  <2> HIDE DEF n
  <2> QED BY <1>1, BroughtIs
<1> HIDE DEF b, n
<1>6. \A x \in Range(b) : x \in Block /\ \E i \in Nat : x.of = <<p, r, reloads, n, i>>
  <2> TAKE x \in Range(b)
  <2>1. x \in Block /\ \E i \in 1..Len(b) : x = b[i]
    BY <1>2, RangeIs
  <2>2. PICK i \in 1..op.nodes : x = b[i]
    BY <1>2, <2>1
  <2>3. i \in Nat
    BY <1>4
  <2> QED BY <1>3, <2>1, <2>2, <2>3
<1>7. IsInjective(b)
  <2>1. ASSUME NEW i \in 1..Len(b), NEW j \in 1..Len(b), b[i] = b[j] PROVE i = j
    <3>1. <<p, r, reloads, n, i>> = <<p, r, reloads, n, j>>
      BY <2>1, <1>2, <1>3
    <3> QED BY <3>1
  <2> QED BY <1>2, <2>1, RangeIs
<1>8. Range(b) \subseteq MadeTill(p, r, n)
  <2> SUFFICES ASSUME NEW x \in Range(b) PROVE x \in MadeTill(p, r, n)
    OBVIOUS
  <2>1. PICK i \in Nat : x.of = <<p, r, reloads, n, i>>
    BY <1>6
  <2>2. x \in Block /\ n <= n
    BY <1>1, <1>6
  <2> QED BY <1>1, <2>1, <2>2 DEF MadeTill
<1>9. Range(b) \cap MadeTill(p, r, k) = {}
  <2> SUFFICES ASSUME NEW x \in Range(b), x \in MadeTill(p, r, k) PROVE FALSE
    OBVIOUS
  <2>1. PICK i \in Nat : x.of = <<p, r, reloads, n, i>>
    BY <1>6
  <2>2. PICK j \in Nat, m \in Nat : j <= k /\ x.of = <<p, r, reloads, j, m>>
    BY DEF MadeTill
  <2>3. j = n
    BY <2>1, <2>2
  <2> QED BY <2>2, <2>3, <1>1
<1> QED BY <1>5, <1>7, <1>8, <1>9 DEF b, n

\* What splicing the blocks of an operation into a settled text comes to.
LEMMA SplicedSettled ==
    ASSUME NEW p \in Offers, NEW r \in Replicas, NEW k \in Nat, NEW op \in Op, reloads \in Nat,
           NEW text \in Seq(Block), Range(text) \cap MadeBy(p, r) = {},
           NEW now \in Seq(Block), Settled(p, r, k, text, now), NEW at \in 0..Len(now)
    PROVE  Settled(p, r, k + 1, text, Spliced(now, at, Brought(p, r, k + 1, op)))
<1> DEFINE n == k + 1
           new == Brought(p, r, n, op)
           long == Spliced(now, at, new)
<1>0. n \in Nat
  OBVIOUS
<1>1. new \in Seq(Block)
  <2> HIDE DEF n
  <2> QED BY <1>0, BroughtLong
<1>2. /\ IsInjective(new) /\ Range(new) \subseteq MadeTill(p, r, n)
      /\ Range(new) \subseteq MadeBy(p, r) /\ Range(new) \cap MadeTill(p, r, k) = {}
  BY BroughtAreNew
<1>3. MadeTill(p, r, k) \subseteq MadeTill(p, r, n)
  BY DEF MadeTill
<1> HIDE DEF new
<1>4. /\ KeepsOrder(text, now) /\ IsInjective(now)
      /\ Range(now) \subseteq Range(text) \cup MadeTill(p, r, k)
  BY DEF Settled
<1>5. Range(new) \cap Range(text) = {} /\ Range(new) \cap Range(now) = {}
  BY <1>2, <1>4
<1>6. KeepsOrder(text, long) /\ IsInjective(long)
  BY <1>1, <1>2, <1>4, <1>5, SplicedOrder
<1>7. Range(long) = Range(now) \cup Range(new)
  BY <1>1, SplicedIs
<1> HIDE DEF long
<1>8. Settled(p, r, n, text, long)
  BY <1>2, <1>3, <1>4, <1>6, <1>7 DEF Settled
<1> QED BY <1>8 DEF n, new, long

LEMMA WithoutSettled ==
    ASSUME NEW p, NEW r, NEW k \in Nat, NEW text \in Seq(Block),
           NEW now \in Seq(Block), Settled(p, r, k, text, now), NEW at \in 1..Len(now)
    PROVE  Settled(p, r, k, text, Without(now, at))
<1>1. KeepsOrder(text, Without(now, at)) /\ IsInjective(Without(now, at))
  BY WithoutOrder DEF Settled
<1>2. Range(Without(now, at)) \subseteq Range(now)
  BY WithoutIs
<1> QED BY <1>1, <1>2 DEF Settled

LEMMA SettledGrows ==
    ASSUME NEW p, NEW r, NEW k \in Nat, NEW text, NEW now, Settled(p, r, k, text, now)
    PROVE  Settled(p, r, k + 1, text, now)
<1>1. MadeTill(p, r, k) \subseteq MadeTill(p, r, k + 1)
  BY DEF MadeTill
<1> QED BY <1>1 DEF Settled

LEMMA StepSettled ==
    ASSUME NEW p \in Offers, NEW r \in Replicas, NEW ops \in Seq(Op), reloads \in Nat,
           NEW text \in Seq(Block), Range(text) \cap MadeBy(p, r) = {},
           NEW s \in Applying, NEW k \in Nat, k + 1 \in 1..Len(ops),
           Settled(p, r, k, text, s.text)
    PROVE  Settled(p, r, k + 1, text, Step(p, r, ops, s, k + 1).text)
<1> DEFINE m == k + 1
           op == ops[m]
           now == s.text
           pos == Found(now, op.id)
           new == Brought(p, r, m, op)
           n == Step(p, r, ops, s, m)
<1>1. op \in Op /\ m \in 1..Len(ops)
  OBVIOUS
<1>2. op.op \in {"replace", "insert_after", "delete"} /\ op.id \in Blocks
  <2> HIDE DEF op
  <2> QED BY <1>1 DEF Op
<1>3. now \in Seq(Block) /\ s.trailing \in [Blocks -> Nat] /\ Len(now) \in Nat
  BY DEF Applying
<1>4. pos \in 0..Len(now)
  <2> HIDE DEF now
  <2> QED BY <1>3, FoundIs
<1>5. CASE pos = 0
  <2>1. n.text = now
    <3>1. s = [text |-> s.text, trailing |-> s.trailing, skipped |-> s.skipped]
      BY DEF Applying
    <3>2. n = [s EXCEPT !.skipped = @ \cup {m}]
      BY <1>5 DEF Step
    <3> HIDE DEF n
    <3> QED BY <3>1, <3>2
  <2> HIDE DEF n, now, m
  <2>2. Settled(p, r, k + 1, text, now)
    BY SettledGrows DEF now
  <2> QED BY <2>1, <2>2 DEF n, m
<1>6. CASE pos # 0
  <2>1. Does(op, s, new, n)
    BY <1>1, <1>6, StepDoes
  <2>2. pos \in 1..Len(now)
    BY <1>3, <1>4, <1>6
  <2> HIDE DEF op, n
  <2>3. CASE op.op = "delete"
    <3>1. n.text = Without(now, pos)
      BY <2>1, <2>3 DEF Does
    <3> HIDE DEF now, pos
    <3>2. Settled(p, r, k, text, Without(now, pos))
      BY <1>3, <2>2, WithoutSettled DEF now
    <3> QED BY <3>1, <3>2, SettledGrows DEF n, op
  <2>4. CASE op.op = "replace"
    <3>1. n.text = Spliced(Without(now, pos), pos - 1, new)
      BY <2>1, <2>4 DEF Does
    <3> HIDE DEF now, pos
    <3>2. Settled(p, r, k, text, Without(now, pos))
      BY <1>3, <2>2, WithoutSettled DEF now
    <3>3. Without(now, pos) \in Seq(Block) /\ Len(Without(now, pos)) = Len(now) - 1
      BY <1>3, <2>2, WithoutIs
    <3>4. pos - 1 \in 0..Len(Without(now, pos))
      BY <1>3, <2>2, <3>3
    <3>5. Settled(p, r, k + 1, text, Spliced(Without(now, pos), pos - 1, new))
      BY <1>1, <3>2, <3>3, <3>4, SplicedSettled
    <3> QED BY <3>1, <3>5 DEF n, op
  <2>5. CASE op.op = "insert_after"
    <3> DEFINE behind == pos + Carried(s.trailing, op.id)
               at == IF behind > Len(now) THEN Len(now) ELSE behind
    <3>1. n.text = Spliced(now, at, new)
      BY <2>1, <2>5 DEF Does
    <3>2. Carried(s.trailing, op.id) \in Nat
      BY <1>2, <1>3 DEF Carried
    <3>3. at \in 0..Len(now)
      BY <1>3, <2>2, <3>2
    <3> HIDE DEF at, behind
    <3>4. Settled(p, r, k + 1, text, Spliced(now, at, new))
      BY <1>1, <1>3, <3>3, SplicedSettled
    <3> QED BY <3>1, <3>4 DEF n, op
  <2> QED BY <1>2, <2>3, <2>4, <2>5
<1> QED BY <1>5, <1>6

\* However many operations: the blocks that are left stay in their order, and no
\* block is there twice.
LEMMA ApplySettled ==
    ASSUME NEW p \in Offers, NEW r \in Replicas, NEW ops \in Seq(Op), reloads \in Nat,
           NEW text \in Seq(Block), IsInjective(text), Range(text) \cap MadeBy(p, r) = {}
    PROVE  LET now == Apply(p, r, ops, text).text
           IN  now \in Seq(Block) /\ KeepsOrder(text, now) /\ IsInjective(now)
<1> DEFINE bound == Len(ops)
<1>1. bound \in Nat
  OBVIOUS
<1>2. PICK f : Applies(f, p, r, ops, text)
  BY ApplyWalks
<1> DEFINE U == {k \in 0..bound : Settled(p, r, k, text, f[k].text)}
<1>3. 0 \in U
  <2>1. f[0].text = text
    BY <1>2 DEF Applies, Untouched
  <2>2. KeepsOrder(text, text)
    <3>1. \A i, j \in 1..Len(text) : text[i] = text[j] => i = j
      BY RangeIs
    <3> QED BY <3>1 DEF KeepsOrder
  <2>3. Settled(p, r, 0, text, text)
    BY <2>2 DEF Settled
  <2> QED BY <1>1, <2>1, <2>3
<1>4. ASSUME NEW k \in 0..bound, k \in U, k < bound PROVE k + 1 \in U
  <2>1. k + 1 \in 1..bound /\ k + 1 \in 0..bound /\ k \in Nat /\ f[k] \in Applying
    BY <1>1, <1>2, <1>4 DEF Applies
  <2>2. f[k + 1] = Step(p, r, ops, f[k], k + 1)
    BY <1>2, <1>4 DEF Applies
  <2>3. Settled(p, r, k, text, f[k].text)
    BY <1>4
  <2>4. Settled(p, r, k + 1, text, f[k + 1].text)
    BY <2>1, <2>2, <2>3, StepSettled
  <2> QED BY <2>1, <2>4
<1> HIDE DEF U
<1>5. \A k \in 0..bound : k \in U
  BY <1>1, <1>3, <1>4, StepByStep
<1>6. Settled(p, r, bound, text, f[bound].text) /\ f[bound] \in Applying
  BY <1>1, <1>2, <1>5 DEF U, Applies
<1>7. Apply(p, r, ops, text) = f[bound]
  BY <1>2 DEF Applies
<1> QED BY <1>6, <1>7 DEF Settled, Applying

-----------------------------------------------------------------------------
(* What is shown after an accept.                                          *)

\* What has been taken away was in the text once.
CutsAreKnown ==
    \A r \in Replicas : \A f \in Facts(knows[r], "change") : f.removed \subseteq Range(order)

\* What two facts more, a decision and a change, make of what is there and gone.
LEMMA FactsAdd ==
    ASSUME NEW facts, NEW d, NEW c, d.is = "decision", c.is = "change"
    PROVE  /\ There(facts \cup {d, c}) = There(facts) \cup c.added
           /\ Gone(facts \cup {d, c}) = Gone(facts) \cup c.removed
<1>1. Facts(facts \cup {d, c}, "change") = Facts(facts, "change") \cup {c}
  BY DEF Facts
<1> QED BY <1>1 DEF There, Gone

\* An order that keeps to a part of the blocks keeps to the text that comes of it.
LEMMA OrderFollows ==
    ASSUME NEW T, NEW all \in Seq(T), NEW text \in Seq(T), NEW now \in Seq(T),
           KeepsOrder(all, text), KeepsOrder(text, now),
           Range(now) \cap Range(all) \subseteq Range(text)
    PROVE  KeepsOrder(all, now)
<1> SUFFICES ASSUME NEW i \in 1..Len(all), NEW j \in 1..Len(all),
                    NEW a \in 1..Len(now), NEW b \in 1..Len(now),
                    all[i] = now[a], all[j] = now[b], a < b
             PROVE  i < j
  BY DEF KeepsOrder
<1>1. now[a] \in Range(text) /\ now[b] \in Range(text)
  <2>1. now[a] \in Range(now) /\ now[b] \in Range(now)
    BY RangeIs
  <2>2. all[i] \in Range(all) /\ all[j] \in Range(all)
    BY RangeIs
  <2> QED BY <2>1, <2>2
<1>0. \A x \in Range(text) : \E c \in 1..Len(text) : x = text[c]
  BY RangeIs
<1>2. PICK c \in 1..Len(text) : now[a] = text[c]
  BY <1>0, <1>1
<1>3. PICK d \in 1..Len(text) : now[b] = text[d]
  BY <1>0, <1>1
<1>4. c < d
  BY <1>2, <1>3 DEF KeepsOrder
<1> QED BY <1>2, <1>3, <1>4 DEF KeepsOrder

\* Who accepts shows the text as the operations mean it.
LEMMA AcceptedReads ==
    ASSUME ProposalsInv, CutsAreKnown, NEW r \in Replicas, NEW p \in Offers, Pending(knows[r], p)
    PROVE  LET acc == Accepted(r, p)
           IN  TextIn(knows[r] \cup {acc.decision, acc.change}, acc.order)
                 = Meant(p, r, OpsIn(knows[r], p), TextIn(knows[r], order))
<1> DEFINE ops == OpsIn(knows[r], p)
           text == TextIn(knows[r], order)
           now == Apply(p, r, ops, text).text
           acc == Accepted(r, p)
           facts == knows[r] \cup {acc.decision, acc.change}
<1>1. /\ acc.order = Woven(order, now)
      /\ acc.decision.is = "decision" /\ acc.change.is = "change"
      /\ acc.change.added = ToSet(now) \ ToSet(text)
      /\ acc.change.removed = ToSet(text) \ ToSet(now)
  BY DEF Accepted, Decided, Change
<1>2. ops \in Seq(Op)
  BY OfferIs DEF Pending
<1>3. order \in Seq(Block) /\ IsInjective(order) /\ reloads \in Nat
  BY DEF ProposalsInv, PropTypeOK, OrderIsOne
<1>4. /\ text \in Seq(Block) /\ IsInjective(text)
      /\ Range(text) = Range(order) \cap (There(knows[r]) \ Gone(knows[r]))
  BY <1>3, TextIs
<1>5. Range(order) \cap MadeBy(p, r) = {}
  <2> SUFFICES ASSUME NEW x \in Range(order), x \in MadeBy(p, r) PROVE FALSE
    OBVIOUS
  <2>1. PICK k \in Nat, i \in Nat : x.of = <<p, r, reloads, k, i>>
    BY DEF MadeBy
  <2>2. x.of \in Identity /\ x.of[1] = p /\ x.of[2] = r /\ x.of[3] = reloads
    BY <1>3, <2>1 DEF Identity, Life
  <2>3. DecisionsIn(knows[r], p) # {}
    BY <1>3, <2>2 DEF ProposalsInv, MintedOnce
  <2> QED BY <2>3 DEF Pending
<1>6. KeepsOrder(order, text)
  BY <1>3, OnlyOrder DEF TextIn
<1>7. now = Meant(p, r, ops, text)
  <2> HIDE DEF ops, text
  <2> QED BY <1>2, <1>3, <1>4, ApplyMeans
<1>8. now \in Seq(Block) /\ KeepsOrder(text, now) /\ IsInjective(now)
  <2> HIDE DEF ops, text
  <2>1. Range(text) \cap MadeBy(p, r) = {}
    BY <1>4, <1>5
  <2> QED BY <1>2, <1>3, <1>4, <2>1, ApplySettled
<1>9. Range(now) \subseteq Range(text) \cup MadeBy(p, r)
  <2> HIDE DEF ops, text
  <2>1. Range(text) \cap MadeBy(p, r) = {}
    BY <1>4, <1>5
  <2> QED BY <1>2, <1>3, <1>4, <2>1, ApplyIs
<1> HIDE DEF ops, text, now, acc
<1>10. ToSet(now) = Range(now) /\ ToSet(text) = Range(text)
  BY <1>4, <1>8, RangeIs
<1>11. /\ acc.order \in Seq(Block) /\ IsInjective(acc.order)
       /\ Range(acc.order) = Range(order) \cup Range(now)
  BY <1>1, <1>3, <1>8, WovenIs
<1>12. KeepsOrder(order, now)
  <2>1. Range(now) \cap Range(order) \subseteq Range(text)
    BY <1>5, <1>9
  <2> QED BY <1>3, <1>4, <1>6, <1>8, <2>1, OrderFollows
<1>13. KeepsOrder(acc.order, now)
  BY <1>1, <1>3, <1>8, <1>12, WovenOrder
<1>14. /\ There(facts) = There(knows[r]) \cup (Range(now) \ Range(text))
       /\ Gone(facts) = Gone(knows[r]) \cup (Range(text) \ Range(now))
  <2> DEFINE d == acc.decision
             c == acc.change
  <2>0. d.is = "decision" /\ c.is = "change" /\ facts = knows[r] \cup {d, c}
    BY <1>1
  <2> HIDE DEF d, c, facts
  <2>1. There(facts) = There(knows[r]) \cup c.added
    BY <2>0, FactsAdd
  <2>2. Gone(facts) = Gone(knows[r]) \cup c.removed
    BY <2>0, FactsAdd
  <2> USE DEF c
  <2> QED BY <1>1, <1>10, <2>1, <2>2
<1>15. Gone(knows[r]) \subseteq Range(order)
  BY DEF CutsAreKnown, Gone
<1> HIDE DEF facts
<1>16. (There(facts) \ Gone(facts)) \cap Range(acc.order) = Range(now)
  <2>1. ASSUME NEW x \in Range(now) PROVE x \in There(facts) \ Gone(facts)
    <3>1. CASE x \in Range(text)
      BY <1>4, <1>14, <3>1, <2>1
    <3>2. CASE x \notin Range(text)
      BY <1>5, <1>9, <1>14, <1>15, <3>2, <2>1
    <3> QED BY <3>1, <3>2
  <2>2. ASSUME NEW x \in Range(acc.order), x \in There(facts) \ Gone(facts), x \notin Range(now)
        PROVE  FALSE
    <3>1. x \in Range(text)
      BY <1>4, <1>11, <1>14, <2>2
    <3> QED BY <1>14, <2>2, <3>1
  <2> QED BY <1>11, <2>1, <2>2
<1>17. Only(There(facts) \ Gone(facts), acc.order) = now
  BY <1>8, <1>11, <1>13, <1>16, OnlyReads
<1> QED BY <1>7, <1>17 DEF TextIn, acc, facts, ops, text

-----------------------------------------------------------------------------
(* A change is at home where it was made.                                  *)

\* A change that a proposal brought about is known to who made it, unless some
\* page has been opened again since; a page sends no other's.
AtHome(f) ==
    f.about \in Offers =>
        f.by \in Replicas /\ f.life \in Nat /\ f.life <= reloads
          /\ (f.life = reloads => f \in knows[f.by])

ChangesAreHome ==
    /\ \A r \in Replicas : \A f \in Facts(knows[r], "change") : AtHome(f)
    /\ \A g \in Pages : \A f \in Facts(Range(sent[g]), "change") : f.about \in Offers => f.by = g

MeantInv == ProposalsInv /\ CutsAreKnown /\ ChangesAreHome

LEMMA HomeTypes ==
    ASSUME MeantInv
    PROVE  /\ knows \in [Replicas -> SUBSET Fact] /\ sent \in [Pages -> Seq(Fact)]
           /\ order \in Seq(Block) /\ reloads \in Nat
           /\ Server \in Replicas /\ Pages \subseteq Replicas /\ Server \notin Pages
           /\ \A g \in Pages : Range(sent[g]) \subseteq knows[g]
<1>1. /\ knows \in [Replicas -> SUBSET Fact] /\ sent \in [Pages -> Seq(Fact)]
      /\ order \in Seq(Block) /\ reloads \in Nat
  BY DEF MeantInv, ProposalsInv, PropTypeOK
<1>2. Server \in Replicas /\ Pages \subseteq Replicas /\ Server \notin Pages
  BY ProposalsAssumption DEF Replicas, ProposalsAssumption
<1>3. ASSUME NEW g \in Pages, NEW f \in Range(sent[g]) PROVE f \in knows[g]
  <2>1. sent[g] \in Seq(Fact)
    BY <1>1
  <2>2. PICK i \in 1..Len(sent[g]) : f = sent[g][i]
    BY <2>1, RangeIs
  <2> QED BY <2>2 DEF MeantInv, ProposalsInv, PagesSendAll
<1> QED BY <1>1, <1>2, <1>3

\* Who learns changes learns them from others, or makes them.
LEMMA HomeStays ==
    ASSUME MeantInv, reloads' = reloads, Range(order) \subseteq Range(order'),
           \A r \in Replicas : knows[r] \subseteq knows'[r],
           \A r \in Replicas : \A f \in Facts(knows'[r], "change") :
              \/ \E q \in Replicas : f \in knows[q]
              \/ /\ f.removed \subseteq Range(order')
                 /\ f.about \in Offers => f.by = r /\ f.life = reloads,
           \A g \in Pages : \A f \in Facts(Range(sent'[g]), "change") :
              f \in Range(sent[g]) \/ (f.about \in Offers => f.by = g)
    PROVE  CutsAreKnown' /\ ChangesAreHome'
<1>0. reloads \in Nat
  BY HomeTypes
<1>1. ASSUME NEW r \in Replicas, NEW f \in Facts(knows'[r], "change")
      PROVE  f.removed \subseteq Range(order') /\ AtHome(f)'
  <2>1. f \in knows'[r] /\ f.is = "change"
    BY DEF Facts
  <2>2. CASE \E q \in Replicas : f \in knows[q]
    <3>1. PICK q \in Replicas : f \in Facts(knows[q], "change")
      BY <2>1, <2>2 DEF Facts
    <3>2. f.removed \subseteq Range(order) /\ AtHome(f)
      BY <3>1 DEF MeantInv, CutsAreKnown, ChangesAreHome
    <3> QED BY <3>2 DEF AtHome
  <2>3. CASE /\ f.removed \subseteq Range(order')
             /\ f.about \in Offers => f.by = r /\ f.life = reloads
    BY <1>0, <2>1, <2>3 DEF AtHome
  <2> QED BY <2>2, <2>3
<1>2. CutsAreKnown'
  BY <1>1 DEF CutsAreKnown
<1>3. ASSUME NEW g \in Pages, NEW f \in Facts(Range(sent'[g]), "change"), f.about \in Offers
      PROVE  f.by = g
  <2>1. CASE f \in Range(sent[g])
    <3>1. f \in Facts(Range(sent[g]), "change")
      BY <2>1 DEF Facts
    <3> QED BY <3>1, <1>3 DEF MeantInv, ChangesAreHome
  <2> QED BY <2>1, <1>3
<1>4. ChangesAreHome'
  BY <1>1, <1>3 DEF ChangesAreHome
<1> QED BY <1>2, <1>4

LEMMA MeantInitGood == ProposalsInit => MeantInv
<1> SUFFICES ASSUME ProposalsInit PROVE MeantInv
  OBVIOUS
<1>1. ProposalsInv
  BY ProposalsInitGood
<1>2. \A r \in Replicas : knows[r] = {}
  BY DEF ProposalsInit
<1>3. \A g \in Pages : sent[g] = <<>>
  BY DEF ProposalsInit
<1>4. CutsAreKnown
  BY <1>2 DEF CutsAreKnown, Facts
<1>5. ChangesAreHome
  <2>1. Range(<<>>) = {}
    BY DEF Range
  <2> QED BY <1>2, <1>3, <2>1 DEF ChangesAreHome, Facts
<1> QED BY <1>1, <1>4, <1>5 DEF MeantInv

\* A replica hears of facts that change nothing, or that others know.
LEMMA QuietStays ==
    ASSUME MeantInv, reloads' = reloads, Range(order) \subseteq Range(order'), NEW r \in Replicas,
           NEW new, knows' = [knows EXCEPT ![r] = @ \cup new],
           \A f \in Facts(new, "change") : \E q \in Replicas : f \in knows[q],
           \A g \in Pages : Facts(Range(sent'[g]), "change") \subseteq Range(sent[g])
    PROVE  CutsAreKnown' /\ ChangesAreHome'
<1>1. knows'[r] = knows[r] \cup new /\ \A q \in Replicas : q # r => knows'[q] = knows[q]
  BY HomeTypes
<1>2. \A q \in Replicas : knows[q] \subseteq knows'[q]
  BY <1>1
<1>3. \A q \in Replicas : \A f \in Facts(knows'[q], "change") : \E w \in Replicas : f \in knows[w]
  <2> TAKE q \in Replicas
  <2> TAKE f \in Facts(knows'[q], "change")
  <2>1. f \in knows'[q] /\ f.is = "change"
    BY DEF Facts
  <2>2. f \in knows[q] \/ (q = r /\ f \in Facts(new, "change"))
    BY <1>1, <2>1 DEF Facts
  <2> QED BY <2>2
<1> QED BY <1>2, <1>3, HomeStays

\* A replica makes a change and, being a page, sends it.
LEMMA ChangeStays ==
    ASSUME MeantInv, reloads' = reloads, Range(order) \subseteq Range(order'), NEW r \in Replicas,
           NEW new, knows' = [knows EXCEPT ![r] = @ \cup new],
           \A f \in Facts(new, "change") :
              /\ f.removed \subseteq Range(order)
              /\ f.about \in Offers => f.by = r /\ f.life = reloads,
           \A g \in Pages : \A f \in Range(sent'[g]) : f \in Range(sent[g]) \/ (g = r /\ f \in new)
    PROVE  CutsAreKnown' /\ ChangesAreHome'
<1>1. knows'[r] = knows[r] \cup new /\ \A q \in Replicas : q # r => knows'[q] = knows[q]
  BY HomeTypes
<1>2. \A q \in Replicas : knows[q] \subseteq knows'[q]
  BY <1>1
<1>3. ASSUME NEW q \in Replicas, NEW f \in Facts(knows'[q], "change")
      PROVE  \/ \E w \in Replicas : f \in knows[w]
             \/ /\ f.removed \subseteq Range(order')
                /\ f.about \in Offers => f.by = q /\ f.life = reloads
  <2>1. f \in knows'[q] /\ f.is = "change"
    BY DEF Facts
  <2>2. f \in knows[q] \/ (q = r /\ f \in Facts(new, "change"))
    BY <1>1, <2>1 DEF Facts
  <2> QED BY <2>2
<1>4. ASSUME NEW g \in Pages, NEW f \in Facts(Range(sent'[g]), "change")
      PROVE  f \in Range(sent[g]) \/ (f.about \in Offers => f.by = g)
  <2>1. f \in Range(sent'[g]) /\ f.is = "change"
    BY DEF Facts
  <2>2. f \in Range(sent[g]) \/ (g = r /\ f \in Facts(new, "change"))
    BY <2>1 DEF Facts
  <2> QED BY <2>2
<1> QED BY <1>2, <1>3, <1>4, HomeStays

\* What an accept changes.
LEMMA AcceptedCuts ==
    ASSUME MeantInv, NEW r \in Replicas, NEW p \in Offers, Pending(knows[r], p), Accepted(r, p).valid
    PROVE  LET acc == Accepted(r, p)
           IN  /\ acc.decision.is = "decision" /\ acc.change.is = "change"
               /\ acc.change.removed \subseteq Range(order) /\ acc.change.about = p
               /\ acc.change.by = r /\ acc.change.life = reloads
               /\ Range(order) \subseteq Range(acc.order)
<1> DEFINE acc == Accepted(r, p)
           text == TextIn(knows[r], order)
<1>1. Counts(acc, r, p)
  BY AcceptedIs DEF MeantInv
<1>2. acc.change.removed \subseteq ToSet(text)
  BY DEF Accepted, Change
<1>3. text \in Seq(Block) /\ Range(text) \subseteq Range(order)
  BY HomeTypes, TextIs
<1> HIDE DEF acc, text
<1>4. ToSet(text) = Range(text)
  BY <1>3, RangeIs
<1>5. acc.change.removed \subseteq Range(order)
  BY <1>2, <1>3, <1>4
<1> QED BY <1>1, <1>5 DEF Counts, acc

LEMMA SendsMore ==
    ASSUME MeantInv, NEW g \in Pages, NEW more \in Seq(Fact),
           sent' = [sent EXCEPT ![g] = @ \o more]
    PROVE  \A h \in Pages : \A f \in Range(sent'[h]) : f \in Range(sent[h]) \/ (h = g /\ f \in Range(more))
<1>1. sent \in [Pages -> Seq(Fact)]
  BY HomeTypes
<1>2. \A h \in Pages : h # g => sent'[h] = sent[h]
  BY <1>1
<1>3. sent'[g] = sent[g] \o more
  BY <1>1
<1>4. sent[g] \in Seq(Fact)
  BY <1>1
<1>5. Range(sent[g] \o more) = Range(sent[g]) \cup Range(more)
  BY <1>4, RangeConcatenation
<1>6. Range(sent'[g]) = Range(sent[g]) \cup Range(more)
  BY <1>3, <1>5, Zenon
<1> QED BY <1>2, <1>6

LEMMA SendsOne ==
    ASSUME MeantInv, NEW g \in Pages, NEW f \in Fact, sent' = [sent EXCEPT ![g] = Append(@, f)]
    PROVE  \A h \in Pages : \A e \in Range(sent'[h]) : e \in Range(sent[h]) \/ (h = g /\ e \in {f})
<1>1. sent \in [Pages -> Seq(Fact)] /\ sent[g] \in Seq(Fact)
  BY HomeTypes
<1>2. PICK one : one = <<f>>
  OBVIOUS
<1>3. one \in Seq(Fact) /\ Range(one) = {f}
  BY <1>2, OneIs
<1>4. Append(sent[g], f) = sent[g] \o one
  BY <1>1, <1>2
<1>5. sent' = [sent EXCEPT ![g] = @ \o one]
  BY <1>1, <1>4
<1> QED BY <1>3, <1>5, SendsMore

LEMMA AcceptOnServerHome ==
    ASSUME MeantInv, NEW p \in Offers, AcceptOnServer(p)
    PROVE  CutsAreKnown' /\ ChangesAreHome'
<1>1. PICK acc : acc = Accepted(Server, p)
  OBVIOUS
<1>2. /\ Pending(knows[Server], p) /\ acc.valid
      /\ knows' = [knows EXCEPT ![Server] = @ \cup {acc.decision, acc.change}]
      /\ order' = acc.order /\ sent' = sent /\ reloads' = reloads
  BY <1>1 DEF AcceptOnServer
<1>3. /\ acc.decision.is = "decision" /\ acc.change.is = "change"
      /\ acc.change.removed \subseteq Range(order) /\ acc.change.about = p
      /\ acc.change.by = Server /\ acc.change.life = reloads
      /\ Range(order) \subseteq Range(acc.order)
  BY <1>1, <1>2, HomeTypes, AcceptedCuts
<1>4. Server \in Replicas
  BY HomeTypes
<1>5. \A f \in Facts({acc.decision, acc.change}, "change") : f = acc.change
  BY <1>3 DEF Facts
<1> QED BY <1>2, <1>3, <1>4, <1>5, ChangeStays

LEMMA AcceptOnPageHome ==
    ASSUME MeantInv, NEW p \in Offers, NEW g \in Pages, AcceptOnPage(g, p)
    PROVE  CutsAreKnown' /\ ChangesAreHome'
<1>1. PICK acc : acc = Accepted(g, p)
  OBVIOUS
<1>1a. PICK new : new = <<acc.decision, acc.change>>
  OBVIOUS
<1>2. /\ Pending(knows[g], p) /\ acc.valid
      /\ knows' = [knows EXCEPT ![g] = @ \cup {acc.decision, acc.change}]
      /\ order' = acc.order /\ sent' = [sent EXCEPT ![g] = @ \o new] /\ reloads' = reloads
  BY <1>1, <1>1a DEF AcceptOnPage
<1>4. g \in Replicas
  BY HomeTypes
<1>3. /\ acc.decision.is = "decision" /\ acc.change.is = "change"
      /\ acc.change.removed \subseteq Range(order) /\ acc.change.about = p
      /\ acc.change.by = g /\ acc.change.life = reloads
      /\ Range(order) \subseteq Range(acc.order)
  BY <1>1, <1>2, <1>4, AcceptedCuts
<1>5. \A f \in Facts({acc.decision, acc.change}, "change") : f = acc.change
  BY <1>3 DEF Facts
<1>6. acc.decision \in Fact /\ acc.change \in Fact
  <2>1. Counts(acc, g, p)
    BY <1>1, <1>2, <1>4, AcceptedIs DEF MeantInv
  <2> QED BY <2>1, Kinds DEF Counts
<1>7. new \in Seq(Fact) /\ Len(new) = 2 /\ new[1] = acc.decision /\ new[2] = acc.change
  BY <1>1a, <1>6
<1>8. \A f \in Range(new) : f \in {acc.decision, acc.change}
  <2>1. \A f \in Range(new) : \E i \in 1..Len(new) : f = new[i]
    BY <1>7, RangeIs
  <2>2. \A i \in 1..Len(new) : i = 1 \/ i = 2
    BY <1>7
  <2> QED BY <1>7, <2>1, <2>2
<1>9. \A h \in Pages : \A f \in Range(sent'[h]) :
         f \in Range(sent[h]) \/ (h = g /\ f \in {acc.decision, acc.change})
  BY <1>2, <1>7, <1>8, SendsMore
<1> QED BY <1>2, <1>3, <1>4, <1>5, <1>9, ChangeStays

LEMMA DeleteBlockHome ==
    ASSUME MeantInv, NEW g \in Pages, DeleteBlock(g)
    PROVE  CutsAreKnown' /\ ChangesAreHome'
<1>1. PICK x \in ToSet(TextIn(knows[g], order)) :
         /\ knows' = [knows EXCEPT ![g] = @ \cup {Typed(edits, {x})}]
         /\ sent' = [sent EXCEPT ![g] = Append(@, Typed(edits, {x}))]
  BY DEF DeleteBlock
<1>2. order' = order /\ reloads' = reloads
  BY DEF DeleteBlock
<1>3. PICK cut : cut = Typed(edits, {x})
  OBVIOUS
<1>4. TextIn(knows[g], order) \in Seq(Block) /\ Range(TextIn(knows[g], order)) \subseteq Range(order)
  BY HomeTypes, TextIs
<1>5. x \in Range(order) /\ x \in Block
  <2>1. ToSet(TextIn(knows[g], order)) = Range(TextIn(knows[g], order))
    BY <1>4, RangeIs
  <2>2. \A y \in Range(order) : y \in Block
    BY HomeTypes, RangeIs
  <2> QED BY <1>4, <2>1, <2>2
<1>6. cut.removed = {x} /\ cut.about = <<>> /\ cut.is = "change"
  BY <1>3 DEF Typed
<1>7. <<>> \notin Offers
  BY ProposalsAssumption DEF ProposalsAssumption
<1>8. cut \in Fact
  <2>1. edits \in Nat /\ reloads \in Nat
    BY DEF MeantInv, ProposalsInv, PropTypeOK
  <2> QED BY <1>3, <1>5, <2>1 DEF Typed, Fact, ChangeFact, Life
<1>9. g \in Replicas
  BY HomeTypes
<1>10. \A h \in Pages : \A f \in Range(sent'[h]) : f \in Range(sent[h]) \/ (h = g /\ f \in {cut})
  BY <1>1, <1>3, <1>8, SendsOne
<1>11. \A f \in Facts({cut}, "change") :
          /\ f.removed \subseteq Range(order)
          /\ f.about \in Offers => f.by = g /\ f.life = reloads
  BY <1>5, <1>6, <1>7 DEF Facts
<1> QED BY <1>1, <1>2, <1>3, <1>9, <1>10, <1>11, ChangeStays

LEMMA ReceiveHome ==
    ASSUME MeantInv, NEW g \in Pages, Receive(g)
    PROVE  CutsAreKnown' /\ ChangesAreHome'
<1>1. PICK f : f = Head(sent[g])
  OBVIOUS
<1>2. /\ sent[g] # <<>>
      /\ knows' = [knows EXCEPT ![Server] = @ \cup {f}]
      /\ sent' = [sent EXCEPT ![g] = Tail(@)]
      /\ order' = order /\ reloads' = reloads
  BY <1>1 DEF Receive
<1>3. sent \in [Pages -> Seq(Fact)] /\ Server \in Replicas /\ g \in Replicas
  BY HomeTypes
<1>4. /\ Len(sent[g]) \in Nat /\ Len(sent[g]) >= 1 /\ f = sent[g][1]
      /\ Tail(sent[g]) \in Seq(Fact) /\ Len(Tail(sent[g])) = Len(sent[g]) - 1
      /\ \A i \in 1..(Len(sent[g]) - 1) : Tail(sent[g])[i] = sent[g][i + 1]
  <2>1. sent[g] \in Seq(Fact) /\ sent[g] # <<>>
    BY <1>2, <1>3
  <2> QED BY <1>1, <2>1
<1>5. f \in knows[g]
  <2>1. 1 \in 1..Len(sent[g])
    BY <1>4
  <2> QED BY <1>4, <2>1 DEF MeantInv, ProposalsInv, PagesSendAll
<1>6. \A h \in Pages : Range(sent'[h]) \subseteq Range(sent[h])
  <2>1. \A h \in Pages : h # g => sent'[h] = sent[h]
    BY <1>2, <1>3
  <2>2. sent'[g] = Tail(sent[g])
    BY <1>2, <1>3
  <2>3. \A i \in 1..Len(sent[g]) : sent[g][i] \in Range(sent[g])
    BY <1>3, RangeIs
  <2>4. \A x \in Range(sent'[g]) : \E i \in 1..Len(sent'[g]) : x = sent'[g][i]
    <3>1. PICK rest : rest = sent'[g]
      OBVIOUS
    <3>2. rest \in Seq(Fact)
      BY <1>4, <2>2, <3>1
    <3>3. \A x \in Range(rest) : \E i \in 1..Len(rest) : x = rest[i]
      BY <3>2, RangeIs
    <3> QED BY <3>1, <3>3
  <2>5. ASSUME NEW x \in Range(sent'[g]) PROVE x \in Range(sent[g])
    <3>1. PICK i \in 1..Len(sent'[g]) : x = sent'[g][i]
      BY <2>4
    <3>2. i \in 1..(Len(sent[g]) - 1) /\ i + 1 \in 1..Len(sent[g])
      BY <1>4, <2>2
    <3> QED BY <1>4, <2>2, <2>3, <3>1, <3>2
  <2> QED BY <2>1, <2>5
<1>7. \A h \in Pages : Facts(Range(sent'[h]), "change") \subseteq Range(sent[h])
  BY <1>6 DEF Facts
<1>8. \A e \in Facts({f}, "change") : \E q \in Replicas : e \in knows[q]
  BY <1>3, <1>5 DEF Facts
<1> QED BY <1>2, <1>3, <1>7, <1>8, QuietStays

LEMMA HearHome ==
    ASSUME MeantInv, NEW g \in Pages, Hear(g)
    PROVE  CutsAreKnown' /\ ChangesAreHome'
<1>1. /\ knows' = [knows EXCEPT ![g] = @ \cup knows[Server]]
      /\ sent' = sent /\ order' = order /\ reloads' = reloads
  BY DEF Hear
<1>2. g \in Replicas /\ Server \in Replicas
  BY HomeTypes
<1>3. \A h \in Pages : Facts(Range(sent'[h]), "change") \subseteq Range(sent[h])
  BY <1>1 DEF Facts
<1>4. \A e \in Facts(knows[Server], "change") : \E q \in Replicas : e \in knows[q]
  BY <1>2 DEF Facts
<1> QED BY <1>1, <1>2, <1>3, <1>4, QuietStays

\* When a page is opened again, what was made before is of an earlier life.
LEMMA ReloadHome ==
    ASSUME MeantInv, NEW g \in Pages, Reload(g)
    PROVE  CutsAreKnown' /\ ChangesAreHome'
<1>1. /\ knows' = [knows EXCEPT ![g] = knows[Server]]
      /\ sent' = [sent EXCEPT ![g] = <<>>]
      /\ order' = order /\ reloads' = reloads + 1
  BY DEF Reload
<1>2. /\ knows \in [Replicas -> SUBSET Fact] /\ sent \in [Pages -> Seq(Fact)] /\ reloads \in Nat
      /\ Server \in Replicas /\ g \in Replicas
  BY HomeTypes
<1>3. \A r \in Replicas : \E q \in Replicas : knows'[r] = knows[q]
  BY <1>1, <1>2
<1>4. \A h \in Pages : sent'[h] = sent[h] \/ sent'[h] = <<>>
  BY <1>1, <1>2
<1>5. ASSUME NEW r \in Replicas, NEW f \in Facts(knows'[r], "change")
      PROVE  f.removed \subseteq Range(order') /\ AtHome(f)'
  <2>1. PICK q \in Replicas : f \in Facts(knows[q], "change")
    BY <1>3 DEF Facts
  <2>2. f.removed \subseteq Range(order) /\ AtHome(f)
    BY <2>1 DEF MeantInv, CutsAreKnown, ChangesAreHome
  <2>3. AtHome(f)'
    BY <1>1, <1>2, <2>2 DEF AtHome
  <2> QED BY <1>1, <2>2, <2>3
<1>6. ASSUME NEW h \in Pages, NEW f \in Facts(Range(sent'[h]), "change"), f.about \in Offers
      PROVE  f.by = h
  <2>1. CASE sent'[h] = sent[h]
    BY <2>1, <1>6 DEF MeantInv, ChangesAreHome
  <2>2. CASE sent'[h] = <<>>
    <3>1. Range(<<>>) = {}
      BY DEF Range
    <3> QED BY <2>2, <3>1, <1>6 DEF Facts
  <2> QED BY <1>4, <2>1, <2>2
<1>7. CutsAreKnown'
  BY <1>5 DEF CutsAreKnown
<1>8. ChangesAreHome'
  BY <1>5, <1>6 DEF ChangesAreHome
<1> QED BY <1>7, <1>8

\* Facts that are no changes: offers and rejections.
LEMMA NoChangeHome ==
    ASSUME MeantInv, NEW r \in Replicas, NEW f \in Fact, f.is # "change",
           knows' = [knows EXCEPT ![r] = @ \cup {f}],
           sent' = sent \/ (r \in Pages /\ sent' = [sent EXCEPT ![r] = Append(@, f)]),
           order' = order, reloads' = reloads
    PROVE  CutsAreKnown' /\ ChangesAreHome'
<1>1. \A h \in Pages : \A e \in Range(sent'[h]) : e \in Range(sent[h]) \/ e = f
  <2>1. CASE sent' = sent
    BY <2>1
  <2>2. CASE r \in Pages /\ sent' = [sent EXCEPT ![r] = Append(@, f)]
    BY <2>2, SendsOne
  <2> QED BY <2>1, <2>2
<1>2. \A h \in Pages : Facts(Range(sent'[h]), "change") \subseteq Range(sent[h])
  BY <1>1 DEF Facts
<1>3. \A e \in Facts({f}, "change") : \E q \in Replicas : e \in knows[q]
  BY DEF Facts
<1> QED BY <1>2, <1>3, QuietStays

LEMMA RestHome ==
    ASSUME MeantInv, knows' = knows, sent' = sent, order' = order, reloads' = reloads
    PROVE  CutsAreKnown' /\ ChangesAreHome'
<1>1. Server \in Replicas /\ knows' = [knows EXCEPT ![Server] = @ \cup {}]
  BY HomeTypes
<1>2. \A h \in Pages : Facts(Range(sent'[h]), "change") \subseteq Range(sent[h])
  BY DEF Facts
<1>3. Facts({}, "change") = {}
  BY DEF Facts
<1> QED BY <1>1, <1>2, <1>3, QuietStays

LEMMA MeantNextGood == MeantInv /\ [ProposalsNext]_propVars => MeantInv'
<1> SUFFICES ASSUME MeantInv, [ProposalsNext]_propVars PROVE MeantInv'
  OBVIOUS
<1>1. ProposalsInv'
  BY ProposalsNextGood DEF MeantInv
<1> DEFINE Good == CutsAreKnown' /\ ChangesAreHome'
<1>2. ASSUME NEW p \in Offers, ReadBlocks(p) PROVE Good
  <2>1. knows' = knows /\ sent' = sent /\ order' = order /\ reloads' = reloads
    BY <1>2 DEF ReadBlocks
  <2> QED BY <2>1, RestHome
<1>3. ASSUME NEW p \in Offers, NEW draft \in Drafts, Propose(p, draft) PROVE Good
  <2>1. PICK o : o = Offered(p, Validated(p, draft), Facts(knows[Server], "change"))
    OBVIOUS
  <2>2. /\ knows' = [knows EXCEPT ![Server] = @ \cup {o}]
        /\ sent' = sent /\ order' = order /\ reloads' = reloads
    BY <1>3, <2>1 DEF Propose
  <2>3. o.is # "change" /\ Server \in Replicas
    BY <2>1, HomeTypes DEF Offered
  <2>4. o \in Fact
    <3>1. knows'[Server] \subseteq Fact /\ o \in knows'[Server]
      BY <1>1, <2>2, <2>3, HomeTypes DEF ProposalsInv, PropTypeOK
    <3> QED BY <3>1
  <2> QED BY <2>2, <2>3, <2>4, NoChangeHome
<1>4. ASSUME NEW p \in Offers, AcceptOnServer(p) PROVE Good
  BY <1>4, AcceptOnServerHome
<1>5. ASSUME NEW p \in Offers, RejectOnServer(p) PROVE Good
  <2>1. PICK d : d = Decided(p, Server, "rejected", {})
    OBVIOUS
  <2>2. /\ knows' = [knows EXCEPT ![Server] = @ \cup {d}]
        /\ sent' = sent /\ order' = order /\ reloads' = reloads
    BY <1>5, <2>1 DEF RejectOnServer
  <2>3. d.is # "change" /\ Server \in Replicas
    BY <2>1, HomeTypes DEF Decided
  <2>4. d \in Fact
    BY <2>1, <2>3, HomeTypes DEF Decided, Fact, DecisionFact, Life
  <2> QED BY <2>2, <2>3, <2>4, NoChangeHome
<1>6. ASSUME NEW p \in Offers, NEW g \in Pages, AcceptOnPage(g, p) PROVE Good
  BY <1>6, AcceptOnPageHome
<1>7. ASSUME NEW p \in Offers, NEW g \in Pages, RejectOnPage(g, p) PROVE Good
  <2>1. PICK d : d = Decided(p, g, "rejected", {})
    OBVIOUS
  <2>2. /\ knows' = [knows EXCEPT ![g] = @ \cup {d}]
        /\ sent' = [sent EXCEPT ![g] = Append(@, d)] /\ order' = order /\ reloads' = reloads
    BY <1>7, <2>1 DEF RejectOnPage
  <2>3. d.is # "change" /\ g \in Replicas
    BY <2>1, HomeTypes DEF Decided
  <2>4. d \in Fact
    BY <2>1, <2>3, HomeTypes DEF Decided, Fact, DecisionFact, Life
  <2> QED BY <2>2, <2>3, <2>4, NoChangeHome
<1>8. ASSUME NEW g \in Pages, DeleteBlock(g) PROVE Good
  BY <1>8, DeleteBlockHome
<1>9. ASSUME NEW g \in Pages, Receive(g) PROVE Good
  BY <1>9, ReceiveHome
<1>10. ASSUME NEW g \in Pages, Hear(g) PROVE Good
  BY <1>10, HearHome
<1>11. ASSUME NEW g \in Pages, Reload(g) PROVE Good
  BY <1>11, ReloadHome
<1>12. ASSUME UNCHANGED propVars PROVE Good
  <2>1. knows' = knows /\ sent' = sent /\ order' = order /\ reloads' = reloads
    BY <1>12 DEF propVars
  <2> QED BY <2>1, RestHome
<1> HIDE DEF Good
<1>13. Good
  BY <1>2, <1>3, <1>4, <1>5, <1>6, <1>7, <1>8, <1>9, <1>10, <1>11, <1>12 DEF ProposalsNext
<1> QED BY <1>1, <1>13 DEF MeantInv, Good

-----------------------------------------------------------------------------
(* An accept leaves the text as it is meant.                               *)

\* A step in which r hears only of changes that others know accepts nothing at r.
LEMMA HearsayAcceptsNothing ==
    ASSUME MeantInv, NEW r \in Replicas,
           \A f \in Facts(knows'[r] \ knows[r], "change") :
              f.about \in Offers /\ f.by = r => \E q \in Replicas : f \in knows[q]
    PROVE  Accepting(r) = {}
<1> SUFFICES ASSUME NEW f \in Accepting(r) PROVE FALSE
  OBVIOUS
<1>1. /\ f \in knows'[r] \ knows[r] /\ f.is = "change" /\ f.about \in Offers
      /\ f.by = r /\ f.life = reloads /\ f \in Facts(knows'[r] \ knows[r], "change")
  BY DEF Accepting, Facts
<1>2. PICK q \in Replicas : f \in knows[q]
  BY <1>1
<1>3. f \in Facts(knows[q], "change")
  BY <1>1, <1>2 DEF Facts
<1>4. AtHome(f)
  BY <1>3 DEF MeantInv, ChangesAreHome
<1> QED BY <1>1, <1>4 DEF AtHome

\* What is meant is what the accepting replica shows, and no other accepts.
LEMMA AcceptMeans ==
    ASSUME MeantInv, NEW w \in Replicas, NEW p \in Offers, NEW r \in Replicas,
           NEW f \in Accepting(r), Pending(knows[w], p), Accepted(w, p).valid,
           knows' = [knows EXCEPT ![w] = @ \cup {Accepted(w, p).decision, Accepted(w, p).change}],
           order' = Accepted(w, p).order
    PROVE  TextIn(knows'[r], order')
             = Meant(f.about, r, OpsIn(knows[r], f.about), TextIn(knows[r], order))
<1>1. PICK acc : acc = Accepted(w, p)
  OBVIOUS
<1>2. acc.decision.is = "decision" /\ acc.change.about = p /\ acc.change.by = w
  BY <1>1, AcceptedCuts
<1>3. f \in knows'[r] /\ f \notin knows[r] /\ f.is = "change"
  BY DEF Accepting, Facts
<1>4. knows'[w] = knows[w] \cup {acc.decision, acc.change} /\ \A q \in Replicas : q # w => knows'[q] = knows[q]
  BY <1>1, HomeTypes
<1>5. r = w /\ f.about = p
  BY <1>2, <1>3, <1>4
<1>6. TextIn(knows[w] \cup {acc.decision, acc.change}, acc.order)
        = Meant(p, w, OpsIn(knows[w], p), TextIn(knows[w], order))
  BY <1>1, AcceptedReads DEF MeantInv
<1> QED BY <1>1, <1>4, <1>5, <1>6

LEMMA StepLands ==
    ASSUME MeantInv, [ProposalsNext]_propVars, NEW r \in Replicas, NEW f \in Accepting(r)
    PROVE  TextIn(knows'[r], order')
             = Meant(f.about, r, OpsIn(knows[r], f.about), TextIn(knows[r], order))
<1> DEFINE Goal == TextIn(knows'[r], order')
                     = Meant(f.about, r, OpsIn(knows[r], f.about), TextIn(knows[r], order))
<1>0. /\ knows \in [Replicas -> SUBSET Fact] /\ Server \in Replicas /\ Pages \subseteq Replicas
      /\ Server \notin Pages
  BY HomeTypes
<1>0a. /\ f \in knows'[r] \ knows[r] /\ f.is = "change" /\ f.about \in Offers
       /\ f.by = r /\ f.life = reloads
  BY DEF Accepting, Facts
<1> HIDE DEF Goal
<1>1. ASSUME NEW p \in Offers, ReadBlocks(p) PROVE Goal
  BY <1>1, <1>0a DEF ReadBlocks
<1>2. ASSUME NEW p \in Offers, NEW draft \in Drafts, Propose(p, draft) PROVE Goal
  <2>1. PICK o : o = Offered(p, Validated(p, draft), Facts(knows[Server], "change"))
    OBVIOUS
  <2>2. knows' = [knows EXCEPT ![Server] = @ \cup {o}] /\ o.is = "offer"
    BY <1>2, <2>1 DEF Propose, Offered
  <2> QED BY <1>0, <1>0a, <2>2
<1>3. ASSUME NEW p \in Offers, AcceptOnServer(p) PROVE Goal
  <2>1. /\ Pending(knows[Server], p) /\ Accepted(Server, p).valid
        /\ knows' = [knows EXCEPT ![Server] =
                        @ \cup {Accepted(Server, p).decision, Accepted(Server, p).change}]
        /\ order' = Accepted(Server, p).order
    BY <1>3 DEF AcceptOnServer
  <2> QED BY <1>0, <2>1, AcceptMeans DEF Goal
<1>4. ASSUME NEW p \in Offers, RejectOnServer(p) PROVE Goal
  <2>1. PICK d : d = Decided(p, Server, "rejected", {})
    OBVIOUS
  <2>2. knows' = [knows EXCEPT ![Server] = @ \cup {d}] /\ d.is = "decision"
    BY <1>4, <2>1 DEF RejectOnServer, Decided
  <2> QED BY <1>0, <1>0a, <2>2
<1>5. ASSUME NEW p \in Offers, NEW g \in Pages, AcceptOnPage(g, p) PROVE Goal
  <2>1. /\ Pending(knows[g], p) /\ Accepted(g, p).valid
        /\ knows' = [knows EXCEPT ![g] = @ \cup {Accepted(g, p).decision, Accepted(g, p).change}]
        /\ order' = Accepted(g, p).order
    BY <1>5 DEF AcceptOnPage
  <2> QED BY <1>0, <2>1, AcceptMeans DEF Goal
<1>6. ASSUME NEW p \in Offers, NEW g \in Pages, RejectOnPage(g, p) PROVE Goal
  <2>1. PICK d : d = Decided(p, g, "rejected", {})
    OBVIOUS
  <2>2. knows' = [knows EXCEPT ![g] = @ \cup {d}] /\ d.is = "decision"
    BY <1>6, <2>1 DEF RejectOnPage, Decided
  <2> QED BY <1>0, <1>0a, <2>2
<1>7. ASSUME NEW g \in Pages, DeleteBlock(g) PROVE Goal
  <2>0. PICK x : knows' = [knows EXCEPT ![g] = @ \cup {Typed(edits, {x})}]
    BY <1>7 DEF DeleteBlock
  <2>1a. PICK cut : cut = Typed(edits, {x})
    OBVIOUS
  <2>1. knows' = [knows EXCEPT ![g] = @ \cup {cut}] /\ cut.about = <<>>
    BY <2>0, <2>1a DEF Typed
  <2>2. f = cut
    BY <1>0, <1>0a, <2>1
  <2> QED BY <1>0a, <2>1, <2>2, ProposalsAssumption DEF ProposalsAssumption
<1>8. ASSUME NEW g \in Pages, Receive(g) PROVE Goal
  <2>1. PICK e : e = Head(sent[g])
    OBVIOUS
  <2>2. knows' = [knows EXCEPT ![Server] = @ \cup {e}] /\ sent[g] # <<>>
    BY <1>8, <2>1 DEF Receive
  <2>3. r = Server /\ f = e
    BY <1>0, <1>0a, <2>2
  <2>4. e \in Range(sent[g])
    <3>1. sent[g] \in Seq(Fact)
      BY HomeTypes
    <3>2. 1 \in 1..Len(sent[g]) /\ e = sent[g][1]
      BY <2>1, <2>2, <3>1
    <3> QED BY <3>1, <3>2, RangeIs
  <2>5. f \in Facts(Range(sent[g]), "change")
    BY <1>0a, <2>3, <2>4 DEF Facts
  <2>6. f.by = g
    BY <1>0a, <2>5 DEF MeantInv, ChangesAreHome
  <2> QED BY <1>0, <1>0a, <2>3, <2>6
<1>9. ASSUME NEW g \in Pages, Hear(g) PROVE Goal
  <2>1. knows' = [knows EXCEPT ![g] = @ \cup knows[Server]]
    BY <1>9 DEF Hear
  <2>2. \A e \in knows'[r] \ knows[r] : e \in knows[Server]
    BY <1>0, <2>1
  <2> QED BY <1>0, <2>2, HearsayAcceptsNothing DEF Facts
<1>10. ASSUME NEW g \in Pages, Reload(g) PROVE Goal
  <2>1. knows' = [knows EXCEPT ![g] = knows[Server]]
    BY <1>10 DEF Reload
  <2>2. \A e \in knows'[r] \ knows[r] : e \in knows[Server]
    BY <1>0, <2>1
  <2> QED BY <1>0, <2>2, HearsayAcceptsNothing DEF Facts
<1>11. ASSUME UNCHANGED propVars PROVE Goal
  BY <1>11, <1>0a DEF propVars
<1>12. Goal
  BY <1>1, <1>2, <1>3, <1>4, <1>5, <1>6, <1>7, <1>8, <1>9, <1>10, <1>11 DEF ProposalsNext
<1> QED BY <1>12 DEF Goal

\* What `apply_ops' splices block by block, by the positions the blocks have by
\* then, comes to what the operations mean, in the server and in any number of
\* pages, for proposals of any length and whatever has been edited since.
THEOREM OpsLandAsMeantHolds == ProposalsSpec => OpsLandAsMeant
<1>1. MeantInv /\ [ProposalsNext]_propVars =>
        [\A r \in Replicas : \A f \in Accepting(r) :
           TextIn(knows'[r], order') =
             Meant(f.about, r, OpsIn(knows[r], f.about), TextIn(knows[r], order))]_propVars
  BY StepLands
<1>2. ProposalsSpec => []MeantInv
  BY MeantInitGood, MeantNextGood, PTL DEF ProposalsSpec
<1> QED BY <1>1, <1>2, PTL DEF ProposalsSpec, OpsLandAsMeant
=============================================================================
