------------------------------ MODULE Reviews ------------------------------
(***************************************************************************)
(* Reviews of a document: the comments people send each other, and who has *)
(* answered.  A review is a row in the store (store/document_reviews.rs)   *)
(* about comment threads that live in the document everybody edits; the    *)
(* handlers (api/document_reviews.rs) read the row, change a private copy  *)
(* of the document, commit both in one transaction, and only then show the *)
(* copy (Room::mutate_durable_with in api/docsync.rs).                     *)
(*                                                                         *)
(* Clients repeat requests whose answer they missed.  A review is known by *)
(* the request that sent it.  Texts, titles and anchors are left out, and  *)
(* so are mentions, which nobody answers; of recipients only the set       *)
(* matters, since the one kind whose first recipient is special has one.   *)
(***************************************************************************)
EXTENDS Integers, FiniteSets

CONSTANTS
    People,       \* who calls; each holds the scopes `human' and `write'
    Users,        \* those of them a review may be addressed to: members
    Overseers,    \* those with the scope `admin'
    Threads,      \* ids of comment threads
    Sends,        \* ids of the requests that send a review
    SendOf,       \* send -> what it asks for
    Acts,         \* ids of the requests that act on one
    Tries,        \* bound: the actions tried
    Calls,        \* bound: requests in the server at once
    NoCall,
    MaxWhims,     \* bound: what browsers, crashes, resets and archiving do
    NoReview, NoAct, NoThread

\* SendReview, as far as `validate' lets it through.
SendReview ==
    [by : People, kind : {"review", "question", "change"}, to : SUBSET Users,
     new : SUBSET Threads, old : SUBSET Threads]

ThreadsOf(s) == SendOf[s].new \cup SendOf[s].old

Deeds == {"reply", "resolve", "unresolve", "reviewed", "start", "ready",
          "close", "reopen", "assign"}

\* ReviewAction: what its author tries, and the version of the review he has seen.
Attempt ==
    [by : People, on : Sends, does : Deeds, text : BOOLEAN,
     thread : Threads \cup {NoThread}, to : SUBSET Users]

ReviewAction == [try : Attempt, version : Nat]

\* A row of document_reviews with its responses.  `wrote' and `cleared' are
\* history: the version each response was written at, and the one at which the
\* responses were last deleted.
Review ==
    [status : {"open", "in_progress", "ready", "closed"}, version : Nat,
     to : SUBSET Users, responses : [People -> {"none", "reply", "done"}],
     wrote : [People -> Nat], cleared : Nat]

ASSUME ReviewsAssumption ==
    /\ Users \cup Overseers \subseteq People
    /\ SendOf \in [Sends -> SendReview]
    /\ \A s \in Sends :
         /\ ThreadsOf(s) # {} /\ SendOf[s].new \cap SendOf[s].old = {}
         /\ SendOf[s].kind # "review" => Cardinality(ThreadsOf(s)) = 1
         /\ SendOf[s].kind = "change" => Cardinality(SendOf[s].to) = 1
    /\ \A s, t \in Sends : s # t => SendOf[s].new \cap SendOf[t].new = {}
    /\ Tries \subseteq Attempt
    /\ Sends \cap Acts = {} /\ NoCall \notin Sends \cup Acts
    /\ NoThread \notin Threads /\ MaxWhims \in Nat
    /\ NoReview \notin Review /\ NoAct \notin ReviewAction

VARIABLES
    room,       \* thread -> its state in the document that is shown
    logged,     \* thread -> its state in the document that is kept
    review,     \* send -> the review it made
    asked,      \* act -> what it asks for; a repeated request asks the same
    acted,      \* document_review_actions: the acts that took effect
    calls,      \* call -> the request it serves, once past the check for a repeat
    shut,       \* the project is archived
    told,       \* history: the answers given, as <<request, answer>>
    whims       \* bound: how many there were

reviewVars == <<room, logged, review, asked, acted, calls, shut, told, whims>>

\* Before it is written a thread is not there; after a reset not any more.
Absent(t) == room[t] \in {"none", "gone"}

Nobody == [p \in People |-> "none"]

\* Threads that no send creates were written in a browser.
ReviewsInit ==
    /\ room = [t \in Threads |->
                 IF \E s \in Sends : t \in SendOf[s].new THEN "none" ELSE "open"]
    /\ logged = room
    /\ review = [s \in Sends |-> NoReview]
    /\ asked = [a \in Acts |-> NoAct]
    /\ acted = {}
    /\ calls = [n \in Calls |-> NoCall]
    /\ shut = FALSE
    /\ told = {}
    /\ whims = 0

\* Whether a request took effect: review_retry, review_action_retry.
Took(req) == IF req \in Sends THEN review[req] # NoReview ELSE req \in acted

\* Mutant of Shown: the copy is shown before it is logged.
Shown_First(saved, copy) == copy

\* mutate_durable_with: the copy is logged as a whole and then shown; if the
\* transaction is refused, neither.
Shown(saved, copy) == IF saved THEN copy ELSE room

Kept(saved, copy) == IF saved THEN copy ELSE logged

\* Mutant of Receipt: the repeat hears of its own refusal.
Receipt_Own(req) == "refused"

\* What the caller of a refused request hears: a repeat that lost a race against
\* its twin is told of the twin's success.
Receipt(req) == IF Took(req) THEN "ok" ELSE "refused"

Told(req, answer) == told' = told \cup {<<req, answer>>}

\* The check for a repeat, before anything is locked.
Begin(n, req) ==
    /\ calls[n] = NoCall
    /\ IF Took(req)
       THEN Told(req, "ok") /\ UNCHANGED calls
       ELSE calls' = [calls EXCEPT ![n] = req] /\ UNCHANGED told
    /\ UNCHANGED <<room, logged, review, acted, shut, whims>>

-----------------------------------------------------------------------------
(* Sending. *)

BeginSend(n, s) == Begin(n, s) /\ UNCHANGED asked

\* publish: the sections of the comments are there, and stay.
Publishable(s) ==
    /\ \A t \in SendOf[s].new : Absent(t)
    /\ \A t \in SendOf[s].old : ~Absent(t)

Published(s) == [t \in Threads |-> IF t \in SendOf[s].new THEN "open" ELSE room[t]]

\* The transaction of save_review.
Savable(s) == ~shut /\ review[s] = NoReview

CommitSend(n) ==
    /\ calls[n] \in Sends
    /\ LET s == calls[n]
           saved == Publishable(s) /\ Savable(s)
           copy == IF Publishable(s) THEN Published(s) ELSE room
       IN  /\ room' = Shown(saved, copy)
           /\ logged' = Kept(saved, copy)
           /\ review' = IF saved
                        THEN [review EXCEPT ![s] =
                                [status |-> "open", version |-> 1, to |-> SendOf[s].to,
                                 responses |-> Nobody, wrote |-> [p \in People |-> 0],
                                 cleared |-> 1]]
                        ELSE review
           /\ Told(s, IF saved THEN "ok" ELSE Receipt(s))
    /\ calls' = [calls EXCEPT ![n] = NoCall]
    /\ UNCHANGED <<asked, acted, shut, whims>>

-----------------------------------------------------------------------------
(* Acting. *)

\* A request names a version its author has seen: the present or an earlier one.
\* The first time it comes in fixes what it asks for.
BeginAct(n, a) ==
    /\ IF asked[a] # NoAct
       THEN UNCHANGED asked
       ELSE \E try \in Tries :
              /\ review[try.on] # NoReview
              /\ \E v \in 1..review[try.on].version :
                   asked' = [asked EXCEPT ![a] = [try |-> try, version |-> v]]
    /\ Begin(n, a)

\* apply_action: the thread is one of the review's, and the source threads are
\* all there; without a thread a text goes to the first.
Applicable(act) ==
    /\ act.thread \in ThreadsOf(act.on) \cup {NoThread}
    /\ act.does \in {"reply", "resolve", "unresolve"} => act.thread # NoThread
    /\ act.does = "reply" => act.text
    /\ \A t \in ThreadsOf(act.on) : ~Absent(t)

Applied(act) ==
    IF act.does \in {"resolve", "unresolve"}
    THEN [room EXCEPT ![act.thread] = IF act.does = "resolve" THEN "resolved" ELSE "open"]
    ELSE room

\* Mutant of Fresh: a review is not compared with what the author saw.
Fresh_Any(act) == TRUE

\* The version check of save_review_action.
Fresh(act) == act.version = review[act.try.on].version

\* Who may do what, in which state of the review.
Allowed(act, copy) ==
    LET r == review[act.on]
        kind == SendOf[act.on].kind
        runs == act.by = SendOf[act.on].by \/ act.by \in Overseers
        works == act.by \in r.to \/ act.by \in Overseers
    IN  /\ r.status = "closed" => act.does \in {"reopen", "reply", "reviewed"}
        /\ \/ act.does \in {"reply", "resolve", "unresolve", "reviewed"}
           \/ act.does = "start" /\ kind = "change" /\ works /\ r.status = "open"
           \/ act.does = "ready" /\ kind = "change" /\ works /\ r.status = "in_progress"
           \/ act.does = "close" /\ kind = "question" /\ act.text
           \/ act.does = "close" /\ kind = "change" /\ runs /\ r.status = "ready"
           \/ /\ act.does = "close" /\ kind = "review" /\ runs
              /\ \A t \in ThreadsOf(act.on) : copy[t] = "resolved"
           \/ act.does = "reopen" /\ runs
           \/ /\ act.does = "assign" /\ runs
              /\ kind = "change" => Cardinality(act.to) = 1

Status(act, old) ==
    CASE act.does = "start" -> "in_progress" [] act.does = "ready" -> "ready"
      [] act.does = "close" -> "closed" [] act.does = "reopen" -> "open"
      [] OTHER -> old

\* document_review_responses: MAX(completed, excluded.completed).
Responded(act, old) ==
    IF act.does = "reply" /\ old = "done" THEN "done"
    ELSE IF act.does = "reply" THEN "reply" ELSE "done"

Updated(act, seen) ==
    LET r == review[act.on]
        clears == act.does \in {"reopen", "assign"}
        responds == act.does \in {"reply", "reviewed", "close"}
    IN  [status |-> Status(act, r.status),
         version |-> r.version + 1,
         to |-> IF act.does = "assign" THEN act.to ELSE r.to,
         responses |-> IF clears THEN Nobody
                       ELSE IF responds
                       THEN [r.responses EXCEPT ![act.by] = Responded(act, @)]
                       ELSE r.responses,
         wrote |-> IF responds THEN [r.wrote EXCEPT ![act.by] = seen] ELSE r.wrote,
         cleared |-> IF clears THEN r.version + 1 ELSE r.cleared]

CommitAct(n) ==
    /\ calls[n] \in Acts
    /\ LET req == calls[n]
           act == asked[req].try
           copy == IF Applicable(act) THEN Applied(act) ELSE room
           saved == Applicable(act) /\ ~shut /\ Fresh(asked[req]) /\ Allowed(act, copy)
       IN  /\ room' = Shown(saved, copy)
           /\ logged' = Kept(saved, copy)
           /\ review' = IF saved THEN [review EXCEPT ![act.on] = Updated(act, asked[req].version)] ELSE review
           /\ acted' = IF saved THEN acted \cup {req} ELSE acted
           /\ Told(req, IF saved THEN "ok" ELSE Receipt(req))
    /\ calls' = [calls EXCEPT ![n] = NoCall]
    /\ UNCHANGED <<asked, shut, whims>>

-----------------------------------------------------------------------------
(* What else happens to the document. *)

Whim == whims < MaxWhims /\ whims' = whims + 1

\* Somebody resolves a comment in the document, or opens it again.
Toggle(t) ==
    /\ Whim /\ ~shut /\ ~Absent(t)
    /\ room' = [room EXCEPT ![t] = IF @ = "open" THEN "resolved" ELSE "open"]
    /\ UNCHANGED <<logged, review, asked, acted, calls, shut, told>>

Flush ==
    /\ logged # room /\ ~shut
    /\ logged' = room
    /\ UNCHANGED <<room, review, asked, acted, calls, shut, told, whims>>

\* reset_collab_content clears the comments, in the log and then in the room.
ResetContent ==
    /\ Whim /\ ~shut
    /\ room' = [t \in Threads |-> IF Absent(t) THEN room[t] ELSE "gone"]
    /\ logged' = room'
    /\ UNCHANGED <<review, asked, acted, calls, shut, told>>

\* The server stops; the next room is loaded from the log.
Crash ==
    /\ Whim
    /\ room' = logged
    /\ calls' = [n \in Calls |-> NoCall]
    /\ UNCHANGED <<logged, review, asked, acted, shut, told>>

\* set_project_archived.
Shut ==
    /\ Whim
    /\ shut' = ~shut
    /\ UNCHANGED <<room, logged, review, asked, acted, calls, told>>

ReviewsNext ==
    \/ \E n \in Calls :
          \/ \E s \in Sends : BeginSend(n, s)
          \/ \E a \in Acts : BeginAct(n, a)
          \/ CommitSend(n)
          \/ CommitAct(n)
    \/ \E t \in Threads : Toggle(t)
    \/ Flush
    \/ ResetContent
    \/ Crash
    \/ Shut

ReviewsSpec == ReviewsInit /\ [][ReviewsNext]_reviewVars

-----------------------------------------------------------------------------
(* Properties. *)

\* Every variable keeps to its type.
ReviewsTypeOK ==
    /\ room \in [Threads -> {"none", "open", "resolved", "gone"}]
    /\ logged \in [Threads -> {"none", "open", "resolved", "gone"}]
    /\ review \in [Sends -> Review \cup {NoReview}]
    /\ asked \in [Acts -> ReviewAction \cup {NoAct}]
    /\ acted \subseteq Acts
    /\ calls \in [Calls -> Sends \cup Acts \cup {NoCall}]
    /\ shut \in BOOLEAN
    /\ told \subseteq (Sends \cup Acts) \X {"ok", "refused"}
    /\ whims \in 0..MaxWhims

\* The comments of a review are in the document, shown and kept, exactly if the
\* review is in the store, through refused and repeated sends and crashes: nobody
\* is asked about comments that are not there, and none is left that no review
\* is about.
SentAsOne ==
    \A s \in Sends : \A t \in SendOf[s].new :
        /\ review[s] # NoReview <=> room[t] # "none"
        /\ review[s] # NoReview <=> logged[t] # "none"

\* Whoever is told that a request succeeded has it done, and whoever is told it
\* was refused does not: also if it was sent twice at once, and the other copy
\* succeeded in between.
ReceiptsAreTrue ==
    [][\A req \in Sends \cup Acts :
          /\ <<req, "ok">> \in told' => Took(req)'
          /\ <<req, "refused">> \in told' \ told => ~Took(req)']_reviewVars

\* A response that counts was written to the review as it stands: to its present
\* recipients and since it was last opened.
AnswersAreCurrent ==
    \A s \in Sends : review[s] # NoReview =>
        \A p \in People : review[s].responses[p] # "none" =>
            review[s].wrote[p] >= review[s].cleared

\* A review is finished over comments that are all resolved in the document at
\* that moment, whatever its author saw when he asked.
FinishedIsResolved ==
    \A s \in Sends :
        SendOf[s].kind = "review" /\ review[s] # NoReview =>
            (review'[s].status = "closed" /\ review[s].status # "closed" =>
                \A t \in ThreadsOf(s) : room'[t] = "resolved")

\* An action meets the review and the document as they are when it takes effect,
\* not as they were when its author looked.
ActionsMeetThePresent == [][AnswersAreCurrent' /\ FinishedIsResolved]_reviewVars
=============================================================================
