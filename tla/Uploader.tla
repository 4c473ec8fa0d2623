------------------------------- MODULE Uploader -------------------------------
(***************************************************************************)
(* The queue of sector uploads of one host                                 *)
(* (internal/upload/uploader/uploader.go): Enqueue, called by the uploads  *)
(* that chose the host; Start, the goroutine that executes the queue; and  *)
(* Stop, called when the contract expired or renterd shuts down.  Enqueue  *)
(* looks at the stopped channel without the mutex, appends under the mutex *)
(* and signals after it: these are three steps.                            *)
(***************************************************************************)
EXTENDS Integers, Sequences, FiniteSets

CONSTANTS
  Reqs,      \* sector upload requests, each with a caller of its own
  MaxRetry,  \* bound: renewals of the contract
  NoReq

ASSUME UploaderAssumption == MaxRetry \in Nat /\ NoReq \notin Reqs

VARIABLES
  caller,    \* where each request's Enqueue is
  queue,
  token,     \* the buffer of signalNewUpload is full
  stoppedChan,   \* stoppedChan is closed
  shutdown,  \* shutdownCtx is done
  loop,      \* where Start is
  cur,       \* the request Start has popped
  stop,      \* where Stop is
  cancelled, \* the requests whose context is done
  answers,   \* the number of responses to each request
  renewals,  \* bound: number of renewals found by tryRefresh
  late       \* observer: the requests that met the closed channel

uploaderVars == <<caller, queue, token, stoppedChan, shutdown, loop, cur, stop, cancelled,
          answers, renewals, late>>

Ended == {"stopped", "shutdown"}

UploaderTypeOK ==
  /\ caller \in [Reqs -> {"new", "checked", "appended", "accepted", "refused"}]
  /\ queue \in Seq(Reqs)
  /\ token \in BOOLEAN /\ stoppedChan \in BOOLEAN /\ shutdown \in BOOLEAN
  /\ loop \in {"wait", "check", "pop", "execute", "retry", "append", "signal"} \cup Ended
  /\ cur \in Reqs \cup {NoReq}
  /\ cur # NoReq <=> loop \in {"execute", "retry", "append"}
  /\ stop \in {"no", "drain", "done"}
  /\ cancelled \subseteq Reqs
  /\ answers \in [Reqs -> Nat]
  /\ renewals \in 0..MaxRetry
  /\ late \subseteq Reqs

UploaderInit ==
  /\ caller = [r \in Reqs |-> "new"]
  /\ queue = <<>>
  /\ token = FALSE /\ stoppedChan = FALSE /\ shutdown = FALSE
  /\ loop = "wait"
  /\ cur = NoReq
  /\ stop = "no"
  /\ cancelled = {}
  /\ answers = [r \in Reqs |-> 0]
  /\ renewals = 0
  /\ late = {}

Members(list) == {list[i] : i \in 1..Len(list)}

-----------------------------------------------------------------------------
(* Enqueue *)

EnqueueChecks(r) ==
  /\ caller[r] = "new"
  /\ caller' = [caller EXCEPT ![r] = IF stoppedChan THEN "refused" ELSE "checked"]
  /\ UNCHANGED <<queue, token, stoppedChan, shutdown, loop, cur, stop, cancelled,
                 answers, renewals, late>>

QueueUp(r) ==
  /\ queue' = Append(queue, r)
  /\ late' = IF stoppedChan THEN late \cup {r} ELSE late

EnqueueAppends(r) ==
  /\ caller[r] = "checked"
  /\ caller' = [caller EXCEPT ![r] = "appended"]
  /\ QueueUp(r)
  /\ UNCHANGED <<token, stoppedChan, shutdown, loop, cur, stop, cancelled, answers, renewals>>

\* Mutant: the caller does not signal unless the queue was empty when it looks.
SignalsIfAlone(r) ==
  /\ caller[r] = "appended"
  /\ caller' = [caller EXCEPT ![r] = "accepted"]
  /\ token' = (token \/ Len(queue) = 1)
  /\ UNCHANGED <<queue, stoppedChan, shutdown, loop, cur, stop, cancelled, answers,
                 renewals, late>>

EnqueueSignals(r) ==
  /\ caller[r] = "appended"
  /\ caller' = [caller EXCEPT ![r] = "accepted"]
  /\ token' = TRUE
  /\ UNCHANGED <<queue, stoppedChan, shutdown, loop, cur, stop, cancelled, answers,
                 renewals, late>>

\* The upload is over, or another host has stored the sector.
CancelRequest(r) ==
  /\ r \notin cancelled
  /\ cancelled' = cancelled \cup {r}
  /\ UNCHANGED <<caller, queue, token, stoppedChan, shutdown, loop, cur, stop,
                 answers, renewals, late>>

-----------------------------------------------------------------------------
(* Start *)

Finish(r) == answers' = [answers EXCEPT ![r] = @ + 1]

\* A select that finds one of the channels closed.
LoopStops ==
  /\ loop \in {"wait", "check"}
  /\ \/ stoppedChan /\ loop' = "stopped"
     \/ shutdown /\ loop' = "shutdown"
  /\ UNCHANGED <<caller, queue, token, stoppedChan, shutdown, cur, stop, cancelled,
                 answers, renewals, late>>

LoopWakes ==
  /\ loop = "wait"
  /\ token
  /\ token' = FALSE
  /\ loop' = "check"
  /\ UNCHANGED <<caller, queue, stoppedChan, shutdown, cur, stop, cancelled, answers,
                 renewals, late>>

LoopChecks ==
  /\ loop = "check"
  /\ ~stoppedChan /\ ~shutdown
  /\ loop' = "pop"
  /\ UNCHANGED <<caller, queue, token, stoppedChan, shutdown, cur, stop, cancelled,
                 answers, renewals, late>>

\* pop; a request whose context is done is answered at once.
LoopPops ==
  /\ loop = "pop"
  /\ IF queue = <<>>
     THEN loop' = "wait" /\ UNCHANGED <<queue, cur, answers>>
     ELSE /\ queue' = Tail(queue)
          /\ IF Head(queue) \in cancelled
             THEN loop' = "check" /\ Finish(Head(queue)) /\ UNCHANGED cur
             ELSE loop' = "execute" /\ cur' = Head(queue) /\ UNCHANGED answers
  /\ UNCHANGED <<caller, token, stoppedChan, shutdown, stop, cancelled, renewals, late>>

\* execute ends, with the sector stored or an error: the request is answered.
LoopFinishes ==
  /\ loop = "execute"
  /\ Finish(cur)
  /\ cur' = NoReq
  /\ loop' = "check"
  /\ UNCHANGED <<caller, queue, token, stoppedChan, shutdown, stop, cancelled, renewals, late>>

\* Mutant: the request that is tried again is answered as well.
RefreshesAndFinishes ==
  /\ loop = "execute"
  /\ renewals < MaxRetry
  /\ renewals' = renewals + 1
  /\ loop' = "retry"
  /\ Finish(cur)
  /\ UNCHANGED <<caller, queue, token, stoppedChan, shutdown, cur, stop, cancelled, late>>

\* ErrorCodeBadRequest, and tryRefresh finds the contract renewed.
LoopRefreshes ==
  /\ loop = "execute"
  /\ renewals < MaxRetry
  /\ renewals' = renewals + 1
  /\ loop' = "retry"
  /\ UNCHANGED <<caller, queue, token, stoppedChan, shutdown, cur, stop, cancelled, answers, late>>

\* Enqueue by the loop itself, whose result nobody looks at.
RetryChecks ==
  /\ loop = "retry"
  /\ IF stoppedChan THEN loop' = "wait" /\ cur' = NoReq /\ late' = late \cup {cur}
                ELSE loop' = "append" /\ UNCHANGED <<cur, late>>
  /\ UNCHANGED <<caller, queue, token, stoppedChan, shutdown, stop, cancelled, answers, renewals>>

RetryAppends ==
  /\ loop = "append"
  /\ QueueUp(cur)
  /\ cur' = NoReq
  /\ loop' = "signal"
  /\ UNCHANGED <<caller, token, stoppedChan, shutdown, stop, cancelled, answers, renewals>>

RetrySignals ==
  /\ loop = "signal"
  /\ token' = TRUE
  /\ loop' = "wait"
  /\ UNCHANGED <<caller, queue, stoppedChan, shutdown, cur, stop, cancelled, answers,
                 renewals, late>>

-----------------------------------------------------------------------------
(* Stop *)

StopCloses ==
  /\ stop = "no"
  /\ stoppedChan' = TRUE
  /\ stop' = "drain"
  /\ UNCHANGED <<caller, queue, token, shutdown, loop, cur, cancelled, answers,
                 renewals, late>>

\* Stop fails the requests it finds in the queue, one by one.
StopDrains ==
  /\ stop = "drain"
  /\ IF queue = <<>>
     THEN stop' = "done" /\ UNCHANGED <<queue, answers>>
     ELSE queue' = Tail(queue) /\ Finish(Head(queue)) /\ UNCHANGED stop
  /\ UNCHANGED <<caller, token, stoppedChan, shutdown, loop, cur, cancelled, renewals, late>>

\* The manager's context is done; its Stop follows.
Shutdown ==
  /\ ~shutdown
  /\ shutdown' = TRUE
  /\ UNCHANGED <<caller, queue, token, stoppedChan, loop, cur, stop, cancelled, answers,
                 renewals, late>>

-----------------------------------------------------------------------------
Enqueue(r) == EnqueueChecks(r) \/ EnqueueAppends(r) \/ EnqueueSignals(r)
Start ==
  \/ LoopStops \/ LoopWakes \/ LoopChecks \/ LoopPops \/ LoopFinishes \/ LoopRefreshes
  \/ RetryChecks \/ RetryAppends \/ RetrySignals
Stop == StopCloses \/ StopDrains

UploaderNext == Start \/ Stop \/ Shutdown \/ \E r \in Reqs : Enqueue(r) \/ CancelRequest(r)

UploaderSpec == UploaderInit /\ [][UploaderNext]_uploaderVars

\* The goroutines are scheduled and a sector upload ends: it has a timeout.
UploaderFairSpec ==
  /\ UploaderSpec
  /\ WF_uploaderVars(Start) /\ WF_uploaderVars(StopDrains)
  /\ \A r \in Reqs : WF_uploaderVars(EnqueueAppends(r) \/ EnqueueSignals(r))

-----------------------------------------------------------------------------
(* Properties *)

\* The loop never sleeps on a queue with work: a signal is pending, or about to
\* be sent by the caller that appended.
NoForgottenWork ==
  loop = "wait" /\ queue # <<>> /\ ~stoppedChan =>
    token \/ \E r \in Reqs : caller[r] = "appended"

\* A request is answered once at most, whoever takes it from the queue and
\* however often it is tried again: the response channels are sized for that.
AnsweredOnce ==
  \A r \in Reqs :
    answers[r] + Cardinality({i \in 1..Len(queue) : queue[i] = r})
      + (IF cur = r THEN 1 ELSE 0) <= 1

AllEnded ==
  /\ stop = "done"
  /\ loop \in Ended
  /\ \A r \in Reqs : caller[r] \in {"new", "accepted", "refused"}

\* Stop answers for everything that was accepted before it: only a request that
\* met the closed channel on its way into the queue is left.
StopAnswersEarlier ==
  AllEnded => \A r \in Reqs : caller[r] = "accepted" /\ answers[r] = 0 => r \in late

\* A request that was accepted is answered, unless the uploader is stopped.
AcceptedIsAnswered ==
  \A r \in Reqs : (caller[r] = "accepted") ~> (answers[r] = 1 \/ stoppedChan \/ shutdown)
=============================================================================
