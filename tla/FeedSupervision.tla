-------------------------- MODULE FeedSupervision ---------------------------
(***************************************************************************)
(* A feed and the watchdog over it: the sockets of one symbol, the threads *)
(* that replace them, the frames that mark the feed as fresh, and the      *)
(* passes that ask for a reconnection.                                     *)
(***************************************************************************)
EXTENDS ExchangeClient, Watchdog

vars == <<clientVars, watchVars>>

TypeOK == ClientTypeOK /\ WatchTypeOK

Init == ClientInit /\ WatchInit

------------------------------------------------------------------------------
\* A frame arrives, and the book changes.
Speaking == \E s \in Sockets : socket[s] = "up"

Frame ==
  /\ Speaking
  /\ MarkUpdate
  /\ UNCHANGED clientVars

\* main() starts the watchdog when it has subscribed.
Look ==
  /\ pc[Main] = "none"
  /\ BeginPass \/ SkipPass
  /\ UNCHANGED clientVars

\* A book is never crossed (SharedBook: NeverCrossed).  It can seem so because
\* its bid and its ask are read one after the other, and it changed in between.
Examine ==
  \/ BookIsFine /\ UNCHANGED clientVars
  \/ Speaking /\ BookSeemsCrossed /\ UNCHANGED clientVars
  \/ FeedIsFresh /\ UNCHANGED clientVars

\* The requests of a pass, and the one that throws and ends the pass.
Demand ==
  \/ Speaking /\ BookStaysCrossed(FALSE) /\ Request
  \/ FeedIsStale(FALSE) /\ Request

DemandThrows ==
  \/ Speaking /\ BookStaysCrossed(TRUE) /\ RequestThrows
  \/ FeedIsStale(TRUE) /\ RequestThrows

WatchdogStep == Look \/ Examine \/ Demand \/ DemandThrows

Exchange ==
  \/ Frame
  \/ \E s \in Sockets : /\ Fails(s) \/ FallsQuiet(s) \/ Resumes(s)
                        /\ UNCHANGED watchVars

WorkerStep(w) == Work(w) /\ UNCHANGED watchVars

Next ==
  \/ Exchange
  \/ WatchdogStep
  \/ \E w \in Workers : WorkerStep(w)

Spec == Init /\ [][Next]_vars

\* The threads run on: the mutexes are held for a few statements or, by the
\* watchdog, for a pass; the sleeps end; and stop() waits for a callback that
\* ends.  Nothing is asked of the exchange.
FairSpec ==
  /\ Spec
  /\ WF_vars(WatchdogStep)
  /\ \A w \in Workers : WF_vars(WorkerStep(w))

------------------------------------------------------------------------------
\* However requests, dropped requests and aborted passes interleave, a feed is
\* without an update or a request for Stale passes at most, not counting those
\* that did not get to it and the one whose request threw.
SilenceIsNoticed == age <= Stale + skipped + (IF stuck THEN 1 ELSE 0)

\* A socket that has fallen silent is replaced, unless it resumes; with the
\* flag stuck, no request is ever served again.
QuietSocketIsReplaced ==
  \A s \in Sockets : socket[s] = "quiet" ~> socket[s] # "quiet" \/ stuck

\* A symbol without a socket gets one again, even after the reconnect thread
\* has given up because its socket could not be started.
FeedComesBack == Running = {} ~> Running # {} \/ stuck
=============================================================================
