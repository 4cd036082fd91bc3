------------------------------ MODULE Watchdog ------------------------------
(***************************************************************************)
(* The watchdog's view of one order book feed.  Its thread passes over all *)
(* feeds every ten seconds with its mutex held, so markUpdate waits for    *)
(* the end of a pass; time is counted in passes.  A pass ends early when   *)
(* an exception leaves requestReconnect, for this feed or for one that     *)
(* comes before it.                                                        *)
(***************************************************************************)
EXTENDS Integers

CONSTANTS
  Stale,       \* staleOrderbook, in passes (30 in the code)
  Grace,       \* invalidGrace, in passes (30 in the code)
  NotBad,      \* no entry in invalidSince_
  MaxSkipped   \* bound on the passes that do not get to this feed

ASSUME WatchdogAssumption ==
  /\ Stale \in Nat \ {0}
  /\ Grace \in Nat \ {0}
  /\ NotBad \notin Nat
  /\ MaxSkipped \in Nat

VARIABLES
  pass,     \* "asleep", or what the pass looks at next: "book" or "age"
  age,      \* now - lastUpdate_
  badFor,   \* now - invalidSince_, or NotBad
  skipped,  \* passes that ended before they came to this feed
  crossed   \* history: how many passes in a row saw a crossed book

watchVars == <<pass, age, badFor, skipped, crossed>>

WatchTypeOK ==
  /\ pass \in {"asleep", "book", "age"}
  /\ age \in Nat
  /\ badFor \in Nat \cup {NotBad}
  /\ skipped \in 0 .. MaxSkipped
  /\ crossed \in Nat

WatchInit ==
  /\ pass = "asleep"
  /\ age = 0
  /\ badFor = NotBad
  /\ skipped = 0
  /\ crossed = 0

------------------------------------------------------------------------------
MarkUpdate ==
  /\ pass = "asleep"
  /\ age' = 0
  /\ UNCHANGED <<pass, badFor, skipped, crossed>>

TimePasses ==
  /\ pass = "asleep"
  /\ age' = age + 1
  /\ badFor' = IF badFor = NotBad THEN NotBad ELSE badFor + 1

BeginPass ==
  /\ TimePasses
  /\ pass' = "book"
  /\ UNCHANGED <<skipped, crossed>>

SkipPass ==
  /\ TimePasses
  /\ skipped < MaxSkipped
  /\ skipped' = skipped + 1
  /\ UNCHANGED <<pass, crossed>>

\* Slips the properties must notice: a good book does not end the suspicion;
\* a feed is stale only after the limit; a stale feed is given time in advance.
BookIsFineForNow ==
  /\ pass = "book"
  /\ pass' = "age"
  /\ crossed' = 0
  /\ UNCHANGED <<age, badFor, skipped>>

IsOverdue == age > Stale

FeedIsStaleLenient(thrown) ==
  /\ pass = "age"
  /\ age >= Stale
  /\ pass' = "asleep"
  /\ age' = IF thrown THEN age ELSE 0 - Stale
  /\ UNCHANGED <<badFor, skipped, crossed>>

BookIsFine ==
  /\ pass = "book"
  /\ pass' = "age"
  /\ badFor' = NotBad
  /\ crossed' = 0
  /\ UNCHANGED <<age, skipped>>

GraceIsOver == badFor # NotBad /\ badFor >= Grace

BookSeemsCrossed ==
  /\ pass = "book"
  /\ ~ GraceIsOver
  /\ pass' = "age"
  /\ badFor' = IF badFor = NotBad THEN 0 ELSE badFor
  /\ crossed' = crossed + 1
  /\ UNCHANGED <<age, skipped>>

\* Still crossed after the grace: a reconnection is requested.  If the request
\* throws, the entry stays and the pass is over.
BookStaysCrossed(thrown) ==
  /\ pass = "book"
  /\ GraceIsOver
  /\ pass' = IF thrown THEN "asleep" ELSE "age"
  /\ badFor' = IF thrown THEN badFor ELSE NotBad
  /\ crossed' = IF thrown THEN crossed + 1 ELSE 0
  /\ UNCHANGED <<age, skipped>>

IsStale == age >= Stale

FeedIsFresh ==
  /\ pass = "age"
  /\ ~ IsStale
  /\ pass' = "asleep"
  /\ UNCHANGED <<age, badFor, skipped, crossed>>

\* Another request; its timer starts again, even if the request was dropped
\* because a thread is at work, but not if it throws.
FeedIsStale(thrown) ==
  /\ pass = "age"
  /\ IsStale
  /\ pass' = "asleep"
  /\ age' = IF thrown THEN age ELSE 0
  /\ UNCHANGED <<badFor, skipped, crossed>>

------------------------------------------------------------------------------
\* A book is held to be crossed for no longer than pass after pass has seen it
\* crossed, the passes that did not get to it apart.
SuspicionIsWitnessed == badFor # NotBad => badFor <= crossed + skipped
=============================================================================
