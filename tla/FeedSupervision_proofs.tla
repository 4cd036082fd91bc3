----------------------- MODULE FeedSupervision_proofs ------------------------
(***************************************************************************)
(* One reconnect thread, one writer per order book, and no silence without *)
(* a request - for any number of sockets, threads, passes and failures.    *)
(***************************************************************************)
EXTENDS FeedSupervision, TLAPS

\* A worker between taking the old socket out and storing the new one.
AtWork == {w \in Workers : pc[w] \in {"stop", "start", "store"}}

\* reconnecting_ belongs to at most one thread, and to none that is missing.
FlagInv ==
  /\ OneReconnector
  /\ stuck => Reconnectors = {}

\* A worker at work is the only one, has emptied wsClients_, and holds the
\* socket that runs, if any.
SocketInv ==
  /\ \A w \in Workers : held[w] # NoSocket <=> pc[w] \in {"stop", "store"}
  /\ \A v, w \in AtWork : v = w
  /\ \A w \in AtWork : stored = NoSocket
  /\ \A s \in Running : s = stored \/ \E w \in AtWork : s = held[w]

\* Nobody asks for a reconnection before main has started the first socket,
\* and the watchdog does not before main has stored it.
MainInv ==
  /\ pc[Main] \in {"start", "store", "none"}
  /\ pc[Main] = "start" => Reconnectors = {}
  /\ pass # "asleep" => pc[Main] = "none"

\* Before a pass has looked at the age, one pass is still to be made up for.
AgeInv ==
  age <= Stale + skipped + (IF stuck THEN 1 ELSE 0) - (IF pass = "asleep" THEN 1 ELSE 0)

SuspicionInv ==
  badFor # NotBad => badFor + (IF pass = "book" THEN 0 ELSE 1) <= crossed + skipped

ClientInv == ClientTypeOK /\ FlagInv /\ SocketInv

WatchInv == WatchTypeOK /\ AgeInv /\ SuspicionInv

Inv == ClientInv /\ WatchInv /\ MainInv

------------------------------------------------------------------------------
LEMMA InitInv == Init => Inv
<1> SUFFICES ASSUME Init PROVE Inv
  OBVIOUS
<1> USE DEF Init, ClientInit, WatchInit
<1>1. ClientTypeOK
  <2>1. pc \in [Workers -> {"none", "sleep", "stop", "start", "store", "clear"}]
    OBVIOUS
  <2>2. socket \in [Sockets -> {"none", "up", "quiet"}]
    OBVIOUS
  <2>3. held \in [Workers -> Sockets \cup {NoSocket}]
    OBVIOUS
  <2>4. reconnecting \in BOOLEAN /\ stuck \in BOOLEAN /\ stored \in Sockets \cup {NoSocket}
    OBVIOUS
  <2>5. failures \in 0 .. MaxFailures
    BY ClientAssumption
  <2> QED
    BY <2>1, <2>2, <2>3, <2>4, <2>5 DEF ClientTypeOK
<1>2. FlagInv /\ Reconnectors = {}
  BY ClientAssumption DEF FlagInv, OneReconnector, Reconnectors, Workers
<1>3. SocketInv
  BY DEF SocketInv, AtWork, Running
<1>4. WatchInv
  BY WatchdogAssumption DEF WatchInv, WatchTypeOK, AgeInv, SuspicionInv
<1>5. MainInv
  BY <1>2 DEF MainInv, Workers
<1> QED
  BY <1>1, <1>2, <1>3, <1>4, <1>5 DEF Inv, ClientInv

------------------------------------------------------------------------------
\* The steps of the client.

LEMMA RequestKeeps ==
  ASSUME ClientInv, MainInv, pc[Main] # "start", Request
  PROVE  ClientInv' /\ pc'[Main] = pc[Main] /\ stuck' = stuck
<1>1. CASE UNCHANGED clientVars
  BY <1>1 DEF ClientInv, clientVars, ClientTypeOK, FlagInv, OneReconnector, Reconnectors,
              SocketInv, AtWork, Running, Workers
<1>2. CASE ~ UNCHANGED clientVars
  <2>1. /\ ~ reconnecting /\ reconnecting' = TRUE
        /\ UNCHANGED <<socket, stored, held, stuck, failures>>
    BY <1>2 DEF Request
  <2>2. PICK t \in Threads : pc[t] = "none" /\ pc' = [pc EXCEPT ![t] = "sleep"]
    BY <1>2 DEF Request
  <2>3. t \in Workers /\ t # Main /\ Main \in Workers
    BY ClientAssumption DEF Workers
  <2>4. ClientTypeOK'
    BY <2>1, <2>2, <2>3 DEF ClientInv, ClientTypeOK
  <2>5. \A w \in Workers : pc'[w] = IF w = t THEN "sleep" ELSE pc[w]
    BY <2>2 DEF ClientInv, ClientTypeOK
  <2>6. Reconnectors = {} /\ ~ stuck
    BY <2>1 DEF ClientInv, FlagInv, OneReconnector
  <2>7. Reconnectors' = {t}
    BY <2>5, <2>6 DEF Reconnectors, Workers
  <2>8. FlagInv'
    BY <2>1, <2>6, <2>7 DEF FlagInv, OneReconnector
  <2>9. AtWork' = AtWork /\ Running' = Running
    BY <2>1, <2>2, <2>5 DEF AtWork, Running
  <2>10. SocketInv'
    BY <2>1, <2>2, <2>5, <2>9 DEF ClientInv, SocketInv
  <2> QED
    BY <2>1, <2>3, <2>4, <2>5, <2>8, <2>10 DEF ClientInv
<1> QED
  BY <1>1, <1>2

LEMMA RequestThrowsKeeps ==
  ASSUME ClientInv, RequestThrows
  PROVE  ClientInv' /\ pc' = pc /\ ~ stuck /\ stuck'
<1>1. ClientTypeOK'
  BY ClientAssumption DEF ClientInv, ClientTypeOK, RequestThrows
<1>2. Reconnectors = {} /\ ~ stuck
  BY DEF ClientInv, FlagInv, OneReconnector, RequestThrows
<1>3. FlagInv'
  BY <1>2 DEF RequestThrows, FlagInv, OneReconnector, Reconnectors
<1>4. SocketInv'
  BY DEF ClientInv, RequestThrows, SocketInv, AtWork, Running
<1> QED
  BY <1>1, <1>2, <1>3, <1>4 DEF ClientInv, RequestThrows

\* What a worker's step changes apart from the sockets.
LEMMA WorkIsTyped ==
  ASSUME ClientInv, NEW w \in Workers, Work(w)
  PROVE  /\ ClientTypeOK'
         /\ \A v \in Workers : v # w => pc'[v] = pc[v] /\ held'[v] = held[v]
         /\ stuck' = stuck
         /\ w = Main => pc'[w] \in {"store", "none"}
<1> USE ClientAssumption DEF ClientInv, ClientTypeOK
<1>1. CASE Start(w)
  BY <1>1 DEF Start
<1>2. CASE Store(w)
  <2>1. held[w] \in Sockets \cup {NoSocket}
    OBVIOUS
  <2>2. pc' \in [Workers -> {"none", "sleep", "stop", "start", "store", "clear"}]
    BY <1>2 DEF Store
  <2>3. held' \in [Workers -> Sockets \cup {NoSocket}]
    BY <1>2 DEF Store
  <2> QED
    BY <1>2, <2>1, <2>2, <2>3 DEF Store
<1>3. CASE w \in Threads /\ Wake(w)
  BY <1>3 DEF Wake
<1>4. CASE w \in Threads /\ StopOld(w)
  BY <1>4 DEF StopOld
<1>5. CASE w \in Threads /\ StartThrows(w)
  <2>1. failures' \in 0 .. MaxFailures
    BY <1>5 DEF StartThrows
  <2>2. UNCHANGED <<socket, stored, reconnecting, held, stuck>>
    BY <1>5 DEF StartThrows
  <2>3. pc' = [pc EXCEPT ![w] = "clear"]
    BY <1>5 DEF StartThrows
  <2> QED
    BY <1>5, <2>1, <2>2, <2>3
<1>6. CASE w \in Threads /\ ClearFlag(w)
  BY <1>6 DEF ClearFlag
<1> QED
  BY <1>1, <1>2, <1>3, <1>4, <1>5, <1>6 DEF Work

\* The flag is cleared by the one thread it belongs to, and by no other step.
LEMMA WorkKeepsFlag ==
  ASSUME ClientInv, NEW w \in Workers, Work(w)
  PROVE  FlagInv'
<1>1. CASE w \in Threads /\ ClearFlag(w)
  <2>1. Reconnectors = {w} /\ ~ stuck
    BY <1>1 DEF ClearFlag, ClientInv, FlagInv, OneReconnector, Reconnectors
  <2>2. Reconnectors' = {}
    BY <1>1, <2>1 DEF ClearFlag, ClientInv, ClientTypeOK, Reconnectors, Workers
  <2> QED
    BY <1>1, <2>1, <2>2 DEF ClearFlag, FlagInv, OneReconnector
<1>2. CASE ~ (w \in Threads /\ ClearFlag(w))
  <2>1. reconnecting' = reconnecting /\ stuck' = stuck
    BY <1>2 DEF Work, Start, Store, Wake, StopOld, StartThrows
  <2>2. w \in Threads => pc[w] # "none" /\ pc'[w] # "none"
    BY <1>2, ClientAssumption
    DEF Work, Start, Store, Wake, StopOld, StartThrows, ClientInv, ClientTypeOK
  <2>3. \A t \in Threads : pc'[t] = "none" <=> pc[t] = "none"
    BY <2>2, WorkIsTyped DEF Workers
  <2>4. Reconnectors' = Reconnectors
    BY <2>3 DEF Reconnectors
  <2> QED
    BY <2>1, <2>4 DEF ClientInv, FlagInv, OneReconnector
<1> QED
  BY <1>1, <1>2

\* With a worker at work, the socket it holds is the only one that runs.
LEMMA AtWorkAlone ==
  ASSUME ClientInv, NEW w \in AtWork
  PROVE  /\ stored = NoSocket
         /\ AtWork = {w}
         /\ Running \subseteq {held[w]}
         /\ pc[w] = "start" => Running = {}
<1>1. stored = NoSocket /\ AtWork = {w} /\ w \in Workers
  BY DEF ClientInv, SocketInv, AtWork
<1>2. NoSocket \notin Running
  BY ClientAssumption DEF Running
<1>3. Running \subseteq {held[w]}
  BY <1>1, <1>2 DEF ClientInv, SocketInv
<1>4. pc[w] = "start" => held[w] = NoSocket
  BY <1>1 DEF ClientInv, SocketInv
<1> QED
  BY <1>1, <1>2, <1>3, <1>4

LEMMA WorkKeepsSockets ==
  ASSUME ClientInv, MainInv, NEW w \in Workers, Work(w)
  PROVE  SocketInv'
<1>0. \A v \in Workers : v # w => pc'[v] = pc[v] /\ held'[v] = held[v]
  BY WorkIsTyped
<1> USE ClientAssumption DEF ClientInv, ClientTypeOK
<1>1. CASE w \in Threads /\ Wake(w)
  <2>1. AtWork = {}
    <3>1. pc[Main] \notin {"start", "store"}
      BY <1>1 DEF Wake, MainInv, Reconnectors
    <3>2. \A t \in Threads : t # w => pc[t] = "none"
      BY <1>1 DEF Wake, FlagInv, OneReconnector, Reconnectors
    <3> QED
      BY <1>1, <3>1, <3>2 DEF Wake, MainInv, AtWork, Workers
  <2>2. AtWork' = {w}
    BY <1>0, <1>1, <2>1 DEF Wake, AtWork
  <2>3. Running' = Running /\ Running \subseteq {stored}
    BY <1>1, <2>1 DEF Wake, Running, SocketInv
  <2>4. stored' = NoSocket /\ held'[w] = stored
    BY <1>1 DEF Wake
  <2>5. pc'[w] = IF stored = NoSocket THEN "start" ELSE "stop"
    BY <1>1 DEF Wake
  <2> QED
    BY <1>0, <2>2, <2>3, <2>4, <2>5 DEF SocketInv
<1>2. CASE w \in Threads /\ StopOld(w)
  <2>1. w \in AtWork
    BY <1>2 DEF StopOld, AtWork
  <2>2. AtWork' = AtWork
    BY <1>0, <1>2 DEF StopOld, AtWork
  <2>3. Running' = {}
    BY <1>2, <2>1, AtWorkAlone DEF StopOld, Running
  <2>4. held'[w] = NoSocket /\ pc'[w] = "start" /\ stored' = stored
    BY <1>2 DEF StopOld
  <2> QED
    BY <1>0, <2>2, <2>3, <2>4 DEF SocketInv
<1>3. CASE Start(w)
  <2>1. w \in AtWork
    BY <1>3 DEF Start, AtWork
  <2>2. AtWork' = AtWork
    BY <1>0, <1>3 DEF Start, AtWork
  <2>3. PICK s \in Sockets : socket' = [socket EXCEPT ![s] = "up"] /\ held'[w] = s
    BY <1>3 DEF Start
  <2>4. Running = {}
    BY <1>3, <2>1, AtWorkAlone DEF Start
  <2>5. Running' = {s}
    BY <2>3, <2>4 DEF Running
  <2>6. pc'[w] = "store" /\ stored' = stored
    BY <1>3 DEF Start
  <2> QED
    BY <1>0, <2>1, <2>2, <2>3, <2>5, <2>6 DEF SocketInv
<1>4. CASE Store(w) \/ (w \in Threads /\ StartThrows(w))
  <2>1. w \in AtWork
    BY <1>4 DEF Store, StartThrows, AtWork
  <2>2. AtWork = {w} /\ stored = NoSocket /\ Running \subseteq {held[w]}
    BY <2>1, AtWorkAlone
  <2>3. AtWork' = {}
    BY <1>0, <1>4, <2>2 DEF Store, StartThrows, AtWork
  <2>4. Running' = Running
    BY <1>4 DEF Store, StartThrows, Running
  <2>5. CASE Store(w)
    <3>1. stored' = held[w] /\ held'[w] = NoSocket /\ pc'[w] \in {"none", "clear"}
      BY <2>5 DEF Store
    <3> QED
      BY <1>0, <2>2, <2>3, <2>4, <3>1 DEF SocketInv
  <2>6. CASE StartThrows(w)
    <3>1. Running = {}
      BY <2>1, <2>6, AtWorkAlone DEF StartThrows
    <3>2. held' = held /\ pc'[w] = "clear" /\ pc[w] = "start"
      BY <2>6 DEF StartThrows
    <3> QED
      BY <1>0, <2>3, <2>4, <3>1, <3>2 DEF SocketInv
  <2> QED
    BY <1>4, <2>5, <2>6
<1>5. CASE w \in Threads /\ ClearFlag(w)
  <2>1. AtWork' = AtWork /\ Running' = Running
    BY <1>0, <1>5 DEF ClearFlag, AtWork, Running
  <2>2. UNCHANGED <<stored, held>> /\ pc[w] = "clear" /\ pc'[w] = "none"
    BY <1>5 DEF ClearFlag
  <2> QED
    BY <1>0, <2>1, <2>2 DEF SocketInv
<1> QED
  BY <1>1, <1>2, <1>3, <1>4, <1>5 DEF Work

LEMMA WorkKeeps ==
  ASSUME ClientInv, MainInv, NEW w \in Workers, Work(w), UNCHANGED pass
  PROVE  ClientInv' /\ MainInv' /\ stuck' = stuck
<1>1. ClientInv' /\ stuck' = stuck
  BY WorkIsTyped, WorkKeepsFlag, WorkKeepsSockets DEF ClientInv
<1>2. CASE w = Main
  <2>1. pc'[Main] \in {"store", "none"} /\ (pc[Main] = "none" => FALSE)
    BY <1>2, WorkIsTyped, ClientAssumption DEF Work, Start, Store
  <2> QED
    BY <1>1, <2>1 DEF MainInv
<1>3. CASE w # Main
  <2>1. pc'[Main] = pc[Main]
    BY <1>3, WorkIsTyped DEF Workers
  <2>2. pc[Main] # "start"
    BY <1>3, ClientAssumption
    DEF MainInv, Reconnectors, Workers, Work, Start, Store, Wake, StopOld, StartThrows,
        ClearFlag
  <2> QED
    BY <1>1, <2>1, <2>2 DEF MainInv
<1> QED
  BY <1>2, <1>3

LEMMA SpeechKeeps ==
  ASSUME ClientInv, NEW s \in Sockets, FallsQuiet(s) \/ Resumes(s)
  PROVE  ClientInv' /\ UNCHANGED <<pc, stuck>>
<1>1. ClientTypeOK'
  BY DEF ClientInv, ClientTypeOK, FallsQuiet, Resumes
<1>2. Running' = Running
  BY DEF ClientInv, ClientTypeOK, FallsQuiet, Resumes, Running
<1>3. FlagInv' /\ SocketInv'
  BY <1>2 DEF ClientInv, FlagInv, OneReconnector, Reconnectors, SocketInv, AtWork,
              FallsQuiet, Resumes
<1> QED
  BY <1>1, <1>3 DEF ClientInv, FallsQuiet, Resumes

------------------------------------------------------------------------------
\* The steps of the watchdog.

LEMMA QuietPassKeeps ==
  ASSUME WatchInv, UNCHANGED stuck,
         \/ MarkUpdate \/ BeginPass \/ SkipPass
         \/ BookIsFine \/ BookSeemsCrossed \/ FeedIsFresh
  PROVE  WatchInv'
<1> USE WatchdogAssumption DEF WatchInv, WatchTypeOK, AgeInv, SuspicionInv
<1>1. CASE MarkUpdate
  BY <1>1 DEF MarkUpdate
<1>2. CASE BeginPass \/ SkipPass
  BY <1>2 DEF BeginPass, SkipPass, TimePasses
<1>3. CASE BookIsFine
  BY <1>3 DEF BookIsFine
<1>4. CASE BookSeemsCrossed
  BY <1>4 DEF BookSeemsCrossed
<1>5. CASE FeedIsFresh
  BY <1>5 DEF FeedIsFresh, IsStale
<1> QED
  BY <1>1, <1>2, <1>3, <1>4, <1>5

LEMMA DemandKeeps ==
  ASSUME WatchInv, UNCHANGED stuck, BookStaysCrossed(FALSE) \/ FeedIsStale(FALSE)
  PROVE  WatchInv'
BY WatchdogAssumption
DEF WatchInv, WatchTypeOK, AgeInv, SuspicionInv, BookStaysCrossed, FeedIsStale

LEMMA DemandThrowsKeeps ==
  ASSUME WatchInv, ~ stuck, stuck', BookStaysCrossed(TRUE) \/ FeedIsStale(TRUE)
  PROVE  WatchInv'
BY WatchdogAssumption
DEF WatchInv, WatchTypeOK, AgeInv, SuspicionInv, BookStaysCrossed, FeedIsStale

------------------------------------------------------------------------------
\* Every step of the supervised feed.

LEMMA NextKeeps == Inv /\ [Next]_vars => Inv'
<1> SUFFICES ASSUME Inv, [Next]_vars PROVE Inv'
  OBVIOUS
<1> USE DEF Inv
<1>1. CASE UNCHANGED vars
  BY <1>1
  DEF vars, clientVars, watchVars, ClientInv, ClientTypeOK, FlagInv, OneReconnector,
      Reconnectors, SocketInv, AtWork, Running, MainInv, WatchInv, WatchTypeOK, AgeInv,
      SuspicionInv
<1>2. CASE Frame
  <2>1. UNCHANGED clientVars
    BY <1>2 DEF Frame
  <2>2. WatchInv'
    BY <1>2, <2>1, QuietPassKeeps DEF Frame, clientVars
  <2> QED
    BY <1>2, <2>1, <2>2
    DEF clientVars, ClientInv, ClientTypeOK, FlagInv, OneReconnector, Reconnectors,
        SocketInv, AtWork, Running, MainInv, Frame, MarkUpdate
<1>3. CASE \E s \in Sockets : Fails(s) /\ UNCHANGED watchVars
  <2>1. PICK s \in Sockets : socket[s] # "none" /\ Request
    BY <1>3 DEF Fails
  <2>2. pc[Main] # "start"
    <3> SUFFICES ASSUME pc[Main] = "start" PROVE FALSE
      OBVIOUS
    <3>1. Main \in AtWork
      BY DEF AtWork, Workers
    <3> QED
      BY <2>1, <3>1, AtWorkAlone DEF Running
  <2>3. ClientInv' /\ pc'[Main] = pc[Main] /\ stuck' = stuck
    BY <2>1, <2>2, RequestKeeps
  <2> QED
    BY <1>3, <2>2, <2>3
    DEF watchVars, MainInv, WatchInv, WatchTypeOK, AgeInv, SuspicionInv
<1>4. CASE \E s \in Sockets : (FallsQuiet(s) \/ Resumes(s)) /\ UNCHANGED watchVars
  <2>1. ClientInv' /\ UNCHANGED <<pc, stuck>>
    BY <1>4, SpeechKeeps
  <2> QED
    BY <1>4, <2>1
    DEF watchVars, MainInv, Reconnectors, WatchInv, WatchTypeOK, AgeInv, SuspicionInv
<1>5. CASE Look \/ Examine
  <2>1. UNCHANGED clientVars
    BY <1>5 DEF Look, Examine
  <2>2. WatchInv'
    BY <1>5, <2>1, QuietPassKeeps DEF Look, Examine, clientVars
  <2>3. pc[Main] = "none"
    BY <1>5 DEF Look, Examine, MainInv, BookIsFine, BookSeemsCrossed, FeedIsFresh
  <2> QED
    BY <2>1, <2>2, <2>3
    DEF clientVars, ClientInv, ClientTypeOK, FlagInv, OneReconnector, Reconnectors,
        SocketInv, AtWork, Running, MainInv
<1>6. CASE Demand
  <2>1. Request /\ (BookStaysCrossed(FALSE) \/ FeedIsStale(FALSE))
    BY <1>6 DEF Demand
  <2>2. pc[Main] = "none"
    BY <2>1 DEF MainInv, BookStaysCrossed, FeedIsStale
  <2>3. ClientInv' /\ pc'[Main] = pc[Main] /\ stuck' = stuck
    BY <2>1, <2>2, RequestKeeps
  <2>4. WatchInv'
    BY <2>1, <2>3, DemandKeeps
  <2> QED
    BY <2>2, <2>3, <2>4 DEF MainInv
<1>7. CASE DemandThrows
  <2>1. RequestThrows /\ (BookStaysCrossed(TRUE) \/ FeedIsStale(TRUE))
    BY <1>7 DEF DemandThrows
  <2>2. pc[Main] = "none"
    BY <2>1 DEF MainInv, BookStaysCrossed, FeedIsStale
  <2>3. ClientInv' /\ pc' = pc /\ ~ stuck /\ stuck'
    BY <2>1, RequestThrowsKeeps
  <2>4. WatchInv'
    BY <2>1, <2>3, DemandThrowsKeeps
  <2> QED
    BY <2>2, <2>3, <2>4 DEF MainInv
<1>8. CASE \E w \in Workers : WorkerStep(w)
  <2>1. ClientInv' /\ MainInv' /\ stuck' = stuck /\ UNCHANGED watchVars
    BY <1>8, WorkKeeps DEF WorkerStep, watchVars
  <2> QED
    BY <2>1 DEF watchVars, WatchInv, WatchTypeOK, AgeInv, SuspicionInv
<1> QED
  BY <1>1, <1>2, <1>3, <1>4, <1>5, <1>6, <1>7, <1>8 DEF Next, Exchange, WatchdogStep

LEMMA InvHolds == Spec => []Inv
BY InitInv, NextKeeps, PTL DEF Spec

\* The variables keep their types: reconnectWithDelay, run of the watchdog.
THEOREM SupervisionTypeOK == Spec => []TypeOK
<1>1. Inv => TypeOK
  BY DEF Inv, ClientInv, WatchInv, TypeOK
<1> QED
  BY <1>1, InvHolds, PTL

\* "prevent multiple concurrent reconnect threads for the same symbol":
\* reconnectWithDelay does, and its flag never outlives the thread.
THEOREM ReconnectionIsExclusive == Spec => []OneReconnector
<1>1. Inv => OneReconnector
  BY DEF Inv, ClientInv, FlagInv
<1> QED
  BY <1>1, InvHolds, PTL

\* Whoever asks for reconnections, and whatever fails, an OrderBook has one
\* writer: startWebSocket never runs a socket beside another one.
THEOREM BooksHaveOneWriter == Spec => []OneWriter
<1>1. Inv => OneWriter
  <2> SUFFICES ASSUME Inv PROVE OneWriter
    OBVIOUS
  <2>1. \A s \in Running : s = stored \/ \E w \in AtWork : s = held[w]
    BY DEF Inv, ClientInv, SocketInv
  <2>2. AtWork \subseteq Workers
    BY DEF AtWork
  <2>3. CASE AtWork = {}
    BY <2>1, <2>3 DEF OneWriter
  <2>4. CASE AtWork # {}
    <3>1. PICK w \in AtWork : TRUE
      BY <2>4
    <3>2. Running \subseteq {held[w]}
      BY <3>1, AtWorkAlone DEF Inv
    <3> QED
      BY <2>2, <3>1, <3>2 DEF OneWriter
  <2> QED
    BY <2>3, <2>4
<1> QED
  BY <1>1, InvHolds, PTL

\* A feed is never without both an update and a request for longer than the
\* watchdog's limit.
THEOREM SilenceDoesNotLast == Spec => []SilenceIsNoticed
<1>1. Inv => SilenceIsNoticed
  BY WatchdogAssumption DEF Inv, WatchInv, WatchTypeOK, AgeInv, SilenceIsNoticed
<1> QED
  BY <1>1, InvHolds, PTL

\* The watchdog gives a book up as crossed only after it has seen it crossed at
\* every pass that got to it.
THEOREM CrossedBooksWereSeen == Spec => []SuspicionIsWitnessed
<1>1. Inv => SuspicionIsWitnessed
  BY DEF Inv, WatchInv, WatchTypeOK, SuspicionInv, SuspicionIsWitnessed
<1> QED
  BY <1>1, InvHolds, PTL
=============================================================================
