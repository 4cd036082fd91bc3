--------------------------- MODULE ExchangeClient ---------------------------
(***************************************************************************)
(* The sockets of one symbol in BinanceFuturesClient, BybitFuturesClient   *)
(* or DydxFuturesClient, which all reconnect in the same way: a request    *)
(* starts a detached thread unless one is at work for the symbol; the      *)
(* thread sleeps three seconds, takes the socket out of wsClients_, stops  *)
(* it, starts another and stores that.  Main does the last two steps once, *)
(* in subscribeOrderBook.  mutex_ is held for one step at a time; the      *)
(* steps below are its critical sections and the calls between them.       *)
(*                                                                         *)
(* disconnect(), which the program never gets to, is left out.             *)
(***************************************************************************)
EXTENDS Naturals

CONSTANTS
  Sockets, NoSocket,  \* WebSocket objects; one that is gone may be used again
  Threads, Main,      \* reconnect threads, and the one that subscribes
  MaxFailures         \* bound on threads that cannot be created

ASSUME ClientAssumption ==
  /\ NoSocket \notin Sockets
  /\ Main \notin Threads
  /\ MaxFailures \in Nat

VARIABLES
  socket,        \* "none", "up" or "quiet": running, but nothing arrives
  stored,        \* wsClients_[symbol]
  reconnecting,  \* reconnecting_[symbol]
  pc,            \* what each thread does next
  held,          \* the socket a thread has taken out or is about to store
  stuck,         \* history: reconnecting_ was set for a thread that never was
  failures       \* threads that could not be created

clientVars == <<socket, stored, reconnecting, pc, held, stuck, failures>>

Workers == Threads \cup {Main}
Running == {s \in Sockets : socket[s] # "none"}
Reconnectors == {t \in Threads : pc[t] # "none"}

ClientTypeOK ==
  /\ socket \in [Sockets -> {"none", "up", "quiet"}]
  /\ stored \in Sockets \cup {NoSocket}
  /\ reconnecting \in BOOLEAN
  /\ pc \in [Workers -> {"none", "sleep", "stop", "start", "store", "clear"}]
  /\ held \in [Workers -> Sockets \cup {NoSocket}]
  /\ stuck \in BOOLEAN
  /\ failures \in 0 .. MaxFailures

\* main() calls subscribeOrderBook.
ClientInit ==
  /\ socket = [s \in Sockets |-> "none"]
  /\ stored = NoSocket
  /\ reconnecting = FALSE
  /\ pc = [w \in Workers |-> IF w = Main THEN "start" ELSE "none"]
  /\ held = [w \in Workers |-> NoSocket]
  /\ stuck = FALSE
  /\ failures = 0

------------------------------------------------------------------------------
\* Slips the properties must notice: the flag is not looked at; the old socket
\* is forgotten instead of stopped; the flag is not cleared, or not after an
\* exception.
RequestUnchecked ==
  /\ reconnecting' = TRUE
  /\ \E t \in Threads : /\ pc[t] = "none"
                        /\ pc' = [pc EXCEPT ![t] = "sleep"]
  /\ UNCHANGED <<socket, stored, held, stuck, failures>>

WakeWithoutStop(t) ==
  /\ pc[t] = "sleep"
  /\ pc[Main] # "store"
  /\ stored' = NoSocket
  /\ pc' = [pc EXCEPT ![t] = "start"]
  /\ UNCHANGED <<socket, reconnecting, held, stuck, failures>>

FlagLeftSet(t) ==
  /\ pc[t] = "clear"
  /\ pc' = [pc EXCEPT ![t] = "none"]
  /\ UNCHANGED <<socket, stored, reconnecting, held, stuck, failures>>

StartThrowsUncaught(t) ==
  /\ pc[t] = "start"
  /\ failures < MaxFailures
  /\ failures' = failures + 1
  /\ pc' = [pc EXCEPT ![t] = "none"]
  /\ UNCHANGED <<socket, stored, reconnecting, held, stuck>>

\* reconnectWithDelay, as the watchdog and the callbacks call it: either there
\* is a thread at work already, or the flag is set and a thread starts out.
Request ==
  \/ /\ reconnecting
     /\ UNCHANGED clientVars
  \/ /\ ~ reconnecting
     /\ reconnecting' = TRUE
     /\ \E t \in Threads : /\ pc[t] = "none"
                           /\ pc' = [pc EXCEPT ![t] = "sleep"]
     /\ UNCHANGED <<socket, stored, held, stuck, failures>>

\* The flag is set, but std::thread throws.
RequestThrows ==
  /\ ~ reconnecting
  /\ failures < MaxFailures
  /\ reconnecting' = TRUE
  /\ stuck' = TRUE
  /\ failures' = failures + 1
  /\ UNCHANGED <<socket, stored, pc, held>>

\* After the sleep, which is taken to be longer than main needs from start()
\* to the store.
Wake(t) ==
  /\ pc[t] = "sleep"
  /\ pc[Main] # "store"
  /\ held' = [held EXCEPT ![t] = stored]
  /\ stored' = NoSocket
  /\ pc' = [pc EXCEPT ![t] = IF stored = NoSocket THEN "start" ELSE "stop"]
  /\ UNCHANGED <<socket, reconnecting, stuck, failures>>

\* old->stop() joins the socket's own thread.
StopOld(t) ==
  /\ pc[t] = "stop"
  /\ socket' = [socket EXCEPT ![held[t]] = "none"]
  /\ held' = [held EXCEPT ![t] = NoSocket]
  /\ pc' = [pc EXCEPT ![t] = "start"]
  /\ UNCHANGED <<stored, reconnecting, stuck, failures>>

\* startWebSocket: the new socket runs before it is stored.
Start(w) ==
  /\ pc[w] = "start"
  /\ \E s \in Sockets \ Running :
       /\ socket' = [socket EXCEPT ![s] = "up"]
       /\ held' = [held EXCEPT ![w] = s]
  /\ pc' = [pc EXCEPT ![w] = "store"]
  /\ UNCHANGED <<stored, reconnecting, stuck, failures>>

\* start() creates a thread, too; the reconnect thread catches its exception.
StartThrows(t) ==
  /\ pc[t] = "start"
  /\ failures < MaxFailures
  /\ failures' = failures + 1
  /\ pc' = [pc EXCEPT ![t] = "clear"]
  /\ UNCHANGED <<socket, stored, reconnecting, held, stuck>>

Store(w) ==
  /\ pc[w] = "store"
  /\ stored' = held[w]
  /\ held' = [held EXCEPT ![w] = NoSocket]
  /\ pc' = [pc EXCEPT ![w] = IF w = Main THEN "none" ELSE "clear"]
  /\ UNCHANGED <<socket, reconnecting, stuck, failures>>

ClearFlag(t) ==
  /\ pc[t] = "clear"
  /\ reconnecting' = FALSE
  /\ pc' = [pc EXCEPT ![t] = "none"]
  /\ UNCHANGED <<socket, stored, held, stuck, failures>>

Work(w) ==
  \/ Start(w)
  \/ Store(w)
  \/ w \in Threads /\ (Wake(w) \/ StopOld(w) \/ StartThrows(w) \/ ClearFlag(w))

\* Close or Error: the callback asks for a reconnection.  The socket goes on
\* running, and tries to connect again by itself.
Fails(s) == socket[s] # "none" /\ Request

\* The exchange falls silent without closing the connection, or resumes.
FallsQuiet(s) ==
  /\ socket[s] = "up"
  /\ socket' = [socket EXCEPT ![s] = "quiet"]
  /\ UNCHANGED <<stored, reconnecting, pc, held, stuck, failures>>

Resumes(s) ==
  /\ socket[s] = "quiet"
  /\ socket' = [socket EXCEPT ![s] = "up"]
  /\ UNCHANGED <<stored, reconnecting, pc, held, stuck, failures>>

------------------------------------------------------------------------------
\* "prevent multiple concurrent reconnect threads for the same symbol", and
\* the flag is set exactly as long as there is one - or for ever, when its
\* thread could not be created.
OneReconnector ==
  /\ \A t, u \in Reconnectors : t = u
  /\ reconnecting <=> Reconnectors # {} \/ stuck

\* At any time at most one socket runs, so the symbol's OrderBook has a single
\* writer, as BookFeed assumes; and a running socket is never lost: it is in
\* wsClients_ or in the hands of a thread.
OneWriter ==
  /\ \A r, s \in Running : r = s
  /\ \A s \in Running : s = stored \/ \E w \in Workers : s = held[w]
=============================================================================
