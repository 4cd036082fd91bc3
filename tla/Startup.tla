------------------------------- MODULE Startup -------------------------------
(***************************************************************************)
(* main(): reads config.json, makes the executors of the mode, then sets   *)
(* up one exchange after the other and starts the watchdog and the engine. *)
(* It is one thread, but from the first subscription on the sockets have   *)
(* threads of their own, so every step leaves a state they may see.        *)
(*                                                                         *)
(* A file that gives a symbol twice is left out.                           *)
(***************************************************************************)
EXTENDS DydxAddress, FiniteSets

CONSTANTS
  Files,    \* what may be in config.json
  Symbols,
  Digests   \* of the public keys the wallets may have

Exchanges == <<"binance", "bybit", "dydx">>
Names == ToSet(Exchanges)

Settings == {"fees", "maxPosUsd", "minSpreadPercent", "rebalanceMinSpread",
             "checkIntervalSec"}

\* What main passes to each trader; the last one need not be there.
KeysOf ==
  [binance |-> <<"binance.api_key", "binance.secret">>,
   bybit   |-> <<"bybit.api_key", "bybit.secret">>,
   dydx    |-> <<"dydx.mnemonic", "dydx.subaccount_number">>]
Keys == UNION {ToSet(KeysOf[e]) : e \in Names}

\* The kind of each value; "odd" is of a type the program does not expect.
FileType ==
  [mode     : {"absent", "paper", "live", "other", "odd"},
   symbols  : Seq(Symbols \cup {"odd"}),
   settings : [Settings -> {"absent", "number", "odd"}],
   keys     : [Keys -> {"absent", "empty", "text", "number"}]]

ASSUME StartupAssumption ==
  /\ \A f \in Files : f \in FileType /\ IsInjective(f.symbols)
  /\ \A d \in Digests : d \in [1 .. 20 -> 0 .. 255]

VARIABLES
  file,
  pc,         \* what main does next, or how it has ended
  ex, sym,    \* the exchange and the symbol it is at
  mode,       \* ConfigManager's members: each setting with where it is from
  settings,
  symbols,
  engine,     \* the engine's settings, and exchanges_
  scanned,
  executors,  \* executors_: <<>>, or what the trader was made from
  connected,  \* connected_ and watchdog_ of each client
  watched,
  feeds,      \* keys of the watchdog's lastUpdate_
  sockets,    \* the sockets that run
  watching,   \* has the watchdog been started?
  address,    \* address_ of the dYdX trader and the digest it was made from
  digest

configVars == <<mode, settings, symbols>>
clientVars == <<connected, watched, feeds, sockets>>
walletVars == <<address, digest>>
vars == <<file, pc, ex, sym, configVars, engine, scanned, executors, clientVars,
          watching, walletVars>>

Origin(k) == {<<k, "default">>, <<k, "file">>}

\* Every variable has its type.
StartTypeOK ==
  /\ file \in Files
  /\ pc \in {"load", "configure", "traders", "connect", "watch", "register",
             "subscribe", "start", "running", "failed", "threw"}
  /\ ex \in 1 .. 4 /\ sym \in Nat
  /\ mode \in {"paper", "live", "other"}
  /\ DOMAIN settings = Settings /\ \A k \in Settings : settings[k] \in Origin(k)
  /\ symbols \in Seq(Symbols)
  /\ scanned \in Seq(Names)
  /\ DOMAIN executors = Names
  /\ connected \subseteq Names /\ watched \subseteq Names
  /\ feeds \subseteq Names \X Symbols /\ sockets \subseteq Names \X Symbols
  /\ watching \in BOOLEAN
  /\ digest \in Digests \cup {<<>>}
  /\ address = IF digest = <<>> THEN <<>> ELSE Address(digest)

\* The members of ConfigManager start with the defaults.
Init ==
  /\ file \in Files
  /\ pc = "load"
  /\ ex = 1 /\ sym = 1
  /\ mode = "paper"
  /\ settings = [k \in Settings |-> <<k, "default">>]
  /\ symbols = <<>>
  /\ engine = [k \in {} |-> <<>>]
  /\ scanned = <<>>
  /\ executors = [e \in Names |-> <<>>]
  /\ connected = {} /\ watched = {} /\ feeds = {} /\ sockets = {}
  /\ watching = FALSE
  /\ address = <<>> /\ digest = <<>>

------------------------------------------------------------------------------
Expected ==
  /\ file.mode # "odd"
  /\ "odd" \notin ToSet(file.symbols)
  /\ \A k \in Settings : file.settings[k] # "odd"

\* A slip the properties must notice: a mode that is not given is taken, too.
LoadModeAsIs ==
  /\ pc = "load"
  /\ Expected
  /\ pc' = "configure"
  /\ mode' = file.mode
  /\ symbols' = file.symbols
  /\ UNCHANGED <<file, ex, sym, settings, engine, scanned, executors, clientVars,
                 watching, walletVars>>

\* ConfigManager::load.
Load ==
  /\ pc = "load"
  /\ Expected
  /\ pc' = "configure"
  /\ mode' = IF file.mode = "absent" THEN mode ELSE file.mode
  /\ symbols' = file.symbols
  /\ settings' = [k \in Settings |->
                    IF file.settings[k] = "absent" THEN settings[k] ELSE <<k, "file">>]
  /\ UNCHANGED <<file, ex, sym, engine, scanned, executors, clientVars, watching,
                 walletVars>>

\* There is no such file, it is not JSON or a value is odd: nobody catches that.
LoadThrows ==
  /\ pc = "load"
  /\ pc' = "threw"
  /\ UNCHANGED <<file, ex, sym, configVars, engine, scanned, executors, clientVars,
                 watching, walletVars>>

\* getString and getNumber, which take whatever is odd for the default.
GetString(k) == IF file.keys[k] = "text" THEN k ELSE ""
GetNumber(k) == IF file.keys[k] = "number" THEN k ELSE "0"

\* setSymbols and setConfig, then the executors: all at once on paper.
Configure ==
  /\ pc = "configure"
  /\ engine' = [k \in Settings \ {"fees"} |-> settings[k]]
  /\ pc' = CASE mode = "paper" -> "connect"
             [] mode = "live"  -> "traders"
             [] OTHER          -> "failed"
  /\ executors' = IF mode = "paper" THEN [e \in Names |-> <<settings["fees"]>>]
                                    ELSE executors
  /\ UNCHANGED <<file, ex, sym, configVars, scanned, clientVars, watching, walletVars>>

TraderKeys(e) ==
  <<GetString(KeysOf[e][1]),
    IF e = "dydx" THEN GetNumber(KeysOf[e][2]) ELSE GetString(KeysOf[e][2])>>

\* A slip the properties must notice: one of the keys is enough.
HasAKey(e) == \E i \in 1 .. 2 : TraderKeys(e)[i] # ""

HasKeys(e) == \A i \in 1 .. 2 : TraderKeys(e)[i] # ""

\* The live trader of the exchange that is next, if there are keys for it.  The
\* dYdX trader derives its address at once; it counts whether or not it is told
\* its account number afterwards.
AddTrader ==
  /\ pc = "traders" /\ ex < 4
  /\ LET e == Exchanges[ex] IN
       /\ executors' = IF HasKeys(e) THEN [executors EXCEPT ![e] = TraderKeys(e)]
                                     ELSE executors
       /\ IF e = "dydx" /\ HasKeys(e)
          THEN \E d \in Digests : digest' = d /\ address' = Address(d)
          ELSE UNCHANGED walletVars
  /\ ex' = ex + 1
  /\ UNCHANGED <<file, pc, sym, configVars, engine, scanned, clientVars, watching>>

Enabled == {e \in Names : executors[e] # <<>>}

CountTraders ==
  /\ pc = "traders" /\ ex = 4
  /\ pc' = IF Cardinality(Enabled) < 2 THEN "failed" ELSE "connect"
  /\ ex' = 1
  /\ UNCHANGED <<file, sym, configVars, engine, scanned, executors, clientVars,
                 watching, walletVars>>

------------------------------------------------------------------------------
\* setupExchange for one exchange after the other.
Connect ==
  /\ pc = "connect" /\ ex < 4
  /\ IF Exchanges[ex] \in Enabled
     THEN pc' = "watch" /\ connected' = connected \cup {Exchanges[ex]} /\ UNCHANGED ex
     ELSE ex' = ex + 1 /\ UNCHANGED <<pc, connected>>
  /\ UNCHANGED <<file, sym, configVars, engine, scanned, executors, watched, feeds,
                 sockets, watching, walletVars>>

\* A slip the properties must notice: the feeds are not registered.
SetWatchdogAlone ==
  /\ pc = "watch"
  /\ watched' = watched \cup {Exchanges[ex]}
  /\ pc' = "subscribe" /\ sym' = 1
  /\ UNCHANGED <<file, ex, configVars, engine, scanned, executors, connected,
                 feeds, sockets, watching, walletVars>>

SetWatchdog ==
  /\ pc = "watch"
  /\ watched' = watched \cup {Exchanges[ex]}
  /\ pc' = "register"
  /\ UNCHANGED <<file, ex, sym, configVars, engine, scanned, executors, connected,
                 feeds, sockets, watching, walletVars>>

RegisterMarketClient ==
  /\ pc = "register"
  /\ feeds' = feeds \cup {Exchanges[ex]} \X ToSet(symbols)
  /\ pc' = "subscribe" /\ sym' = 1
  /\ UNCHANGED <<file, ex, configVars, engine, scanned, executors, connected,
                 watched, sockets, watching, walletVars>>

\* A client that is not connected takes no subscription.
SubscribeOrderBook ==
  /\ pc = "subscribe" /\ sym <= Len(symbols)
  /\ sockets' = sockets \cup ({Exchanges[ex]} \cap connected) \X {symbols[sym]}
  /\ sym' = sym + 1
  /\ UNCHANGED <<file, pc, ex, configVars, engine, scanned, executors, connected,
                 watched, feeds, watching, walletVars>>

AddExchangeClient ==
  /\ pc = "subscribe" /\ sym > Len(symbols)
  /\ scanned' = Append(scanned, Exchanges[ex])
  /\ pc' = "connect" /\ ex' = ex + 1
  /\ UNCHANGED <<file, sym, configVars, engine, executors, clientVars, watching,
                 walletVars>>

StartWatchdog ==
  /\ pc = "connect" /\ ex = 4
  /\ watching' = TRUE
  /\ pc' = "start"
  /\ UNCHANGED <<file, ex, sym, configVars, engine, scanned, executors, clientVars,
                 walletVars>>

StartEngine ==
  /\ pc = "start"
  /\ pc' = "running"
  /\ UNCHANGED <<file, ex, sym, configVars, engine, scanned, executors, clientVars,
                 watching, walletVars>>

Next ==
  \/ Load
  \/ LoadThrows
  \/ Configure
  \/ AddTrader
  \/ CountTraders
  \/ Connect
  \/ SetWatchdog
  \/ RegisterMarketClient
  \/ SubscribeOrderBook
  \/ AddExchangeClient
  \/ StartWatchdog
  \/ StartEngine

Spec == Init /\ [][Next]_vars

------------------------------------------------------------------------------
\* What the file says: a setting, or its default; whether it has what an exchange
\* needs; and what the exchange's trader is to be made from.  The subaccount counts
\* only as a number: as the quoted text of config.sample.json it stands for 0.
Setting(k) == <<k, IF file.settings[k] = "absent" THEN "default" ELSE "file">>

Given(e) == /\ file.keys[KeysOf[e][1]] = "text"
            /\ e = "dydx" \/ file.keys[KeysOf[e][2]] = "text"

Secrets(e) ==
  <<KeysOf[e][1],
    IF e = "dydx" /\ file.keys[KeysOf[e][2]] # "number" THEN "0" ELSE KeysOf[e][2]>>

\* When the engine's loop begins, it scans exactly the exchanges it can trade
\* on, two at least; each of their symbols has a socket and a place in the
\* watchdog's list; the engine's settings and the fees are the file's, or the
\* default where the file has none; and in live mode exactly the exchanges with
\* all their keys in the file have a trader, made from those keys.
StartedAsConfigured ==
  pc = "running" =>
    /\ Cardinality(Enabled) >= 2 /\ watching
    /\ ToSet(scanned) = Enabled /\ IsInjective(scanned)
    /\ sockets = Enabled \X ToSet(file.symbols) /\ feeds = sockets
    /\ engine = [k \in Settings \ {"fees"} |-> Setting(k)]
    /\ \A e \in Names : executors[e] =
         IF file.mode # "live" THEN <<Setting("fees")>>
         ELSE IF Given(e) THEN Secrets(e) ELSE <<>>

\* At no moment does a socket run whose frames the watchdog would not hear of,
\* or be looked for in a list that has no such feed; and a start that was given
\* up has left no socket behind.
SocketsAreWatched ==
  /\ \A s \in sockets : s[1] \in watched /\ s \in feeds
  /\ pc \in {"failed", "threw"} => sockets = {} /\ ~ watching

\* The address the trader signs for is that of its key: a reader of Bech32 gets
\* back every bit of the digest, in its place, and the whole is a multiple of the
\* generator plus one, by a division that uses none of the program's constants.
AddressIsRight ==
  address # <<>> =>
    LET read     == Decode(address)
        codeword == ExpandHRP(Hrp) \o [i \in 1 .. 38 |-> Rev(address[5 + i])]
    IN  /\ read.encoding = "BECH32" /\ read.hrp = Hrp /\ Len(read.data) = 32
        /\ \A k \in 0 .. 159 : BitAt(read.data, 5, k) = BitAt(digest, 8, k)
        /\ Remainder(codeword) = Groups(1)
===============================================================================
