---------------------------- MODULE Startup_proofs ----------------------------
(***************************************************************************)
(* What main has set up when the engine starts, for every file, every      *)
(* number of symbols and every combination of keys; and that the address   *)
(* of the dYdX trader is right, for every digest of its key.               *)
(***************************************************************************)
EXTENDS Startup, Amounts_proofs, SequenceTheorems

LEMMA ExchangesAre ==
  /\ Exchanges[1] = "binance" /\ Exchanges[2] = "bybit" /\ Exchanges[3] = "dydx"
  /\ DOMAIN Exchanges = {1, 2, 3}
  /\ Names = {"binance", "bybit", "dydx"}
<1>1. DOMAIN Exchanges = {1, 2, 3}
  BY DEF Exchanges
<1>2. Exchanges[1] = "binance" /\ Exchanges[2] = "bybit" /\ Exchanges[3] = "dydx"
  BY DEF Exchanges
<1>3. Names = {"binance", "bybit", "dydx"}
  BY <1>1, <1>2 DEF Names, ToSet
<1> QED
  BY <1>1, <1>2, <1>3

LEMMA ThreeNames == IsFiniteSet(Names) /\ Cardinality(Names) >= 2
<1> DEFINE S == {"binance"}
           T == S \cup {"bybit"}
           U == T \cup {"dydx"}
<1>1. IsFiniteSet(S) /\ Cardinality(S) = 1
  BY FS_Singleton
<1>2. IsFiniteSet(T) /\ Cardinality(T) = 2
  BY <1>1, FS_AddElement
<1>3. IsFiniteSet(U) /\ Cardinality(U) = 3
  BY <1>2, FS_AddElement
<1>4. Names = U
  BY ExchangesAre
<1> QED
  BY <1>3, <1>4

\* The exchanges that setupExchange is through with when it comes to the n-th.
Done(n) == {Exchanges[k] : k \in 1 .. n - 1} \cap Enabled

LEMMA DoneGrows ==
  ASSUME NEW n \in 1 .. 3
  PROVE  /\ Exchanges[n] \in Names
         /\ Exchanges[n] \notin Done(n)
         /\ Done(n + 1) = Done(n) \cup ({Exchanges[n]} \cap Enabled)
<1>1. n = 1 \/ n = 2 \/ n = 3
  OBVIOUS
<1>2. /\ 1 .. 1 - 1 = {} /\ 1 .. 2 - 1 = {1} /\ 1 .. 3 - 1 = {1, 2}
      /\ 1 .. 4 - 1 = {1, 2, 3}
  OBVIOUS
<1>3. /\ Done(1) = {}
      /\ Done(2) = {"binance"} \cap Enabled
      /\ Done(3) = {"binance", "bybit"} \cap Enabled
      /\ Done(4) = {"binance", "bybit", "dydx"} \cap Enabled
  BY <1>2, ExchangesAre DEF Done
<1> QED
  BY <1>1, <1>3, ExchangesAre

LEMMA AllDone == Done(1) = {} /\ Done(4) = Enabled
<1>1. 1 .. 1 - 1 = {} /\ 1 .. 4 - 1 = {1, 2, 3}
  OBVIOUS
<1>2. Done(1) = {} /\ Done(4) = Names \cap Enabled
  BY <1>1, ExchangesAre DEF Done
<1> QED
  BY <1>2 DEF Enabled

\* What ConfigManager has made of the file.
Loaded ==
  /\ Expected
  /\ mode = IF file.mode = "absent" THEN "paper" ELSE file.mode
  /\ symbols = file.symbols
  /\ settings = [k \in Settings |->
                   <<k, IF file.settings[k] = "absent" THEN "default" ELSE "file">>]

LoadInv ==
  /\ pc = "load" => /\ mode = "paper"
                    /\ settings = [k \in Settings |-> <<k, "default">>]
  /\ pc \notin {"load", "threw"} => Loaded
  /\ pc \notin {"load", "threw", "configure"} =>
       engine = [k \in Settings \ {"fees"} |-> settings[k]]

\* The trader of the n-th exchange, once main has looked at its keys.
Trader(e) == IF HasKeys(e) THEN TraderKeys(e) ELSE <<>>

TradersInv ==
  /\ pc \in {"load", "configure"} => executors = [e \in Names |-> <<>>] /\ ex = 1
  /\ pc = "traders" =>
       /\ mode = "live"
       /\ \A n \in 1 .. 3 :
            executors[Exchanges[n]] = IF n < ex THEN Trader(Exchanges[n]) ELSE <<>>
  /\ pc \in {"connect", "watch", "register", "subscribe", "start", "running"} =>
       /\ \/ mode = "paper" /\ executors = [e \in Names |-> <<settings["fees"]>>]
          \/ /\ mode = "live" /\ Cardinality(Enabled) >= 2
             /\ \A n \in 1 .. 3 : executors[Exchanges[n]] = Trader(Exchanges[n])

Subscribed == {symbols[k] : k \in 1 .. sym - 1}

\* How far setupExchange is: nothing before the first exchange and after a start
\* that was given up; the exchange it is at is one that main has a trader for.
ClientsInv ==
  LET e == Exchanges[ex]
      all == ToSet(symbols)
  IN
  /\ pc \in {"load", "configure", "traders", "failed", "threw"} =>
       scanned = <<>> /\ connected = {} /\ watched = {} /\ feeds = {} /\ sockets = {}
  /\ pc \in {"watch", "register", "subscribe"} => ex < 4 /\ e \in Enabled
  /\ pc \in {"start", "running"} => ex = 4
  /\ pc \in {"connect", "watch", "register", "subscribe", "start", "running"} =>
       ToSet(scanned) = Done(ex) /\ IsInjective(scanned)
  /\ pc \in {"connect", "start", "running"} =>
       connected = Done(ex) /\ watched = Done(ex) /\ feeds = Done(ex) \X all
       /\ sockets = Done(ex) \X all
  /\ pc = "watch" =>
       connected = Done(ex) \cup {e} /\ watched = Done(ex) /\ feeds = Done(ex) \X all
       /\ sockets = Done(ex) \X all
  /\ pc = "register" =>
       connected = Done(ex) \cup {e} /\ watched = Done(ex) \cup {e}
       /\ feeds = Done(ex) \X all /\ sockets = Done(ex) \X all
  /\ pc = "subscribe" =>
       /\ connected = Done(ex) \cup {e} /\ watched = Done(ex) \cup {e}
       /\ feeds = (Done(ex) \cup {e}) \X all
       /\ sym \in 1 .. Len(symbols) + 1
       /\ sockets = (Done(ex) \X all) \cup ({e} \X Subscribed)
  /\ watching <=> pc \in {"start", "running"}

StartInv == StartTypeOK /\ LoadInv /\ TradersInv /\ ClientsInv

LEMMA FileFacts ==
  ASSUME file \in Files
  PROVE  /\ file.mode \in {"absent", "paper", "live", "other", "odd"}
         /\ file.symbols \in Seq(Symbols \cup {"odd"}) /\ IsInjective(file.symbols)
         /\ file.settings \in [Settings -> {"absent", "number", "odd"}]
         /\ file.keys \in [Keys -> {"absent", "empty", "text", "number"}]
BY StartupAssumption DEF FileType

LEMMA InitInv == Init => StartInv
<1> SUFFICES ASSUME Init PROVE StartInv
  OBVIOUS
<1>1. StartTypeOK
  <2>1. symbols \in Seq(Symbols) /\ scanned \in Seq(Names)
    BY DEF Init
  <2>2. DOMAIN settings = Settings /\ \A k \in Settings : settings[k] \in Origin(k)
    BY DEF Init, Origin
  <2>3. ex \in 1 .. 4 /\ sym \in Nat /\ DOMAIN executors = Names
    BY DEF Init
  <2>4. /\ connected \subseteq Names /\ watched \subseteq Names
        /\ feeds \subseteq Names \X Symbols /\ sockets \subseteq Names \X Symbols
    BY DEF Init
  <2> QED
    BY <2>1, <2>2, <2>3, <2>4 DEF Init, StartTypeOK
<1>2. LoadInv /\ TradersInv
  BY DEF Init, LoadInv, TradersInv
<1>3. ClientsInv
  BY DEF Init, ClientsInv
<1> QED
  BY <1>1, <1>2, <1>3 DEF StartInv

\* The symbols of a file that was loaded are all symbols.
LEMMA SymbolsAreSymbols ==
  ASSUME file \in Files, Expected
  PROVE  file.symbols \in Seq(Symbols)
<1>1. file.symbols \in Seq(Symbols \cup {"odd"})
  BY FileFacts
<1>2. \A k \in 1 .. Len(file.symbols) : file.symbols[k] \in Symbols
  BY <1>1 DEF Expected, ToSet
<1> QED
  BY <1>1, <1>2

LEMMA TypeStep == ASSUME StartInv, Next PROVE StartTypeOK'
<1>1. StartTypeOK
  BY DEF StartInv
<1>2. CASE Load
  <2>1. mode' \in {"paper", "live", "other"}
    BY <1>1, <1>2, FileFacts DEF Load, Expected, StartTypeOK
  <2>2. symbols' \in Seq(Symbols)
    BY <1>1, <1>2, SymbolsAreSymbols DEF Load, StartTypeOK
  <2>3. DOMAIN settings' = Settings /\ \A k \in Settings : settings'[k] \in Origin(k)
    BY <1>1, <1>2 DEF Load, StartTypeOK, Origin
  <2> QED
    BY <1>1, <1>2, <2>1, <2>2, <2>3 DEF Load, StartTypeOK, clientVars, walletVars, Origin
<1>3. CASE LoadThrows
  BY <1>1, <1>3 DEF LoadThrows, StartTypeOK, configVars, clientVars, walletVars, Origin
<1>4. CASE Configure
  BY <1>1, <1>4 DEF Configure, StartTypeOK, configVars, clientVars, walletVars, Origin
<1>5. CASE AddTrader
  <2>1. /\ digest' \in Digests \cup {<<>>}
        /\ address' = IF digest' = <<>> THEN <<>> ELSE Address(digest')
    <3>1. \/ UNCHANGED walletVars
          \/ \E d \in Digests : digest' = d /\ address' = Address(d)
      BY <1>5 DEF AddTrader
    <3>2. <<>> \notin Digests
      <4>1. \A d \in Digests : DOMAIN d = 1 .. 20
        BY StartupAssumption
      <4>2. DOMAIN <<>> # 1 .. 20
        <5>1. DOMAIN <<>> = {} /\ 1 \in 1 .. 20
          OBVIOUS
        <5> QED
          BY <5>1
      <4> QED
        BY <4>1, <4>2
    <3> QED
      BY <1>1, <3>1, <3>2 DEF StartTypeOK, walletVars
  <2>2. DOMAIN executors' = Names
    BY <1>1, <1>5 DEF AddTrader, StartTypeOK
  <2>3. ex' \in 1 .. 4
    BY <1>1, <1>5 DEF AddTrader, StartTypeOK
  <2> QED
    BY <1>1, <1>5, <2>1, <2>2, <2>3 DEF AddTrader, StartTypeOK, configVars, clientVars, Origin
<1>6. CASE CountTraders
  BY <1>1, <1>6 DEF CountTraders, StartTypeOK, configVars, clientVars, walletVars, Origin
<1>7. CASE Connect
  BY <1>1, <1>7, DoneGrows DEF Connect, StartTypeOK, configVars, clientVars, walletVars, Origin
<1>8. CASE SetWatchdog \/ RegisterMarketClient
  <2>1. pc \in {"watch", "register"}
    BY <1>8 DEF SetWatchdog, RegisterMarketClient
  <2>2. Exchanges[ex] \in Names
    BY <2>1 DEF StartInv, ClientsInv, Enabled
  <2>3. symbols \in Seq(Symbols) /\ ToSet(symbols) \subseteq Symbols
    BY <1>1 DEF StartTypeOK, ToSet
  <2> QED
    BY <1>1, <1>8, <2>2, <2>3
    DEF SetWatchdog, RegisterMarketClient, StartTypeOK, configVars, clientVars, walletVars,
        Origin
<1>9. CASE SubscribeOrderBook
  <2>1. symbols \in Seq(Symbols) /\ sym \in 1 .. Len(symbols)
    BY <1>1, <1>9 DEF SubscribeOrderBook, StartTypeOK, StartInv, ClientsInv
  <2>2. symbols[sym] \in Symbols
    BY <2>1
  <2> QED
    BY <1>1, <1>9, <2>1, <2>2
    DEF SubscribeOrderBook, StartTypeOK, configVars, walletVars, Origin
<1>10. CASE AddExchangeClient
  <2>1. ex \in 1 .. 3 /\ Exchanges[ex] \in Names
    BY <1>1, <1>10 DEF AddExchangeClient, StartInv, ClientsInv, StartTypeOK, Enabled
  <2>2. scanned' \in Seq(Names)
    BY <1>1, <1>10, <2>1 DEF AddExchangeClient, StartTypeOK
  <2> QED
    BY <1>1, <1>10, <2>1, <2>2
    DEF AddExchangeClient, StartTypeOK, configVars, clientVars, walletVars, Origin
<1>11. CASE StartWatchdog \/ StartEngine
  BY <1>1, <1>11
  DEF StartWatchdog, StartEngine, StartTypeOK, configVars, clientVars, walletVars, Origin
<1> QED
  BY <1>2, <1>3, <1>4, <1>5, <1>6, <1>7, <1>8, <1>9, <1>10, <1>11 DEF Next

LEMMA LoadStep == ASSUME StartInv, Next PROVE LoadInv'
<1>1. LoadInv /\ StartTypeOK
  BY DEF StartInv
<1>2. CASE Load
  <2>1. /\ pc = "load" /\ pc' = "configure" /\ Expected /\ file' = file
        /\ mode' = IF file.mode = "absent" THEN mode ELSE file.mode
        /\ symbols' = file.symbols
        /\ settings' = [k \in Settings |->
                          IF file.settings[k] = "absent" THEN settings[k] ELSE <<k, "file">>]
    BY <1>2 DEF Load
  <2>2. mode = "paper" /\ settings = [k \in Settings |-> <<k, "default">>]
    BY <1>1, <2>1 DEF LoadInv
  <2>3. settings' = [k \in Settings |->
                       <<k, IF file.settings[k] = "absent" THEN "default" ELSE "file">>]
    BY <2>1, <2>2
  <2> QED
    BY <2>1, <2>2, <2>3 DEF LoadInv, Loaded, Expected
<1>3. CASE LoadThrows
  BY <1>3 DEF LoadThrows, LoadInv
<1>4. CASE Configure
  BY <1>1, <1>4 DEF Configure, LoadInv, Loaded, Expected, configVars
<1>5. CASE AddTrader \/ CountTraders
  BY <1>1, <1>5 DEF AddTrader, CountTraders, LoadInv, Loaded, Expected, configVars
<1>6. CASE Connect \/ SetWatchdog \/ RegisterMarketClient
  BY <1>1, <1>6 DEF Connect, SetWatchdog, RegisterMarketClient, LoadInv, Loaded, Expected, configVars
<1>7. CASE SubscribeOrderBook \/ AddExchangeClient \/ StartWatchdog \/ StartEngine
  BY <1>1, <1>7
  DEF SubscribeOrderBook, AddExchangeClient, StartWatchdog, StartEngine, LoadInv, Loaded,
      Expected, configVars
<1> QED
  BY <1>2, <1>3, <1>4, <1>5, <1>6, <1>7 DEF Next


\* Keys and settings stay what they were loaded as; so do the traders.
LEMMA TradersStep == ASSUME StartInv, Next PROVE TradersInv'
<1>1. TradersInv /\ LoadInv /\ StartTypeOK
  BY DEF StartInv
<1>2. file' = file /\ \A e : Trader(e)' = Trader(e)
  BY DEF Next, Load, LoadThrows, Configure, AddTrader, CountTraders, Connect, SetWatchdog,
         RegisterMarketClient, SubscribeOrderBook, AddExchangeClient, StartWatchdog,
         StartEngine, Trader, HasKeys, TraderKeys, GetString, GetNumber
<1>3. CASE Load
  BY <1>1, <1>3 DEF Load, TradersInv
<1>4. CASE LoadThrows
  BY <1>4 DEF LoadThrows, TradersInv
<1>5. CASE Configure
  <2>1. /\ pc = "configure" /\ UNCHANGED <<ex, mode, settings>>
        /\ executors = [e \in Names |-> <<>>] /\ ex = 1
        /\ mode \in {"paper", "live", "other"}
    BY <1>1, <1>5 DEF Configure, TradersInv, StartTypeOK, configVars
  <2>2. CASE mode = "paper"
    BY <1>5, <2>1, <2>2 DEF Configure, TradersInv
  <2>3. CASE mode = "live"
    <3>1. pc' = "traders" /\ executors' = executors
      BY <1>5, <2>3 DEF Configure
    <3>2. \A n \in 1 .. 3 : executors[Exchanges[n]] = <<>> /\ ~ (n < 1)
      BY <2>1, DoneGrows
    <3> QED
      BY <2>1, <2>3, <3>1, <3>2 DEF TradersInv
  <2>4. CASE mode = "other"
    BY <1>5, <2>4 DEF Configure, TradersInv
  <2> QED
    BY <2>1, <2>2, <2>3, <2>4
<1>6. CASE AddTrader
  <2>1. /\ pc = "traders" /\ pc' = "traders" /\ ex \in 1 .. 3 /\ ex' = ex + 1 /\ mode' = mode
        /\ executors' = IF HasKeys(Exchanges[ex])
                        THEN [executors EXCEPT ![Exchanges[ex]] = TraderKeys(Exchanges[ex])]
                        ELSE executors
    BY <1>1, <1>6 DEF AddTrader, StartTypeOK, configVars
  <2>2. /\ mode = "live"
        /\ \A n \in 1 .. 3 :
             executors[Exchanges[n]] = IF n < ex THEN Trader(Exchanges[n]) ELSE <<>>
    BY <1>1, <2>1 DEF TradersInv
  <2>3. executors'[Exchanges[ex]] = Trader(Exchanges[ex])
    <3>1. Exchanges[ex] \in DOMAIN executors
      BY <1>1, <2>1, DoneGrows DEF StartTypeOK
    <3> QED
      BY <2>1, <2>2, <3>1 DEF Trader
  <2>4. ASSUME NEW n \in 1 .. 3, n # ex
        PROVE  executors'[Exchanges[n]] = executors[Exchanges[n]]
    <3>1. Exchanges[n] # Exchanges[ex]
      <4>1. (n = 1 \/ n = 2 \/ n = 3) /\ (ex = 1 \/ ex = 2 \/ ex = 3)
        BY <2>1
      <4> QED
        BY <2>4, <4>1, ExchangesAre
    <3> QED
      BY <2>1, <3>1
  <2>5. \A n \in 1 .. 3 :
          executors'[Exchanges[n]] = IF n < ex' THEN Trader(Exchanges[n]) ELSE <<>>
    <3> TAKE n \in 1 .. 3
    <3>1. CASE n = ex
      BY <2>1, <2>3, <3>1
    <3>2. CASE n # ex
      <4>1. n < ex' <=> n < ex
        BY <2>1, <3>2
      <4> QED
        BY <2>2, <2>4, <3>2, <4>1
    <3> QED
      BY <3>1, <3>2
  <2> QED
    BY <1>2, <2>1, <2>2, <2>5 DEF TradersInv
<1>7. CASE CountTraders
  <2>1. /\ pc = "traders" /\ ex = 4 /\ ex' = 1 /\ UNCHANGED <<executors, mode>>
        /\ pc' = IF Cardinality(Enabled) < 2 THEN "failed" ELSE "connect"
    BY <1>7 DEF CountTraders, configVars
  <2>2. mode = "live" /\ \A n \in 1 .. 3 : executors[Exchanges[n]] = Trader(Exchanges[n])
    BY <1>1, <2>1 DEF TradersInv
  <2>3. Cardinality(Enabled) \in Nat
    <3>1. Enabled \subseteq Names
      BY DEF Enabled
    <3>2. IsFiniteSet(Enabled)
      BY <3>1, ThreeNames, FS_Subset
    <3> QED
      BY <3>2, FS_CardinalityType
  <2>4. Enabled' = Enabled
    BY <2>1 DEF Enabled
  <2> QED
    BY <1>2, <2>1, <2>2, <2>3, <2>4 DEF TradersInv
<1>8. CASE \/ Connect \/ SetWatchdog \/ RegisterMarketClient \/ SubscribeOrderBook
           \/ AddExchangeClient \/ StartWatchdog \/ StartEngine
  <2>1. /\ pc \in {"connect", "watch", "register", "subscribe", "start"}
        /\ pc' \in {"connect", "watch", "register", "subscribe", "start", "running"}
        /\ UNCHANGED <<executors, mode, settings>>
    BY <1>8
    DEF Connect, SetWatchdog, RegisterMarketClient, SubscribeOrderBook, AddExchangeClient,
        StartWatchdog, StartEngine, configVars
  <2>2. Enabled' = Enabled
    BY <2>1 DEF Enabled
  <2> QED
    BY <1>1, <1>2, <2>1, <2>2 DEF TradersInv
<1> QED
  BY <1>3, <1>4, <1>5, <1>6, <1>7, <1>8 DEF Next

LEMMA AppendNew ==
  ASSUME NEW S, NEW s \in Seq(S), NEW x \in S, IsInjective(s), x \notin ToSet(s)
  PROVE  ToSet(Append(s, x)) = ToSet(s) \cup {x} /\ IsInjective(Append(s, x))
<1> DEFINE t == Append(s, x)
<1>1. /\ Len(s) \in Nat /\ DOMAIN s = 1 .. Len(s) /\ DOMAIN t = 1 .. Len(s) + 1
      /\ \A k \in 1 .. Len(s) : t[k] = s[k]
      /\ t[Len(s) + 1] = x
  OBVIOUS
<1> HIDE DEF t
<1>2. 1 .. Len(s) + 1 = 1 .. Len(s) \cup {Len(s) + 1}
  BY <1>1
<1>3. ToSet(t) = ToSet(s) \cup {x}
  BY <1>1, <1>2 DEF ToSet
<1>4. ASSUME NEW a \in DOMAIN t, NEW b \in DOMAIN t, t[a] = t[b] PROVE a = b
  <2>1. /\ a \in 1 .. Len(s) \/ a = Len(s) + 1
        /\ b \in 1 .. Len(s) \/ b = Len(s) + 1
    BY <1>1
  <2> QED
    BY <1>1, <1>4, <2>1 DEF IsInjective, ToSet
<1>5. IsInjective(t)
  BY <1>4 DEF IsInjective
<1> QED
  BY <1>3, <1>5 DEF t


\* Each step of setupExchange, for the exchange it is at.
LEMMA ClientsStep == ASSUME StartInv, Next PROVE ClientsInv'
<1> DEFINE e == Exchanges[ex]
           all == ToSet(symbols)
<1>1. ClientsInv /\ StartTypeOK
  BY DEF StartInv
<1>2. CASE Load \/ LoadThrows \/ Configure \/ AddTrader \/ CountTraders
  <2>1. /\ scanned' = <<>> /\ connected' = {} /\ watched' = {} /\ feeds' = {}
        /\ sockets' = {} /\ ~ watching'
        /\ pc' \in {"configure", "threw", "connect", "traders", "failed"}
    BY <1>1, <1>2
    DEF Load, LoadThrows, Configure, AddTrader, CountTraders, clientVars, ClientsInv
  <2>2. CASE pc' # "connect"
    BY <2>1, <2>2 DEF ClientsInv
  <2>3. CASE pc' = "connect"
    <3>1. ex' = 1
      BY <1>2, <2>3
      DEF Load, LoadThrows, Configure, AddTrader, CountTraders, StartInv, TradersInv
    <3>2. Done(ex)' = {}
      <4>1. 1 .. 1 - 1 = {}
        OBVIOUS
      <4> QED
        BY <3>1, <4>1 DEF Done
    <3>3. ToSet(<<>>) = {} /\ IsInjective(<<>>)
      BY DEF ToSet, IsInjective
    <3> QED
      BY <2>1, <2>3, <3>2, <3>3 DEF ClientsInv
  <2> QED
    BY <2>2, <2>3
<1>3. CASE \/ Connect \/ SetWatchdog \/ RegisterMarketClient \/ SubscribeOrderBook
           \/ AddExchangeClient \/ StartWatchdog \/ StartEngine
  <2>1. executors' = executors /\ symbols' = symbols
    BY <1>3
    DEF Connect, SetWatchdog, RegisterMarketClient, SubscribeOrderBook, AddExchangeClient,
        StartWatchdog, StartEngine, configVars
  <2>2. Enabled' = Enabled /\ ToSet(symbols)' = all
    BY <2>1 DEF Enabled
  <2>3. \A n : ex' = n => Done(ex)' = Done(n)
    BY <2>2 DEF Done
  <2>4. CASE Connect
    <3>1. /\ pc = "connect" /\ ex \in 1 .. 3
          /\ UNCHANGED <<scanned, watched, feeds, sockets, watching>>
          /\ IF e \in Enabled
             THEN pc' = "watch" /\ connected' = connected \cup {e} /\ ex' = ex
             ELSE ex' = ex + 1 /\ pc' = pc /\ connected' = connected
      BY <1>1, <2>4 DEF Connect, StartTypeOK
    <3>2. /\ ToSet(scanned) = Done(ex) /\ IsInjective(scanned)
          /\ connected = Done(ex) /\ watched = Done(ex) /\ feeds = Done(ex) \X all
          /\ sockets = Done(ex) \X all /\ ~ watching
      BY <1>1, <3>1 DEF ClientsInv
    <3>3. CASE e \in Enabled
      <4>1. Done(ex)' = Done(ex)
        BY <2>3, <3>1, <3>3
      <4> QED
        BY <2>2, <3>1, <3>2, <3>3, <4>1 DEF ClientsInv
    <3>4. CASE e \notin Enabled
      <4>1. Done(ex)' = Done(ex)
        BY <2>3, <3>1, <3>4, DoneGrows
      <4> QED
        BY <2>2, <3>1, <3>2, <3>4, <4>1 DEF ClientsInv
    <3> QED
      BY <3>3, <3>4
  <2>5. CASE SetWatchdog
    <3>1. /\ pc = "watch" /\ pc' = "register" /\ watched' = watched \cup {e}
          /\ UNCHANGED <<ex, scanned, connected, feeds, sockets, watching>>
      BY <2>5 DEF SetWatchdog
    <3>2. Done(ex)' = Done(ex)
      BY <2>3, <3>1
    <3> QED
      BY <1>1, <2>2, <3>1, <3>2 DEF ClientsInv
  <2>6. CASE RegisterMarketClient
    <3>1. /\ pc = "register" /\ pc' = "subscribe" /\ feeds' = feeds \cup ({e} \X all)
          /\ sym' = 1
          /\ UNCHANGED <<ex, scanned, connected, watched, sockets, watching>>
      BY <2>6 DEF RegisterMarketClient
    <3>2. Done(ex)' = Done(ex)
      BY <2>3, <3>1
    <3>3. Subscribed' = {}
      <4>1. 1 .. 1 - 1 = {}
        OBVIOUS
      <4> QED
        BY <3>1, <4>1 DEF Subscribed
    <3>4. sym' \in 1 .. Len(symbols') + 1
      BY <1>1, <2>1, <3>1 DEF StartTypeOK
    <3>5. feeds' = (Done(ex) \cup {e}) \X all /\ sockets' = Done(ex) \X all
      BY <1>1, <3>1 DEF ClientsInv
    <3>6. sockets' = (Done(ex) \X all) \cup ({e} \X Subscribed')
      BY <3>3, <3>5
    <3> QED
      BY <1>1, <2>2, <3>1, <3>2, <3>4, <3>5, <3>6 DEF ClientsInv
  <2>7. CASE SubscribeOrderBook
    <3>1. /\ pc = "subscribe" /\ pc' = "subscribe" /\ sym <= Len(symbols)
          /\ sockets' = sockets \cup ({e} \cap connected) \X {symbols[sym]}
          /\ sym' = sym + 1
          /\ UNCHANGED <<ex, scanned, connected, watched, feeds, watching>>
      BY <2>7 DEF SubscribeOrderBook
    <3>2. Done(ex)' = Done(ex)
      BY <2>3, <3>1
    <3>3. sym \in 1 .. Len(symbols) /\ sym' \in 1 .. Len(symbols) + 1
      BY <1>1, <3>1 DEF ClientsInv, StartTypeOK
    <3>4. Subscribed' = Subscribed \cup {symbols[sym]}
      <4>1. 1 .. sym' - 1 = (1 .. sym - 1) \cup {sym}
        BY <3>1, <3>3
      <4> QED
        BY <2>1, <4>1 DEF Subscribed
    <3>5. connected = Done(ex) \cup {e}
      BY <1>1, <3>1 DEF ClientsInv
    <3>6. sockets = (Done(ex) \X all) \cup ({e} \X Subscribed)
      BY <1>1, <3>1 DEF ClientsInv
    <3>7. sockets' = (Done(ex) \X all) \cup ({e} \X Subscribed')
      BY <3>1, <3>4, <3>5, <3>6
    <3> QED
      BY <1>1, <2>1, <2>2, <3>1, <3>2, <3>3, <3>7 DEF ClientsInv
  <2>8. CASE AddExchangeClient
    <3>1. /\ pc = "subscribe" /\ pc' = "connect" /\ sym > Len(symbols)
          /\ scanned' = Append(scanned, e) /\ ex' = ex + 1
          /\ UNCHANGED <<connected, watched, feeds, sockets, watching>>
      BY <2>8 DEF AddExchangeClient, clientVars
    <3>2. ex \in 1 .. 3 /\ e \in Enabled /\ symbols \in Seq(Symbols) /\ scanned \in Seq(Names)
      BY <1>1, <3>1 DEF ClientsInv, StartTypeOK
    <3>3. /\ e \in Names /\ e \notin Done(ex) /\ Done(ex)' = Done(ex) \cup {e}
      BY <2>3, <3>1, <3>2, DoneGrows
    <3>4. Subscribed = all
      <4>1. sym = Len(symbols) + 1 /\ Len(symbols) \in Nat
        BY <1>1, <3>1, <3>2 DEF ClientsInv, StartTypeOK
      <4>2. 1 .. sym - 1 = DOMAIN symbols
        BY <3>2, <4>1
      <4> QED
        BY <4>2 DEF Subscribed, ToSet
    <3>5. ToSet(scanned') = Done(ex) \cup {e} /\ IsInjective(scanned')
      BY <1>1, <3>1, <3>2, <3>3, AppendNew DEF ClientsInv
    <3>6. /\ connected = Done(ex) \cup {e} /\ watched = Done(ex) \cup {e}
          /\ feeds = (Done(ex) \cup {e}) \X all /\ ~ watching
          /\ sockets = (Done(ex) \X all) \cup ({e} \X all)
      BY <1>1, <3>1, <3>4 DEF ClientsInv
    <3>7. sockets = (Done(ex) \cup {e}) \X all
      BY <3>6
    <3> QED
      BY <2>2, <3>1, <3>3, <3>5, <3>6, <3>7 DEF ClientsInv
  <2>9. CASE StartWatchdog \/ StartEngine
    <3>1. /\ ex = 4 /\ ex' = ex /\ pc \in {"connect", "start"} /\ pc' \in {"start", "running"}
          /\ watching'
          /\ UNCHANGED <<scanned, connected, watched, feeds, sockets>>
      BY <1>1, <2>9 DEF StartWatchdog, StartEngine, clientVars, ClientsInv
    <3>2. Done(ex)' = Done(ex)
      BY <2>3, <3>1
    <3> QED
      BY <1>1, <2>2, <3>1, <3>2 DEF ClientsInv
  <2> QED
    BY <1>3, <2>4, <2>5, <2>6, <2>7, <2>8, <2>9
<1> QED
  BY <1>2, <1>3 DEF Next

LEMMA Invariance == Spec => []StartInv
<1>1. StartInv /\ [Next]_vars => StartInv'
  <2> SUFFICES ASSUME StartInv, [Next]_vars PROVE StartInv'
    OBVIOUS
  <2>1. CASE Next
    BY <2>1, TypeStep, LoadStep, TradersStep, ClientsStep DEF StartInv
  <2>2. CASE UNCHANGED vars
    <3>1. /\ UNCHANGED <<file, pc, ex, sym, mode, settings, symbols>>
          /\ UNCHANGED <<engine, scanned, executors, connected, watched, feeds, sockets>>
          /\ UNCHANGED <<watching, address, digest>>
      BY <2>2 DEF vars, configVars, clientVars, walletVars
    <3>2. StartTypeOK'
      BY <3>1 DEF StartInv, StartTypeOK, Origin
    <3>3. LoadInv'
      BY <3>1 DEF StartInv, LoadInv, Loaded, Expected
    <3>4. (\A e : Trader(e)' = Trader(e)) /\ Enabled' = Enabled
      BY <3>1 DEF Trader, HasKeys, TraderKeys, GetString, GetNumber, Enabled
    <3>5. TradersInv'
      BY <3>1, <3>4 DEF StartInv, TradersInv
    <3>6. Done(ex)' = Done(ex) /\ Subscribed' = Subscribed
      BY <3>1, <3>4 DEF Done, Subscribed
    <3>7. ClientsInv'
      BY <3>1, <3>4, <3>6 DEF StartInv, ClientsInv
    <3> QED
      BY <3>2, <3>3, <3>5, <3>7 DEF StartInv
  <2> QED
    BY <2>1, <2>2
<1> QED
  BY <1>1, InitInv, PTL DEF Spec

\* main's variables keep their types; in particular the address is always that
\* of the key it was derived from.
THEOREM StartTypes == Spec => []StartTypeOK
<1>1. StartInv => StartTypeOK
  BY DEF StartInv
<1> QED
  BY <1>1, Invariance, PTL

\* HasKeys and TraderKeys, which look at what getString and getNumber return, come
\* to what the file says.
LEMMA TraderIs ==
  ASSUME NEW e \in Names
  PROVE  Trader(e) = IF Given(e) THEN Secrets(e) ELSE <<>>
<1>1. \A x \in {"binance", "bybit", "dydx"} : KeysOf[x][1] # "" /\ KeysOf[x][2] # ""
  <2>1. /\ KeysOf["binance"] = <<"binance.api_key", "binance.secret">>
        /\ KeysOf["bybit"] = <<"bybit.api_key", "bybit.secret">>
        /\ KeysOf["dydx"] = <<"dydx.mnemonic", "dydx.subaccount_number">>
    BY DEF KeysOf
  <2>2. KeysOf["binance"][1] # "" /\ KeysOf["binance"][2] # ""
    BY <2>1
  <2>3. KeysOf["bybit"][1] # "" /\ KeysOf["bybit"][2] # ""
    BY <2>1
  <2>4. KeysOf["dydx"][1] # "" /\ KeysOf["dydx"][2] # ""
    BY <2>1
  <2> QED
    BY <2>2, <2>3, <2>4, Zenon
<1>3. KeysOf[e][1] # "" /\ KeysOf[e][2] # ""
  BY <1>1, ExchangesAre
<1>4. /\ TraderKeys(e)[1] = GetString(KeysOf[e][1])
      /\ TraderKeys(e)[2] = IF e = "dydx" THEN GetNumber(KeysOf[e][2])
                                          ELSE GetString(KeysOf[e][2])
      /\ TraderKeys(e) = <<TraderKeys(e)[1], TraderKeys(e)[2]>>
  BY DEF TraderKeys
<1>5. HasKeys(e) <=> TraderKeys(e)[1] # "" /\ TraderKeys(e)[2] # ""
  <2>1. 1 \in 1 .. 2 /\ 2 \in 1 .. 2 /\ \A i \in 1 .. 2 : i = 1 \/ i = 2
    OBVIOUS
  <2> QED
    BY <2>1, Zenon DEF HasKeys
<1>6. /\ TraderKeys(e)[1] # "" <=> file.keys[KeysOf[e][1]] = "text"
      /\ e # "dydx" => (TraderKeys(e)[2] # "" <=> file.keys[KeysOf[e][2]] = "text")
      /\ e = "dydx" => TraderKeys(e)[2] # ""
  BY <1>3, <1>4 DEF GetString, GetNumber
<1>7. HasKeys(e) <=> Given(e)
  BY <1>5, <1>6 DEF Given
<1>8. Given(e) => TraderKeys(e) = Secrets(e)
  BY <1>4 DEF Given, Secrets, GetString, GetNumber
<1> QED
  BY <1>7, <1>8 DEF Trader

\* Whatever the file says and whichever keys it has, the engine starts with a
\* trader, a socket per symbol and a watched feed for exactly the exchanges it
\* scans, two at least, and with the file's settings and keys.
THEOREM StartsAsConfigured == Spec => []StartedAsConfigured
<1>1. StartInv => StartedAsConfigured
  <2> SUFFICES ASSUME StartInv, pc = "running" PROVE StartedAsConfigured
    BY DEF StartedAsConfigured
  <2>1. Loaded /\ engine = [k \in Settings \ {"fees"} |-> settings[k]] /\ file \in Files
    BY DEF StartInv, LoadInv, StartTypeOK
  <2>2. /\ ToSet(scanned) = Enabled /\ IsInjective(scanned) /\ watching
        /\ sockets = Enabled \X ToSet(symbols) /\ feeds = Enabled \X ToSet(symbols)
    BY AllDone DEF StartInv, ClientsInv
  <2>3. symbols = file.symbols
    BY <2>1 DEF Loaded
  <2>4. settings = [k \in Settings |-> Setting(k)]
    BY <2>1 DEF Loaded, Setting
  <2>5. engine = [k \in Settings \ {"fees"} |-> Setting(k)]
    BY <2>1, <2>4
  <2>6. CASE mode = "paper"
    <3>1. file.mode # "live"
      BY <2>1, <2>6 DEF Loaded
    <3>2. executors = [e \in Names |-> <<settings["fees"]>>]
      BY <2>6 DEF StartInv, TradersInv
    <3>3. Enabled = Names
      BY <3>2 DEF Enabled
    <3>4. Cardinality(Enabled) >= 2
      BY <3>3, ThreeNames
    <3>5. settings["fees"] = Setting("fees")
      BY <2>4 DEF Settings
    <3> QED
      BY <2>2, <2>3, <2>5, <3>1, <3>2, <3>4, <3>5 DEF StartedAsConfigured
  <2>7. CASE mode = "live"
    <3>1. Cardinality(Enabled) >= 2
      BY <2>7 DEF StartInv, TradersInv
    <3>2. file.mode = "live"
      BY <2>1, <2>7 DEF Loaded
    <3>3. ASSUME NEW e \in Names PROVE executors[e] = Trader(e)
      <4>1. e \in {Exchanges[1], Exchanges[2], Exchanges[3]}
        BY ExchangesAre
      <4> QED
        BY <2>7, <4>1 DEF StartInv, TradersInv
    <3>4. \A e \in Names : executors[e] = IF Given(e) THEN Secrets(e) ELSE <<>>
      BY <3>3, TraderIs
    <3> QED
      BY <2>2, <2>3, <2>5, <3>1, <3>2, <3>4 DEF StartedAsConfigured
  <2> QED
    BY <2>6, <2>7 DEF StartInv, TradersInv
<1> QED
  BY <1>1, Invariance, PTL

\* From the first subscription on, no socket runs whose frames the watchdog would
\* not hear of or would not look for.
THEOREM SocketsAreAlwaysWatched == Spec => []SocketsAreWatched
<1>1. StartInv => SocketsAreWatched
  <2> SUFFICES ASSUME StartInv PROVE SocketsAreWatched
    OBVIOUS
  <2>1. ClientsInv /\ StartTypeOK
    BY DEF StartInv
  <2>2. pc \in {"failed", "threw"} => sockets = {} /\ ~ watching
    BY <2>1 DEF ClientsInv
  <2>3. ASSUME NEW s \in sockets PROVE s[1] \in watched /\ s \in feeds
    <3>1. CASE pc = "subscribe"
      <4> DEFINE e == Exchanges[ex]
                 all == ToSet(symbols)
      <4>1. Subscribed \subseteq all
        BY <2>1, <3>1 DEF ClientsInv, Subscribed, ToSet, StartTypeOK
      <4>2. /\ watched = Done(ex) \cup {e} /\ feeds = (Done(ex) \cup {e}) \X all
            /\ sockets = (Done(ex) \X all) \cup ({e} \X Subscribed)
        BY <2>1, <3>1 DEF ClientsInv
      <4> HIDE DEF e, all
      <4>3. s \in (Done(ex) \cup {e}) \X all
        BY <2>3, <4>1, <4>2
      <4>4. s[1] \in Done(ex) \cup {e}
        BY <4>3
      <4> QED
        BY <4>2, <4>3, <4>4
    <3>2. CASE pc # "subscribe"
      <4>1. pc \in {"load", "configure", "traders", "failed", "threw", "connect", "watch",
                    "register", "start", "running"}
        BY <2>1, <3>2 DEF StartTypeOK
      <4>2. \/ sockets = {}
            \/ /\ sockets = Done(ex) \X ToSet(symbols) /\ feeds = sockets
               /\ Done(ex) \subseteq watched
        BY <2>1, <4>1 DEF ClientsInv
      <4>3. s \in Done(ex) \X ToSet(symbols) /\ s \in feeds /\ Done(ex) \subseteq watched
        BY <2>3, <4>2
      <4>4. s[1] \in Done(ex)
        BY <4>3
      <4> QED
        BY <4>3, <4>4
    <3> QED
      BY <3>1, <3>2
  <2> QED
    BY <2>2, <2>3 DEF SocketsAreWatched
<1> QED
  BY <1>1, Invariance, PTL

------------------------------------------------------------------------------
(* Sequences, and loops as recursive functions over their rounds.           *)

LEMMA LenIs ==
  ASSUME NEW S, NEW n \in Nat, NEW s \in [1 .. n -> S]
  PROVE  s \in Seq(S) /\ Len(s) = n
<1>1. s \in Seq(S)
  BY SeqDef
<1>2. Len(s) \in Nat /\ 1 .. Len(s) = 1 .. n
  BY <1>1, LenProperties
<1> QED
  BY <1>1, <1>2

LEMMA Induct ==
  ASSUME NEW N \in Nat, NEW P, 0 \in P, \A n \in 0 .. N - 1 : n \in P => n + 1 \in P
  PROVE  0 .. N \subseteq P
<1> SUFFICES ASSUME NEW S, S = (0 .. N) \ P, S # {} PROVE FALSE
  OBVIOUS
<1>1. PICK x \in S : \A y \in S : x <= y
  BY LeastExists
<1>2. x # 0 /\ x - 1 \in 0 .. N - 1 /\ x - 1 \in 0 .. N
  BY <1>1
<1>3. x - 1 \notin S
  BY <1>1, <1>2
<1>4. x - 1 \in P /\ (x - 1) + 1 = x
  BY <1>2, <1>3
<1> QED
  BY <1>1, <1>2, <1>4

\* The states that a loop of N rounds goes through.
RunOf(c, N, S, start, step) ==
  /\ c \in [0 .. N -> S] /\ c[0] = start
  /\ \A n \in 1 .. N : c[n] = step[<<c[n - 1], n>>]

\* A loop that takes each state of S to a state of S has such a run.
LEMMA RunExists ==
  ASSUME NEW N \in Nat, NEW S, NEW start \in S, NEW step \in [S \X (1 .. N) -> S]
  PROVE  \E c : RunOf(c, N, S, start, step)
<1> DEFINE P == {m \in 0 .. N : \E c : RunOf(c, m, S, start, step)}
<1>1. 0 \in P
  <2>1. RunOf([m \in 0 .. 0 |-> start], 0, S, start, step)
    BY DEF RunOf
  <2> QED
    BY <2>1
<1>2. ASSUME NEW m \in 0 .. N - 1, m \in P PROVE m + 1 \in P
  <2>1. PICK c : RunOf(c, m, S, start, step)
    BY <1>2
  <2> DEFINE d == [n \in 0 .. m + 1 |-> IF n <= m THEN c[n] ELSE step[<<c[m], m + 1>>]]
  <2>2. step[<<c[m], m + 1>>] \in S
    BY <2>1 DEF RunOf
  <2>3. d \in [0 .. m + 1 -> S] /\ d[0] = start
    BY <2>1, <2>2 DEF RunOf
  <2>4. ASSUME NEW n \in 1 .. m + 1 PROVE d[n] = step[<<d[n - 1], n>>]
    <3>1. CASE n <= m
      BY <2>1, <3>1 DEF RunOf
    <3>2. CASE n = m + 1
      BY <2>1, <3>2 DEF RunOf
    <3> QED
      BY <3>1, <3>2
  <2>5. RunOf(d, m + 1, S, start, step)
    BY <2>3, <2>4 DEF RunOf
  <2>6. \E e : RunOf(e, m + 1, S, start, step)
    BY <2>5
  <2> QED
    BY <2>6
<1> HIDE DEF P
<1>3. 0 .. N \subseteq P
  BY <1>1, <1>2, Induct
<1>4. N \in P
  BY <1>3
<1> QED
  BY <1>4 DEF P

------------------------------------------------------------------------------
(* Xor on values of five bits: an associative sum that is its own inverse.  *)

Five == 0 .. 31

\* The value of five bits, the lowest first.
OfBits(b0, b1, b2, b3, b4) == b0 + 2 * b1 + 4 * b2 + 8 * b3 + 16 * b4

LEMMA FiveBits ==
  ASSUME NEW a \in Five
  PROVE  \E b0, b1, b2, b3, b4 \in {0, 1} : a = OfBits(b0, b1, b2, b3, b4)
<1> DEFINE b0 == a % 2
           b1 == (a \div 2) % 2
           b2 == (a \div 4) % 2
           b3 == (a \div 8) % 2
           b4 == (a \div 16) % 2
<1>1. b0 \in {0, 1} /\ b1 \in {0, 1} /\ b2 \in {0, 1} /\ b3 \in {0, 1} /\ b4 \in {0, 1}
  BY DEF Five
<1>2. a = OfBits(b0, b1, b2, b3, b4)
  BY DEF OfBits, Five
<1> QED
  BY <1>1, <1>2

LEMMA BitsOf ==
  ASSUME NEW b0 \in {0, 1}, NEW b1 \in {0, 1}, NEW b2 \in {0, 1}, NEW b3 \in {0, 1},
         NEW b4 \in {0, 1}, NEW a, a = OfBits(b0, b1, b2, b3, b4)
  PROVE  /\ a \in Five
         /\ a \div 1 = a
         /\ a \div 2 = b1 + 2 * b2 + 4 * b3 + 8 * b4
         /\ a \div 4 = b2 + 2 * b3 + 4 * b4
         /\ a \div 8 = b3 + 2 * b4
         /\ a \div 16 = b4
BY DEF OfBits, Five

LEMMA BitsOf2 ==
  ASSUME NEW b0 \in {0, 1}, NEW b1 \in {0, 1}, NEW b2 \in {0, 1}, NEW b3 \in {0, 1},
         NEW b4 \in {0, 1}, NEW a, a = OfBits(b0, b1, b2, b3, b4)
  PROVE  /\ (a \div 1) % 2 = b0 /\ (a \div 2) % 2 = b1 /\ (a \div 4) % 2 = b2
         /\ (a \div 8) % 2 = b3 /\ (a \div 16) % 2 = b4
BY BitsOf DEF OfBits, Five

LEMMA XorOfBits ==
  ASSUME NEW a0 \in {0, 1}, NEW a1 \in {0, 1}, NEW a2 \in {0, 1}, NEW a3 \in {0, 1},
         NEW a4 \in {0, 1}, NEW b0 \in {0, 1}, NEW b1 \in {0, 1}, NEW b2 \in {0, 1},
         NEW b3 \in {0, 1}, NEW b4 \in {0, 1}
  PROVE  Xor(OfBits(a0, a1, a2, a3, a4), OfBits(b0, b1, b2, b3, b4))
           = OfBits((a0 + b0) % 2, (a1 + b1) % 2, (a2 + b2) % 2, (a3 + b3) % 2, (a4 + b4) % 2)
<1> DEFINE a == OfBits(a0, a1, a2, a3, a4)
           b == OfBits(b0, b1, b2, b3, b4)
<1>1. /\ a \div 1 = a0 + 2 * a1 + 4 * a2 + 8 * a3 + 16 * a4
      /\ a \div 2 = a1 + 2 * a2 + 4 * a3 + 8 * a4
      /\ a \div 4 = a2 + 2 * a3 + 4 * a4 /\ a \div 8 = a3 + 2 * a4 /\ a \div 16 = a4
  BY BitsOf DEF OfBits
<1>2. /\ b \div 1 = b0 + 2 * b1 + 4 * b2 + 8 * b3 + 16 * b4
      /\ b \div 2 = b1 + 2 * b2 + 4 * b3 + 8 * b4
      /\ b \div 4 = b2 + 2 * b3 + 4 * b4 /\ b \div 8 = b3 + 2 * b4 /\ b \div 16 = b4
  BY BitsOf DEF OfBits
<1> HIDE DEF a, b
<1>3. (a \div 1 + b \div 1) % 2 = (a0 + b0) % 2
  BY <1>1, <1>2
<1>4. (a \div 2 + b \div 2) % 2 = (a1 + b1) % 2
  BY <1>1, <1>2
<1>5. (a \div 4 + b \div 4) % 2 = (a2 + b2) % 2
  BY <1>1, <1>2
<1>6. (a \div 8 + b \div 8) % 2 = (a3 + b3) % 2
  BY <1>1, <1>2
<1>7. (a \div 16 + b \div 16) % 2 = (a4 + b4) % 2
  BY <1>1, <1>2
<1>8. Xor(a, b) = OfBits((a0 + b0) % 2, (a1 + b1) % 2, (a2 + b2) % 2, (a3 + b3) % 2,
                         (a4 + b4) % 2)
  BY <1>3, <1>4, <1>5, <1>6, <1>7 DEF Xor, OfBits
<1> QED
  BY <1>8 DEF a, b

LEMMA BitSums ==
  ASSUME NEW x \in {0, 1}, NEW y \in {0, 1}, NEW z \in {0, 1}
  PROVE  /\ (x + y) % 2 \in {0, 1}
         /\ (x + y) % 2 = (y + x) % 2
         /\ (((x + y) % 2) + z) % 2 = (x + ((y + z) % 2)) % 2
         /\ (x + x) % 2 = 0
         /\ (x + 0) % 2 = x
OBVIOUS

LEMMA XorFacts ==
  ASSUME NEW a \in Five, NEW b \in Five
  PROVE  /\ Xor(a, b) \in Five
         /\ Xor(a, b) = Xor(b, a)
         /\ Xor(a, a) = 0
         /\ Xor(a, 0) = a /\ Xor(0, a) = a
<1>1. PICK a0, a1, a2, a3, a4 \in {0, 1} : a = OfBits(a0, a1, a2, a3, a4)
  BY FiveBits
<1>2. PICK b0, b1, b2, b3, b4 \in {0, 1} : b = OfBits(b0, b1, b2, b3, b4)
  BY FiveBits
<1>3. 0 = OfBits(0, 0, 0, 0, 0) /\ 0 \in {0, 1}
  BY DEF OfBits
<1>4. Xor(a, b) \in Five
  BY <1>1, <1>2, XorOfBits, BitsOf, BitSums
<1>5. Xor(a, b) = Xor(b, a)
  BY <1>1, <1>2, XorOfBits, BitSums
<1>6. Xor(a, a) = 0
  BY <1>1, <1>3, XorOfBits, BitSums
<1>7. Xor(a, 0) = a
  BY <1>1, <1>3, XorOfBits, BitSums
<1>8. Xor(0, a) = a
  BY <1>1, <1>3, XorOfBits, BitSums
<1> QED
  BY <1>4, <1>5, <1>6, <1>7, <1>8

LEMMA XorAssociative ==
  ASSUME NEW a \in Five, NEW b \in Five, NEW c \in Five
  PROVE  Xor(Xor(a, b), c) = Xor(a, Xor(b, c))
<1>1. PICK a0, a1, a2, a3, a4 \in {0, 1} : a = OfBits(a0, a1, a2, a3, a4)
  BY FiveBits
<1>2. PICK b0, b1, b2, b3, b4 \in {0, 1} : b = OfBits(b0, b1, b2, b3, b4)
  BY FiveBits
<1>3. PICK c0, c1, c2, c3, c4 \in {0, 1} : c = OfBits(c0, c1, c2, c3, c4)
  BY FiveBits
<1> QED
  BY <1>1, <1>2, <1>3, XorOfBits, BitSums

LEMMA XorSwap ==
  ASSUME NEW a \in Five, NEW b \in Five, NEW c \in Five
  PROVE  Xor(Xor(a, b), c) = Xor(Xor(a, c), b)
<1>1. Xor(Xor(a, b), c) = Xor(a, Xor(b, c))
  BY XorAssociative
<1>2. Xor(Xor(a, c), b) = Xor(a, Xor(c, b))
  BY XorAssociative
<1>3. Xor(b, c) = Xor(c, b)
  BY XorFacts
<1> QED
  BY <1>1, <1>2, <1>3

------------------------------------------------------------------------------
(* The constants of PolyMod are multiples of the generator.                 *)

\* A 30-bit integer.
Words == [1 .. 6 -> Five]

LEMMA Ones ==
  /\ Groups(1) \in [1 .. 6 -> Five] /\ Groups(0) \in [1 .. 6 -> Five]
  /\ \A i \in 1 .. 6 : Groups(0)[i] = 0
<1>1. \A i \in 1 .. 6 : i = 1 \/ i = 2 \/ i = 3 \/ i = 4 \/ i = 5 \/ i = 6
  OBVIOUS
<1>2. \A i \in 1 .. 6 : Places[i] \in Nat \ {0}
  BY <1>1 DEF Places
<1> QED
  BY <1>2 DEF Groups, Five

\* The first has the coefficients of the generator, each other one is the one
\* before it times a.
LEMMA ConstantsAreMultiples ==
  ASSUME NEW i \in 1 .. 6
  PROVE  /\ K[1][i] = Generator[i] /\ K[2][i] = TimesA(K[1][i])
         /\ K[3][i] = TimesA(K[2][i]) /\ K[4][i] = TimesA(K[3][i])
         /\ K[5][i] = TimesA(K[4][i])
         /\ \A n \in 1 .. 5 : K[n][i] \in Five
<1>1. i = 1 \/ i = 2 \/ i = 3 \/ i = 4 \/ i = 5 \/ i = 6
  OBVIOUS
<1>2. K[1][1] = 29 /\ K[1][2] = 22 /\ K[1][3] = 20
      /\ K[1][4] = 21 /\ K[1][5] = 29 /\ K[1][6] = 18
  <2>1. K[1] = Groups(996825010)
    BY SMT DEF K
  <2> QED
    BY <2>1, SMT DEF Groups, Places
<1>3. K[2][1] = 19 /\ K[2][2] = 5 /\ K[2][3] = 1
      /\ K[2][4] = 3 /\ K[2][5] = 19 /\ K[2][6] = 13
  <2>1. K[2] = Groups(642813549)
    BY SMT DEF K
  <2> QED
    BY <2>1, SMT DEF Groups, Places
<1>4. K[3][1] = 15 /\ K[3][2] = 10 /\ K[3][3] = 2
      /\ K[3][4] = 6 /\ K[3][5] = 15 /\ K[3][6] = 26
  <2>1. K[3] = Groups(513874426)
    BY SMT DEF K
  <2> QED
    BY <2>1, SMT DEF Groups, Places
<1>5. K[4][1] = 30 /\ K[4][2] = 20 /\ K[4][3] = 4
      /\ K[4][4] = 12 /\ K[4][5] = 30 /\ K[4][6] = 29
  <2>1. K[4] = Groups(1027748829)
    BY SMT DEF K
  <2> QED
    BY <2>1, SMT DEF Groups, Places
<1>6. K[5][1] = 21 /\ K[5][2] = 1 /\ K[5][3] = 8
      /\ K[5][4] = 24 /\ K[5][5] = 21 /\ K[5][6] = 19
  <2>1. K[5] = Groups(705979059)
    BY SMT DEF K
  <2> QED
    BY <2>1, SMT DEF Groups, Places
<1>7. K[1][i] = Generator[i]
  BY <1>1, <1>2 DEF Generator
<1>8. /\ K[2][i] = TimesA(K[1][i]) /\ K[3][i] = TimesA(K[2][i])
      /\ K[4][i] = TimesA(K[3][i]) /\ K[5][i] = TimesA(K[4][i])
  BY <1>1, <1>2, <1>3, <1>4, <1>5, <1>6 DEF TimesA, Xor
<1>9. \A n \in 1 .. 5 : n = 1 \/ n = 2 \/ n = 3 \/ n = 4 \/ n = 5
  OBVIOUS
<1>10. \A n \in 1 .. 5 : K[n][i] \in Five
  BY <1>1, <1>2, <1>3, <1>4, <1>5, <1>6, <1>9 DEF Five
<1> QED
  BY <1>7, <1>8, <1>10

LEMMA SelectedType ==
  ASSUME NEW c, NEW t1 \in Five, NEW t2 \in Five, NEW t3 \in Five, NEW t4 \in Five,
         NEW t5 \in Five
  PROVE  Selected(c, <<t1, t2, t3, t4, t5>>) \in Five
<1> DEFINE term(bit, t) == IF (c \div bit) % 2 = 1 THEN t ELSE 0
<1>1. 0 \in Five
  BY DEF Five
<1>2. /\ term(1, t1) \in Five /\ term(2, t2) \in Five /\ term(4, t3) \in Five
      /\ term(8, t4) \in Five /\ term(16, t5) \in Five
  BY <1>1
<1>3. Selected(c, <<t1, t2, t3, t4, t5>>) =
        Xor(term(1, t1), Xor(term(2, t2), Xor(term(4, t3), Xor(term(8, t4), term(16, t5)))))
  BY DEF Selected
<1> HIDE DEF term
<1> QED
  BY <1>2, <1>3, XorFacts

\* So a round adds what dividing out the leading coefficient adds.
LEMMA AddedFacts ==
  ASSUME NEW c0 \in Five, NEW i \in 1 .. 6
  PROVE  Added[c0][i] \in Five /\ Added[c0][i] = Times(Generator[i], c0)
<1>1. Added[c0][i] = Selected(c0, <<K[1][i], K[2][i], K[3][i], K[4][i], K[5][i]>>)
  BY DEF Added, Five
<1>2. Times(Generator[i], c0)
        = Selected(c0, <<K[1][i], K[2][i], K[3][i], K[4][i], K[5][i]>>)
  BY ConstantsAreMultiples DEF Times
<1>3. /\ K[1][i] \in Five /\ K[2][i] \in Five /\ K[3][i] \in Five /\ K[4][i] \in Five
      /\ K[5][i] \in Five
  BY ConstantsAreMultiples
<1> QED
  BY <1>1, <1>2, <1>3, SelectedType

------------------------------------------------------------------------------
(* PolyMod, the checksum and the division.                                  *)

LEMMA NextType ==
  ASSUME NEW c \in Words, NEW v \in Five
  PROVE  /\ WithNext(c, v) \in Words
         /\ \A i \in 1 .. 6 :
              WithNext(c, v)[i] = Xor(IF i < 6 THEN c[i + 1] ELSE v, Added[c[1]][i])
<1>1. \A i \in 1 .. 6 :
        WithNext(c, v)[i] = Xor(IF i < 6 THEN c[i + 1] ELSE v, Added[c[1]][i])
  BY DEF WithNext, Plus
<1>2. ASSUME NEW i \in 1 .. 6 PROVE WithNext(c, v)[i] \in Five
  <2>1. c[1] \in Five /\ (i < 6 => c[i + 1] \in Five)
    BY DEF Words
  <2>2. Added[c[1]][i] \in Five
    BY <2>1, AddedFacts
  <2> DEFINE x == IF i < 6 THEN c[i + 1] ELSE v
  <2>3. x \in Five
    BY <2>1
  <2>4. WithNext(c, v)[i] = Xor(x, Added[c[1]][i])
    BY <1>1
  <2> HIDE DEF x
  <2> QED
    BY <2>2, <2>3, <2>4, XorFacts
<1>3. WithNext(c, v) = [i \in 1 .. 6 |-> WithNext(c, v)[i]]
  BY DEF WithNext, Plus
<1>4. WithNext(c, v) \in Words
  BY <1>2, <1>3 DEF Words
<1> QED
  BY <1>1, <1>4

LEMMA PlusType ==
  ASSUME NEW a \in Words, NEW b \in Words
  PROVE  Plus(a, b) \in Words
<1>1. \A i \in 1 .. 6 : a[i] \in Five /\ b[i] \in Five
  BY DEF Words
<1>2. \A i \in 1 .. 6 : Xor(a[i], b[i]) \in Five
  BY <1>1, XorFacts
<1> QED
  BY <1>2 DEF Plus, Words

\* The states that PolyMod's loop goes through.
PolyModRun(c, v) ==
  /\ c \in [0 .. Len(v) -> Words] /\ c[0] = Groups(1)
  /\ \A n \in 1 .. Len(v) : c[n] = WithNext(c[n - 1], v[n])

LEMMA PolyModRuns ==
  ASSUME NEW v \in Seq(Five)
  PROVE  \E c : PolyModRun(c, v) /\ PolyMod(v) = c[Len(v)]
<1> DEFINE N == Len(v)
           step == [s \in Words \X (1 .. N) |-> WithNext(s[1], v[s[2]])]
           Eq(c) == c = [i \in 0 .. N |-> IF i = 0 THEN Groups(1) ELSE WithNext(c[i - 1], v[i])]
<1>1. N \in Nat /\ Groups(1) \in Words
  BY Ones DEF Words
<1>2. step \in [Words \X (1 .. N) -> Words]
  <2>1. ASSUME NEW s \in Words \X (1 .. N) PROVE WithNext(s[1], v[s[2]]) \in Words
    <3>1. s[1] \in Words /\ s[2] \in 1 .. N
      OBVIOUS
    <3>2. v[s[2]] \in Five
      BY <3>1
    <3> QED
      BY <3>1, <3>2, NextType
  <2> QED
    BY <2>1
<1>3. \E c : RunOf(c, N, Words, Groups(1), step)
  <2> HIDE DEF step, N
  <2> QED
    BY <1>1, <1>2, RunExists
<1>4. PICK c \in [0 .. N -> Words] :
        c[0] = Groups(1) /\ \A n \in 1 .. N : c[n] = step[<<c[n - 1], n>>]
  BY <1>3 DEF RunOf
<1>5. ASSUME NEW n \in 1 .. N PROVE c[n] = WithNext(c[n - 1], v[n])
  <2>1. n - 1 \in 0 .. N
    BY <1>1
  <2>2. <<c[n - 1], n>> \in Words \X (1 .. N)
    BY <1>4, <2>1
  <2>3. step[<<c[n - 1], n>>] = WithNext(c[n - 1], v[n])
    BY <2>2
  <2> QED
    BY <1>4, <2>3
<1>6. Eq(c)
  BY <1>1, <1>4, <1>5
<1>7. PolyMod(v) = (CHOOSE d : Eq(d))[N]
  BY DEF PolyMod
<1>8. PICK d : Eq(d) /\ PolyMod(v) = d[N]
  <2> HIDE DEF Eq, N
  <2> QED
    BY <1>6, <1>7
<1>9. d[0] = Groups(1) /\ \A n \in 1 .. N : d[n] = WithNext(d[n - 1], v[n])
  BY <1>1, <1>8
<1>10. 0 .. N \subseteq {n \in 0 .. N : d[n] = c[n]}
  <2> DEFINE P == {n \in 0 .. N : d[n] = c[n]}
  <2>1. 0 \in P
    BY <1>1, <1>4, <1>9
  <2>2. ASSUME NEW n \in 0 .. N - 1, n \in P PROVE n + 1 \in P
    BY <1>1, <1>5, <1>9, <2>2
  <2> HIDE DEF P, N
  <2>3. 0 .. N \subseteq P
    BY <1>1, <2>1, <2>2, Induct
  <2> QED
    BY <2>3 DEF P
<1>11. PolyModRun(c, v)
  BY <1>4, <1>5 DEF PolyModRun
<1>12. PolyMod(v) = c[N]
  BY <1>1, <1>8, <1>10
<1> QED
  BY <1>11, <1>12

LEMMA SixMore ==
  ASSUME NEW base \in Seq(Five), NEW last \in Words
  PROVE  /\ base \o last \in Seq(Five) /\ Len(base \o last) = Len(base) + 6
         /\ \A n \in 1 .. Len(base) : (base \o last)[n] = base[n]
         /\ \A j \in 1 .. 6 : (base \o last)[Len(base) + j] = last[j]
<1>1. last \in Seq(Five) /\ Len(last) = 6
  BY LenIs DEF Words
<1>2. /\ base \o last \in Seq(Five) /\ Len(base \o last) = Len(base) + Len(last)
      /\ \A i \in 1 .. Len(base) + Len(last) :
           (base \o last)[i] = IF i <= Len(base) THEN base[i] ELSE last[i - Len(base)]
  BY <1>1, ConcatProperties, Zenon
<1>3. Len(base) \in Nat
  OBVIOUS
<1> QED
  BY <1>1, <1>2, <1>3

\* The checksum is the remainder of the digits with six zeros after them, plus
\* one.  In the last six rounds it has not reached the leading digit yet, so the
\* rounds add the same to both and the difference of the two moves up unchanged.
LEMMA ChecksumCloses ==
  ASSUME NEW base \in Seq(Five), NEW chk,
         chk = Plus(PolyMod(base \o Groups(0)), Groups(1))
  PROVE  chk \in Words /\ PolyMod(base \o chk) = Groups(1)
<1> DEFINE M == Len(base)
           v == base \o Groups(0)
           w == base \o chk
<1>1. M \in Nat
  OBVIOUS
<1>2. Groups(0) \in Words /\ Groups(1) \in Words /\ \A i \in 1 .. 6 : Groups(0)[i] = 0
  BY Ones DEF Words
<1>3. /\ v \in Seq(Five) /\ Len(v) = M + 6
      /\ \A n \in 1 .. M : v[n] = base[n]
      /\ \A j \in 1 .. 6 : v[M + j] = 0
  BY <1>2, SixMore
<1>4. PICK cv : PolyModRun(cv, v) /\ PolyMod(v) = cv[M + 6]
  BY <1>3, PolyModRuns
<1>5. cv[M + 6] \in Words
  <2>1. cv \in [0 .. M + 6 -> Words]
    BY <1>3, <1>4 DEF PolyModRun
  <2> QED
    BY <1>1, <2>1
<1>6. chk \in Words
  BY <1>2, <1>4, <1>5, PlusType
<1>7. /\ w \in Seq(Five) /\ Len(w) = M + 6
      /\ \A n \in 1 .. M : w[n] = base[n]
      /\ \A j \in 1 .. 6 : w[M + j] = chk[j]
  BY <1>6, SixMore
<1>8. PICK cw : PolyModRun(cw, w) /\ PolyMod(w) = cw[M + 6]
  BY <1>7, PolyModRuns
<1> HIDE DEF M, v, w
<1>9. \A n \in 0 .. M + 6 : cv[n] \in Words /\ cw[n] \in Words
  BY <1>3, <1>4, <1>7, <1>8 DEF PolyModRun
<1>10. /\ cv[0] = Groups(1) /\ \A n \in 1 .. M + 6 : cv[n] = WithNext(cv[n - 1], v[n])
       /\ cw[0] = Groups(1) /\ \A n \in 1 .. M + 6 : cw[n] = WithNext(cw[n - 1], w[n])
  BY <1>3, <1>4, <1>7, <1>8 DEF PolyModRun
<1>11. cv[M] = cw[M]
  <2> DEFINE P == {n \in 0 .. M : cv[n] = cw[n]}
  <2>1. 0 \in P
    BY <1>1, <1>10
  <2>2. ASSUME NEW n \in 0 .. M - 1, n \in P PROVE n + 1 \in P
    <3>1. n + 1 \in 1 .. M /\ n + 1 \in 1 .. M + 6 /\ (n + 1) - 1 = n /\ n + 1 \in 0 .. M
      BY <1>1
    <3>2. v[n + 1] = w[n + 1]
      BY <1>3, <1>7, <3>1
    <3>3. cv[n + 1] = WithNext(cv[n], v[n + 1]) /\ cw[n + 1] = WithNext(cw[n], w[n + 1])
      BY <1>10, <3>1
    <3> QED
      BY <2>2, <3>1, <3>2, <3>3
  <2> HIDE DEF P
  <2>3. 0 .. M \subseteq P
    BY <1>1, <2>1, <2>2, Induct
  <2> QED
    BY <1>1, <2>3 DEF P
<1> DEFINE moved(j, i) == IF i > 6 - j THEN chk[i - (6 - j)] ELSE 0
           P == {j \in 0 .. 6 : \A i \in 1 .. 6 :
                                  cw[M + j][i] = Xor(cv[M + j][i], moved(j, i))}
<1>12. 0 \in P
  <2>1. ASSUME NEW i \in 1 .. 6 PROVE cw[M + 0][i] = Xor(cv[M + 0][i], moved(0, i))
    <3>1. M + 0 = M /\ moved(0, i) = 0
      BY <1>1
    <3>2. cv[M][i] \in Five
      BY <1>1, <1>9 DEF Words
    <3> HIDE DEF moved
    <3> QED
      BY <1>11, <3>1, <3>2, XorFacts
  <2> HIDE DEF moved
  <2> QED
    BY <2>1
<1>13. ASSUME NEW j \in 0 .. 6 - 1, j \in P PROVE j + 1 \in P
  <2>1. /\ M + j \in 0 .. M + 6 /\ M + (j + 1) \in 1 .. M + 6 /\ (M + (j + 1)) - 1 = M + j
        /\ j + 1 \in 1 .. 6 /\ j + 1 \in 0 .. 6
    BY <1>1
  <2>2. cv[M + j] \in Words /\ cw[M + j] \in Words
    BY <1>9, <2>1
  <2>3. v[M + (j + 1)] = 0 /\ w[M + (j + 1)] = chk[j + 1]
    BY <1>3, <1>7, <2>1
  <2>4. 0 \in Five /\ chk[j + 1] \in Five
    BY <1>6, <2>1 DEF Five, Words
  <2>5. cv[M + (j + 1)] = WithNext(cv[M + j], 0)
        /\ cw[M + (j + 1)] = WithNext(cw[M + j], chk[j + 1])
    BY <1>10, <2>1, <2>3
  <2>6. cw[M + j][1] = cv[M + j][1] /\ cv[M + j][1] \in Five
    <3>1. 1 \in 1 .. 6 /\ moved(j, 1) = 0
      OBVIOUS
    <3>2. cv[M + j][1] \in Five
      BY <2>2 DEF Words
    <3>3. cw[M + j][1] = Xor(cv[M + j][1], moved(j, 1))
      BY <1>13, <3>1
    <3> HIDE DEF moved
    <3> QED
      BY <3>1, <3>2, <3>3, XorFacts
  <2>7. ASSUME NEW i \in 1 .. 6
        PROVE  cw[M + (j + 1)][i] = Xor(cv[M + (j + 1)][i], moved(j + 1, i))
    <3> DEFINE a == Added[cv[M + j][1]][i]
    <3>1. a \in Five
      BY <2>6, AddedFacts
    <3>2. cv[M + (j + 1)][i] = Xor(IF i < 6 THEN cv[M + j][i + 1] ELSE 0, a)
      <4>1. WithNext(cv[M + j], 0)[i] = Xor(IF i < 6 THEN cv[M + j][i + 1] ELSE 0, a)
        BY <2>2, <2>4, NextType
      <4> QED
        BY <2>5, <4>1
    <3>3. cw[M + (j + 1)][i] = Xor(IF i < 6 THEN cw[M + j][i + 1] ELSE chk[j + 1], a)
      <4>1. WithNext(cw[M + j], chk[j + 1])[i]
              = Xor(IF i < 6 THEN cw[M + j][i + 1] ELSE chk[j + 1], Added[cw[M + j][1]][i])
        BY <2>2, <2>4, NextType
      <4> QED
        BY <2>5, <2>6, <4>1
    <3> HIDE DEF a
    <3>4. CASE i < 6
      <4>1. i + 1 \in 1 .. 6 /\ moved(j, i + 1) = moved(j + 1, i)
        BY <3>4
      <4>2. moved(j, i + 1) \in Five
        BY <1>6, <2>4, <4>1 DEF Words
      <4>3. cv[M + j][i + 1] \in Five
        BY <2>2, <4>1 DEF Words
      <4>4. cw[M + j][i + 1] = Xor(cv[M + j][i + 1], moved(j, i + 1))
        BY <1>13, <4>1
      <4>5. cv[M + (j + 1)][i] = Xor(cv[M + j][i + 1], a)
            /\ cw[M + (j + 1)][i] = Xor(cw[M + j][i + 1], a)
        BY <3>2, <3>3, <3>4
      <4> HIDE DEF moved
      <4> QED
        BY <3>1, <4>1, <4>2, <4>3, <4>4, <4>5, XorSwap
    <3>5. CASE i = 6
      <4>1. moved(j + 1, 6) = chk[j + 1]
        OBVIOUS
      <4>2. cv[M + (j + 1)][6] = Xor(0, a) /\ cw[M + (j + 1)][6] = Xor(chk[j + 1], a)
        BY <3>2, <3>3, <3>5
      <4>3. Xor(0, a) = a /\ Xor(chk[j + 1], a) = Xor(a, chk[j + 1])
        BY <2>4, <3>1, XorFacts
      <4> HIDE DEF moved
      <4> QED
        BY <3>5, <4>1, <4>2, <4>3
    <3> QED
      BY <3>4, <3>5
  <2> HIDE DEF moved
  <2> QED
    BY <2>1, <2>7
<1>14. 6 \in P
  <2> HIDE DEF P
  <2>1. 0 .. 6 \subseteq P
    BY <1>12, <1>13, Induct
  <2> QED
    BY <2>1
<1>15. ASSUME NEW i \in 1 .. 6 PROVE cw[M + 6][i] = Groups(1)[i]
  <2>1. moved(6, i) = chk[i]
    OBVIOUS
  <2>2. cw[M + 6][i] = Xor(cv[M + 6][i], chk[i])
    BY <1>14, <2>1
  <2>3. chk[i] = Xor(cv[M + 6][i], Groups(1)[i])
    BY <1>4 DEF Plus, v
  <2>4. cv[M + 6][i] \in Five /\ Groups(1)[i] \in Five
    BY <1>2, <1>5 DEF Words
  <2>5. Xor(cv[M + 6][i], chk[i]) = Xor(Xor(cv[M + 6][i], cv[M + 6][i]), Groups(1)[i])
    BY <2>3, <2>4, XorAssociative
  <2> HIDE DEF moved
  <2> QED
    BY <2>2, <2>4, <2>5, XorFacts
<1>16. cw[M + 6] = Groups(1)
  <2>1. cw[M + 6] \in Words
    BY <1>1, <1>9
  <2> QED
    BY <1>2, <1>15, <2>1 DEF Words
<1> QED
  BY <1>6, <1>8, <1>16 DEF w

LEMMA SixBefore ==
  ASSUME NEW first \in Words, NEW v \in Seq(Five)
  PROVE  /\ first \o v \in Seq(Five) /\ Len(first \o v) = Len(v) + 6
         /\ \A i \in 1 .. 6 : (first \o v)[i] = first[i]
         /\ \A i \in 7 .. Len(v) + 6 : (first \o v)[i] = v[i - 6]
<1>1. first \in Seq(Five) /\ Len(first) = 6
  BY LenIs DEF Words
<1>2. /\ first \o v \in Seq(Five) /\ Len(first \o v) = Len(first) + Len(v)
      /\ \A i \in 1 .. Len(first) + Len(v) :
           (first \o v)[i] = IF i <= Len(first) THEN first[i] ELSE v[i - Len(first)]
  BY <1>1, ConcatProperties, Zenon
<1>3. Len(v) \in Nat
  OBVIOUS
<1> QED
  BY <1>1, <1>2, <1>3

\* Long division goes through the same six digits as the loop, with the digits
\* that the loop has not read yet behind them.
LEMMA DivisionIsPolyMod ==
  ASSUME NEW v \in Seq(Five)
  PROVE  Remainder(v) = PolyMod(v)
<1> DEFINE N == Len(v)
           start == Groups(1) \o v
           Eq(p) == p = [n \in 0 .. N |-> IF n = 0 THEN start ELSE Divided(p[n - 1])]
<1>1. N \in Nat /\ v \in [1 .. N -> Five]
  OBVIOUS
<1>2. Groups(1) \in Words
  BY Ones DEF Words
<1>3. PICK c : PolyModRun(c, v) /\ PolyMod(v) = c[N]
  BY PolyModRuns
<1>4. /\ c \in [0 .. N -> Words] /\ c[0] = Groups(1)
      /\ \A n \in 1 .. N : c[n] = WithNext(c[n - 1], v[n])
  BY <1>3 DEF PolyModRun
<1> DEFINE q(n) == [i \in 1 .. N + 6 - n |-> IF i <= 6 THEN c[n][i] ELSE v[n + i - 6]]
<1>5. q(0) = start
  <2>1. /\ start \in Seq(Five) /\ Len(start) = N + 6
        /\ \A i \in 1 .. 6 : start[i] = Groups(1)[i]
        /\ \A i \in 7 .. N + 6 : start[i] = v[i - 6]
    BY <1>2, SixBefore, Zenon
  <2> HIDE DEF q, start
  <2>2. start \in [1 .. Len(start) -> Five]
    BY <2>1, LenProperties
  <2>3. ASSUME NEW i \in 1 .. N + 6 PROVE start[i] = q(0)[i]
    <3>1. q(0)[i] = IF i <= 6 THEN c[0][i] ELSE v[0 + i - 6]
      BY <1>1 DEF q
    <3> QED
      BY <1>1, <1>4, <2>1, <3>1
  <2>6. start = [i \in 1 .. N + 6 |-> start[i]]
    BY <2>1, <2>2
  <2>7. q(0) = [i \in 1 .. N + 6 |-> q(0)[i]]
    BY <1>1 DEF q
  <2> QED
    BY <2>3, <2>6, <2>7
<1>6. ASSUME NEW n \in 1 .. N PROVE Divided(q(n - 1)) = q(n)
  <2> DEFINE p == q(n - 1)
             r == [i \in 1 .. N + 6 - n |->
                     IF i <= 6 THEN Xor(p[i + 1], Times(Generator[i], p[1])) ELSE p[i + 1]]
  <2>1. c[n - 1] \in Words /\ c[n] = WithNext(c[n - 1], v[n]) /\ v[n] \in Five
    BY <1>1, <1>4
  <2>2. p \in [1 .. N + 7 - n -> Five]
    <3>1. N + 6 - (n - 1) = N + 7 - n
      BY <1>1
    <3>2. ASSUME NEW i \in 1 .. N + 7 - n
          PROVE  (IF i <= 6 THEN c[n - 1][i] ELSE v[n - 1 + i - 6]) \in Five
      <4>1. CASE i <= 6
        BY <2>1, <4>1 DEF Words
      <4>2. CASE i > 6
        <5>1. n - 1 + i - 6 \in 1 .. N
          BY <1>1, <4>2
        <5> QED
          BY <1>1, <4>2, <5>1
      <4> QED
        BY <1>1, <4>1, <4>2
    <3> QED
      BY <3>1, <3>2
  <2>3. Len(p) = N + 7 - n
    <3>1. N + 7 - n \in Nat
      BY <1>1
    <3> HIDE DEF p
    <3> QED
      BY <2>2, <3>1, LenIs
  <2>4. Divided(p) = r
    <3>1. Len(p) - 1 = N + 6 - n
      BY <1>1, <2>3
    <3> HIDE DEF p
    <3> QED
      BY <3>1 DEF Divided
  <2>5. ASSUME NEW i \in 1 .. N + 6 - n PROVE r[i] = q(n)[i]
    <3>1. i + 1 \in 1 .. N + 7 - n /\ 1 \in 1 .. N + 7 - n
      BY <1>1
    <3>2. p[1] = c[n - 1][1]
      BY <1>1
    <3>3. CASE i > 6
      <4>1. n - 1 + (i + 1) - 6 = n + i - 6
        BY <1>1
      <4>2. p[i + 1] = v[n + i - 6]
        BY <1>1, <3>1, <3>3, <4>1
      <4> QED
        BY <3>3, <4>2
    <3>4. CASE i <= 6
      <4>1. i \in 1 .. 6
        BY <3>4
      <4>2. p[i + 1] = IF i < 6 THEN c[n - 1][i + 1] ELSE v[n]
        BY <1>1, <3>1, <4>1
      <4>3. c[n - 1][1] \in Five
        BY <2>1 DEF Words
      <4>4. Added[c[n - 1][1]][i] = Times(Generator[i], p[1])
        <5>1. Added[c[n - 1][1]][i] = Times(Generator[i], c[n - 1][1])
          BY <4>1, <4>3, AddedFacts
        <5> HIDE DEF p
        <5> QED
          BY <3>2, <5>1
      <4>5. c[n][i] = Xor(IF i < 6 THEN c[n - 1][i + 1] ELSE v[n], Added[c[n - 1][1]][i])
        BY <2>1, <4>1, NextType
      <4>6. r[i] = Xor(p[i + 1], Times(Generator[i], p[1]))
        <5> HIDE DEF p
        <5> QED
          BY <3>4
      <4>7. q(n)[i] = c[n][i]
        BY <3>4
      <4> HIDE DEF p, r, q
      <4> QED
        BY <4>2, <4>4, <4>5, <4>6, <4>7
    <3> QED
      BY <1>1, <3>3, <3>4
  <2>6. q(n) = [i \in 1 .. N + 6 - n |-> q(n)[i]] /\ r = [i \in 1 .. N + 6 - n |-> r[i]]
    <3> HIDE DEF p
    <3> QED
      OBVIOUS
  <2> HIDE DEF p, q, r
  <2>7. r = q(n)
    BY <2>5, <2>6
  <2> QED
    BY <2>4, <2>7 DEF p
<1> DEFINE t == [n \in 0 .. N |-> q(n)]
<1>7. Eq(t)
  <2>1. ASSUME NEW n \in 0 .. N
        PROVE  q(n) = IF n = 0 THEN start ELSE Divided(t[n - 1])
    <3>1. CASE n = 0
      <4> HIDE DEF q
      <4> QED
        BY <1>5, <3>1
    <3>2. CASE n # 0
      <4>1. n \in 1 .. N /\ n - 1 \in 0 .. N
        BY <1>1, <3>2
      <4> HIDE DEF q
      <4>2. t[n - 1] = q(n - 1)
        BY <4>1
      <4> HIDE DEF t
      <4> QED
        BY <1>6, <3>2, <4>1, <4>2
    <3> QED
      BY <3>1, <3>2
  <2>2. t = [n \in 0 .. N |-> q(n)]
    OBVIOUS
  <2> HIDE DEF t, q
  <2> QED
    BY <2>1, <2>2
<1>8. Remainder(v) = (CHOOSE p : Eq(p))[N]
  BY DEF Remainder
<1>9. PICK d : Eq(d) /\ Remainder(v) = d[N]
  <2> HIDE DEF Eq, N, t
  <2> QED
    BY <1>7, <1>8
<1>10. d[0] = start /\ \A n \in 1 .. N : d[n] = Divided(d[n - 1])
  <2> HIDE DEF start
  <2> QED
    BY <1>1, <1>9
<1> HIDE DEF Eq, q
<1>11. 0 .. N \subseteq {n \in 0 .. N : d[n] = q(n)}
  <2> DEFINE P == {n \in 0 .. N : d[n] = q(n)}
  <2>1. 0 \in P
    <3> HIDE DEF start
    <3> QED
      BY <1>1, <1>5, <1>10
  <2>2. ASSUME NEW n \in 0 .. N - 1, n \in P PROVE n + 1 \in P
    <3>1. n + 1 \in 1 .. N /\ n + 1 \in 0 .. N /\ (n + 1) - 1 = n
      BY <1>1
    <3>2. d[n + 1] = Divided(d[n]) /\ q(n + 1) = Divided(q(n))
      BY <1>6, <1>10, <3>1
    <3>3. d[n] = q(n)
      BY <2>2
    <3> QED
      BY <3>1, <3>2, <3>3
  <2> HIDE DEF P, N
  <2>3. 0 .. N \subseteq P
    BY <1>1, <2>1, <2>2, Induct
  <2> QED
    BY <2>3 DEF P
<1>12. d[N] = q(N)
  BY <1>1, <1>11
<1>13. q(N) = c[N]
  <2>1. c[N] \in [1 .. 6 -> Five]
    BY <1>1, <1>4 DEF Words
  <2>2. q(N) = [i \in 1 .. 6 |-> c[N][i]]
    BY <1>1 DEF q
  <2> QED
    BY <2>1, <2>2
<1> QED
  BY <1>3, <1>9, <1>12, <1>13

------------------------------------------------------------------------------
(* A string that Encode wrote, read by Decode.                              *)

\* Every digit has a character that the reader takes for it again; none of them
\* is the separator or an upper case letter.
LEMMA Characters ==
  ASSUME NEW x \in Five
  PROVE  /\ Rev(CHARSET[x + 1]) = x
         /\ CHARSET[x + 1] \in 48 .. 57 \cup 97 .. 122
         /\ CHARSET[x + 1] # One
<1>1. \/ x \in 0 .. 7
      \/ x \in 8 .. 15
      \/ x \in 16 .. 23
      \/ x \in 24 .. 31
  BY DEF Five
<1>2. CASE x \in 0 .. 7
  <2>1. x = 0 \/ x = 1 \/ x = 2 \/ x = 3 \/ x = 4 \/ x = 5 \/ x = 6 \/ x = 7
    BY <1>2
  <2> QED
    BY <2>1 DEF CHARSET, CHARSET_REV, Rev, One
<1>3. CASE x \in 8 .. 15
  <2>1. x = 8 \/ x = 9 \/ x = 10 \/ x = 11 \/ x = 12 \/ x = 13 \/ x = 14 \/ x = 15
    BY <1>3
  <2> QED
    BY <2>1 DEF CHARSET, CHARSET_REV, Rev, One
<1>4. CASE x \in 16 .. 23
  <2>1. x = 16 \/ x = 17 \/ x = 18 \/ x = 19 \/ x = 20 \/ x = 21 \/ x = 22 \/ x = 23
    BY <1>4
  <2> QED
    BY <2>1 DEF CHARSET, CHARSET_REV, Rev, One
<1>5. CASE x \in 24 .. 31
  <2>1. x = 24 \/ x = 25 \/ x = 26 \/ x = 27 \/ x = 28 \/ x = 29 \/ x = 30 \/ x = 31
    BY <1>5
  <2> QED
    BY <2>1 DEF CHARSET, CHARSET_REV, Rev, One
<1> QED
  BY <1>1, <1>2, <1>3, <1>4, <1>5

LEMMA PrefixType == ExpandHRP(Hrp) \in Seq(Five)
<1>1. Hrp \in [1 .. 4 -> 0 .. 127]
  <2>1. \A i \in 1 .. 4 : i = 1 \/ i = 2 \/ i = 3 \/ i = 4
    OBVIOUS
  <2>2. \A i \in 1 .. 4 : Hrp[i] \in 0 .. 127
    BY <2>1 DEF Hrp
  <2> QED
    BY <2>2 DEF Hrp
<1>2. DOMAIN Hrp = 1 .. 4
  BY <1>1
<1> DEFINE high == [i \in DOMAIN Hrp |-> Hrp[i] \div 32]
           low  == [i \in DOMAIN Hrp |-> Hrp[i] % 32]
<1>3. high \in [1 .. 4 -> Five] /\ low \in [1 .. 4 -> Five]
  BY <1>1, <1>2 DEF Five
<1>4. high \in Seq(Five) /\ low \in Seq(Five) /\ <<0>> \in Seq(Five)
  <2>1. 4 \in Nat /\ 0 \in Five
    BY DEF Five
  <2>2. <<0>> \in Seq(Five)
    BY <2>1
  <2> HIDE DEF high, low
  <2>3. high \in Seq(Five) /\ low \in Seq(Five)
    BY <1>3, <2>1, LenIs
  <2> QED
    BY <2>2, <2>3
<1>5. ExpandHRP(Hrp) = high \o <<0>> \o low
  BY DEF ExpandHRP
<1> HIDE DEF high, low
<1>6. high \o <<0>> \in Seq(Five)
  BY <1>4, ConcatProperties, Zenon
<1> QED
  BY <1>4, <1>5, <1>6, ConcatProperties, Zenon

Printed == 33 .. 126

\* The characters of an address: what is before the digits, and the whole.
Begin == Hrp \o <<One>>
Written(d) == Begin \o [i \in DOMAIN d |-> CHARSET[d[i] + 1]]

LEMMA BeginFacts ==
  /\ Begin \in Seq(Printed) /\ Len(Begin) = 5 /\ Begin[5] = One
  /\ \A i \in 1 .. 4 : Begin[i] = Hrp[i]
<1> DEFINE sep == <<One>>
<1>1. Hrp \in Seq(Printed) /\ Len(Hrp) = 4
  BY DEF Hrp, Printed
<1>2. sep \in Seq(Printed) /\ Len(sep) = 1 /\ sep[1] = One
  BY DEF One, Printed
<1>3. Begin = Hrp \o sep
  BY DEF Begin
<1> HIDE DEF sep
<1>4. /\ Begin \in Seq(Printed) /\ Len(Begin) = Len(Hrp) + Len(sep)
      /\ \A i \in 1 .. Len(Hrp) + Len(sep) :
           Begin[i] = IF i <= Len(Hrp) THEN Hrp[i] ELSE sep[i - Len(Hrp)]
  BY <1>1, <1>2, <1>3, ConcatProperties, Zenon
<1>5. 5 \in 1 .. 5 /\ ~ (5 <= 4) /\ 5 - 4 = 1
  OBVIOUS
<1>6. Len(Begin) = 5 /\ \A i \in 1 .. 5 : Begin[i] = IF i <= 4 THEN Hrp[i] ELSE sep[i - 4]
  BY <1>1, <1>2, <1>4
<1>7. Begin[5] = One /\ \A i \in 1 .. 4 : Begin[i] = Hrp[i]
  BY <1>2, <1>5, <1>6
<1> QED
  BY <1>4, <1>6, <1>7

LEMMA WrittenFacts ==
  ASSUME NEW d \in [1 .. 38 -> Five]
  PROVE  /\ Written(d) \in Seq(Printed) /\ Len(Written(d)) = 43
         /\ \A i \in 1 .. 4 : Written(d)[i] = Hrp[i]
         /\ Written(d)[5] = One
         /\ \A i \in 1 .. 38 : Written(d)[5 + i] = CHARSET[d[i] + 1]
<1> DEFINE tail == [i \in DOMAIN d |-> CHARSET[d[i] + 1]]
<1>1. tail \in [1 .. 38 -> Printed] /\ \A i \in 1 .. 38 : tail[i] = CHARSET[d[i] + 1]
  <2>1. DOMAIN d = 1 .. 38
    OBVIOUS
  <2>2. ASSUME NEW i \in 1 .. 38 PROVE CHARSET[d[i] + 1] \in Printed
    <3>1. d[i] \in Five
      OBVIOUS
    <3>2. CHARSET[d[i] + 1] \in 48 .. 57 \cup 97 .. 122
      BY <3>1, Characters
    <3> QED
      BY <3>2 DEF Printed
  <2> QED
    BY <2>1, <2>2
<1>2. Written(d) = Begin \o tail
  BY DEF Written
<1>3. Begin \in Seq(Printed) /\ Len(Begin) = 5
  BY BeginFacts
<1> HIDE DEF tail
<1>4. tail \in Seq(Printed) /\ Len(tail) = 38
  <2>1. 38 \in Nat
    OBVIOUS
  <2>2. tail \in [1 .. 38 -> Printed]
    BY <1>1
  <2> QED
    BY <2>1, <2>2, LenIs
<1>5. /\ Written(d) \in Seq(Printed) /\ Len(Written(d)) = Len(Begin) + Len(tail)
      /\ \A i \in 1 .. Len(Begin) + Len(tail) :
           Written(d)[i] = IF i <= Len(Begin) THEN Begin[i] ELSE tail[i - Len(Begin)]
  <2>1. Begin \in Seq(Printed) /\ tail \in Seq(Printed)
    BY <1>3, <1>4
  <2> QED
    BY <1>2, <2>1, ConcatProperties, Zenon
<1>6. /\ Len(Written(d)) = 43
      /\ \A i \in 1 .. 43 : Written(d)[i] = IF i <= 5 THEN Begin[i] ELSE tail[i - 5]
  BY <1>3, <1>4, <1>5
<1>7. ASSUME NEW i \in 1 .. 38 PROVE Written(d)[5 + i] = CHARSET[d[i] + 1]
  <2>1. 5 + i \in 1 .. 43 /\ (5 + i) - 5 = i /\ ~ (5 + i <= 5)
    OBVIOUS
  <2> QED
    BY <1>1, <1>6, <2>1
<1>8. Written(d)[5] = One
  <2>1. 5 \in 1 .. 43 /\ 5 <= 5
    OBVIOUS
  <2> QED
    BY <1>6, <2>1, BeginFacts
<1>9. ASSUME NEW i \in 1 .. 4 PROVE Written(d)[i] = Hrp[i]
  <2>1. i \in 1 .. 43 /\ i <= 5
    OBVIOUS
  <2>2. Written(d)[i] = Begin[i]
    BY <1>6, <2>1
  <2> QED
    BY <2>2, BeginFacts
<1> QED
  BY <1>5, <1>6, <1>7, <1>8, <1>9

\* A reader of these characters gets the prefix and all but the last six digits
\* back, if the checksum is right.
LEMMA ReadsBack ==
  ASSUME NEW d \in [1 .. 38 -> Five], NEW str, str = Written(d),
         VerifyChecksum(Hrp, d) = "BECH32"
  PROVE  /\ d = [i \in 1 .. 38 |-> Rev(str[5 + i])]
         /\ Decode(str).encoding = "BECH32" /\ Decode(str).hrp = Hrp
         /\ Decode(str).data = SubSeq(d, 1, 32)
<1>1. /\ str \in Seq(Printed) /\ Len(str) = 43
      /\ \A i \in 1 .. 4 : str[i] = Hrp[i]
      /\ str[5] = One
      /\ \A i \in 1 .. 38 : str[5 + i] = CHARSET[d[i] + 1]
  BY WrittenFacts
<1>2. ASSUME NEW i \in 1 .. 38
      PROVE  /\ Rev(str[5 + i]) = d[i] /\ str[5 + i] # One
             /\ str[5 + i] \in 48 .. 57 \cup 97 .. 122
  <2>1. d[i] \in Five
    OBVIOUS
  <2> QED
    BY <1>1, <2>1, Characters
<1>3. d = [i \in 1 .. 38 |-> Rev(str[5 + i])]
  BY <1>2
<1>4. ASSUME NEW i \in 1 .. 4 PROVE Hrp[i] \in Lower /\ Hrp[i] # One /\ LowerCase(Hrp[i]) = Hrp[i]
  <2>1. i = 1 \/ i = 2 \/ i = 3 \/ i = 4
    OBVIOUS
  <2> QED
    BY <2>1 DEF Hrp, Lower, One, LowerCase, Upper
<1>5. ASSUME NEW i \in 1 .. 43
      PROVE  str[i] \notin Upper /\ (str[i] = One => i = 5)
  <2>1. CASE i \in 1 .. 4
    <3>1. str[i] = Hrp[i] /\ Hrp[i] \in Lower /\ Hrp[i] # One
      BY <1>1, <1>4, <2>1
    <3>2. \A c \in Lower : c \notin Upper
      BY DEF Lower, Upper
    <3> QED
      BY <3>1, <3>2
  <2>2. CASE i = 5
    <3>1. One \notin Upper /\ str[5] = One
      BY <1>1 DEF One, Upper
    <3> QED
      BY <2>2, <3>1
  <2>3. CASE i - 5 \in 1 .. 38
    <3>1. 5 + (i - 5) = i
      OBVIOUS
    <3>2. str[i] # One /\ str[i] \in 48 .. 57 \cup 97 .. 122
      BY <1>2, <2>3, <3>1
    <3> QED
      BY <3>2 DEF Upper
  <2> QED
    BY <2>1, <2>2, <2>3
<1>6. SelectLastInSeq(str, LAMBDA c : c = One) = 5
  <2> DEFINE I == {i \in 1 .. Len(str) : str[i] = One}
  <2>1. I = {5}
    <3>1. I \subseteq {5}
      BY <1>1, <1>5
    <3>2. 5 \in I
      BY <1>1
    <3> HIDE DEF I
    <3> QED
      BY <3>1, <3>2
  <2>2. Max({5}) = 5
    BY DEF Max
  <2>3. SelectLastInSeq(str, LAMBDA c : c = One) = IF I # {} THEN Max(I) ELSE 0
    BY DEF SelectLastInSeq
  <2> HIDE DEF I
  <2> QED
    BY <2>1, <2>2, <2>3
<1>7. CheckCharacters(str)
  <2>1. DOMAIN str = 1 .. 43 /\ \A i \in 1 .. 43 : str[i] \in Printed
    <3>1. str \in Seq(Printed) /\ Len(str) = 43
      BY <1>1
    <3>2. str \in [1 .. Len(str) -> Printed]
      BY <3>1, LenProperties
    <3> QED
      BY <3>1, <3>2
  <2>2. ToSet(str) \subseteq Printed
    BY <2>1 DEF ToSet
  <2>3. ToSet(str) \cap Upper = {}
    BY <1>5, <2>1 DEF ToSet
  <2> QED
    BY <2>2, <2>3 DEF CheckCharacters, Printed
<1>8. [i \in 1 .. 4 |-> LowerCase(str[i])] = Hrp
  <2>1. \A i \in 1 .. 4 : LowerCase(str[i]) = Hrp[i]
    BY <1>1, <1>4
  <2>2. Hrp = [i \in 1 .. 4 |-> Hrp[i]]
    BY DEF Hrp
  <2> QED
    BY <2>1, <2>2
<1>10. -1 \notin ToSet(d) /\ Len(d) = 38
  <2>1. 38 \in Nat
    OBVIOUS
  <2>2. Len(d) = 38
    BY <2>1, LenIs
  <2>3. \A i \in 1 .. 38 : d[i] # -1
    BY DEF Five
  <2>4. -1 \notin ToSet(d)
    BY <2>3 DEF ToSet
  <2> QED
    BY <2>2, <2>4
<1>11. Decode(str) = [encoding |-> "BECH32", hrp |-> Hrp, data |-> SubSeq(d, 1, 32)]
  <2> DEFINE pos    == SelectLastInSeq(str, LAMBDA c : c = One)
             values == [i \in 1 .. Len(str) - pos |-> Rev(str[pos + i])]
             hrp    == [i \in 1 .. pos - 1 |-> LowerCase(str[i])]
             result == VerifyChecksum(hrp, values)
  <2>1. Decode(str) = IF \/ ~ CheckCharacters(str)
                         \/ Len(str) > 90 \/ pos <= 1 \/ pos + 6 > Len(str)
                         \/ -1 \in ToSet(values)
                         \/ result = "INVALID"
                      THEN Failed
                      ELSE [encoding |-> result, hrp |-> hrp,
                            data |-> SubSeq(values, 1, Len(values) - 6)]
    BY DEF Decode
  <2>2. pos = 5
    BY <1>6
  <2> HIDE DEF pos
  <2>3. values = d
    BY <1>1, <1>3, <2>2
  <2>4. hrp = Hrp
    BY <1>8, <2>2
  <2> HIDE DEF values, hrp
  <2>5. result = "BECH32"
    BY <2>3, <2>4
  <2> HIDE DEF result
  <2>6. ~ (\/ ~ CheckCharacters(str)
           \/ Len(str) > 90 \/ pos <= 1 \/ pos + 6 > Len(str)
           \/ -1 \in ToSet(values)
           \/ result = "INVALID")
    BY <1>1, <1>7, <1>10, <2>2, <2>3, <2>5
  <2>7. Len(values) - 6 = 32
    BY <1>10, <2>3
  <2> QED
    BY <2>1, <2>3, <2>4, <2>5, <2>6, <2>7
<1> QED
  BY <1>3, <1>11

------------------------------------------------------------------------------
(* The regrouping of the digest.                                            *)

Bit == {0, 1}
Loop == [acc : [1 .. 32 -> Bit], bits : 0 .. 4, out : Seq(Five)]

LEMMA BitsType ==
  ASSUME NEW b \in Nat
  PROVE  Bits(b, 8) \in [1 .. 8 -> Bit]
<1>1. \A i \in 1 .. 8 : i = 1 \/ i = 2 \/ i = 3 \/ i = 4 \/ i = 5 \/ i = 6 \/ i = 7 \/ i = 8
  OBVIOUS
<1>2. \A i \in 1 .. 8 : Weights[i] \in Nat \ {0}
  BY <1>1 DEF Weights
<1>3. \A i \in 1 .. 8 : 8 - 8 + i = i
  OBVIOUS
<1>4. ASSUME NEW i \in 1 .. 8 PROVE (b \div Weights[8 - 8 + i]) % 2 \in Bit
  <2>1. b \div Weights[i] \in Int
    BY <1>2
  <2> QED
    BY <1>3, <2>1 DEF Bit
<1> QED
  BY <1>4 DEF Bits

\* Five bits of the accumulator make a digit that has those bits.
LEMMA Low5Bits ==
  ASSUME NEW acc \in [1 .. 32 -> Bit], NEW s \in 0 .. 7
  PROVE  /\ Low5(acc, s) \in Five
         /\ \A m \in 0 .. 4 : Bits(Low5(acc, s), 5)[m + 1] = acc[28 - s + m]
<1> DEFINE b0 == acc[32 - s - 0]
           b1 == acc[32 - s - 1]
           b2 == acc[32 - s - 2]
           b3 == acc[32 - s - 3]
           b4 == acc[32 - s - 4]
           x  == Low5(acc, s)
<1>1. b0 \in Bit /\ b1 \in Bit /\ b2 \in Bit /\ b3 \in Bit /\ b4 \in Bit
  OBVIOUS
<1>2. x = OfBits(b0, b1, b2, b3, b4)
  BY DEF Low5, OfBits
<1>3. /\ b4 = acc[28 - s + 0] /\ b3 = acc[28 - s + 1] /\ b2 = acc[28 - s + 2]
      /\ b1 = acc[28 - s + 3] /\ b0 = acc[28 - s + 4]
  OBVIOUS
<1> HIDE DEF b0, b1, b2, b3, b4, x
<1>4. /\ x \in Five
      /\ (x \div 1) % 2 = b0 /\ (x \div 2) % 2 = b1 /\ (x \div 4) % 2 = b2
      /\ (x \div 8) % 2 = b3 /\ (x \div 16) % 2 = b4
  BY <1>1, <1>2, BitsOf, BitsOf2 DEF Bit
<1>5. ASSUME NEW m \in 0 .. 4 PROVE Bits(x, 5)[m + 1] = acc[28 - s + m]
  <2>1. m + 1 \in 1 .. 5 /\ (m = 0 \/ m = 1 \/ m = 2 \/ m = 3 \/ m = 4)
    OBVIOUS
  <2>2. Bits(x, 5)[m + 1] = (x \div Weights[8 - 5 + (m + 1)]) % 2
    BY <2>1 DEF Bits
  <2>3. /\ m = 0 => Weights[8 - 5 + (m + 1)] = 16
        /\ m = 1 => Weights[8 - 5 + (m + 1)] = 8
        /\ m = 2 => Weights[8 - 5 + (m + 1)] = 4
        /\ m = 3 => Weights[8 - 5 + (m + 1)] = 2
        /\ m = 4 => Weights[8 - 5 + (m + 1)] = 1
    BY DEF Weights
  <2> QED
    BY <1>3, <1>4, <2>1, <2>2, <2>3
<1> QED
  BY <1>4, <1>5 DEF x

LEMMA ShiftedFacts ==
  ASSUME NEW acc \in [1 .. 32 -> Bit], NEW b \in Nat
  PROVE  /\ Shifted(acc, b) \in [1 .. 32 -> Bit]
         /\ \A i \in 1 .. 24 : Shifted(acc, b)[i] = acc[i + 8]
         /\ \A i \in 25 .. 32 : Shifted(acc, b)[i] = Bits(b, 8)[i - 24]
<1> DEFINE left == SubSeq(acc, 9, 32)
<1>1. left \in Seq(Bit) /\ Len(left) = 24 /\ \A i \in 1 .. 24 : left[i] = acc[i + 8]
  <2>1. acc \in Seq(Bit) /\ Len(acc) = 32
    <3>1. 32 \in Nat
      OBVIOUS
    <3> QED
      BY <3>1, LenIs
  <2> QED
    BY <2>1
<1>2. Bits(b, 8) \in Seq(Bit) /\ Len(Bits(b, 8)) = 8
  BY BitsType, LenIs
<1>3. Shifted(acc, b) = left \o Bits(b, 8)
  BY DEF Shifted
<1> HIDE DEF left
<1>4. /\ Shifted(acc, b) \in Seq(Bit)
      /\ Len(Shifted(acc, b)) = Len(left) + Len(Bits(b, 8))
      /\ \A i \in 1 .. Len(left) + Len(Bits(b, 8)) :
           Shifted(acc, b)[i] = IF i <= Len(left) THEN left[i] ELSE Bits(b, 8)[i - Len(left)]
  <2>1. left \in Seq(Bit) /\ Bits(b, 8) \in Seq(Bit)
    BY <1>1, <1>2
  <2> QED
    BY <1>3, <2>1, ConcatProperties, Zenon
<1>5. /\ Len(Shifted(acc, b)) = 32
      /\ \A i \in 1 .. 32 : Shifted(acc, b)[i] = IF i <= 24 THEN left[i] ELSE Bits(b, 8)[i - 24]
  <2>1. Len(left) = 24 /\ Len(Bits(b, 8)) = 8 /\ 24 + 8 = 32
    BY <1>1, <1>2
  <2> QED
    BY <1>4, <2>1
<1>6. Shifted(acc, b) \in [1 .. 32 -> Bit]
  BY <1>4, <1>5, LenProperties
<1> QED
  BY <1>1, <1>5, <1>6

LEMMA RegroupCount ==
  ASSUME NEW s \in 0 .. 4
  PROVE  /\ (s + 8) \div 5 \in 1 .. 2 /\ (s + 8) % 5 \in 0 .. 4
         /\ \A i \in 1 .. (s + 8) \div 5 : (s + 8) - 5 * i \in 0 .. 7
<1>1. s = 0 \/ s = 1 \/ s = 2 \/ s = 3 \/ s = 4
  OBVIOUS
<1> QED
  BY <1>1

LEMMA RegroupIs ==
  ASSUME NEW r, NEW b
  PROVE  Regroup(r, b) =
           [acc |-> Shifted(r.acc, b), bits |-> (r.bits + 8) % 5,
            out |-> r.out \o [i \in 1 .. (r.bits + 8) \div 5 |->
                                Low5(Shifted(r.acc, b), (r.bits + 8) - 5 * i)]]
BY Zenon DEF Regroup

\* What one round does, which adds one digit or two.
OneRound(next, acc, s, g, L, r) ==
  /\ next \in Loop /\ g \in 1 .. 2 /\ L \in Nat
  /\ next.acc = acc /\ next.bits = (s + 8) % 5
  /\ Len(next.out) = L + g
  /\ \A i \in 1 .. L : next.out[i] = r.out[i]
  /\ \A i \in 1 .. g : /\ (s + 8) - 5 * i \in 0 .. 7
                       /\ next.out[L + i] = Low5(acc, (s + 8) - 5 * i)

LEMMA RegroupFacts ==
  ASSUME NEW r \in Loop, NEW b \in Nat
  PROVE  OneRound(Regroup(r, b), Shifted(r.acc, b), r.bits, (r.bits + 8) \div 5, Len(r.out), r)
<1> SUFFICES ASSUME NEW acc, acc = Shifted(r.acc, b),
                    NEW g, g = (r.bits + 8) \div 5, NEW L, L = Len(r.out)
             PROVE  OneRound(Regroup(r, b), acc, r.bits, g, L, r)
  OBVIOUS
<1>1. r.acc \in [1 .. 32 -> Bit] /\ r.bits \in 0 .. 4 /\ r.out \in Seq(Five)
  BY DEF Loop
<1>2. acc \in [1 .. 32 -> Bit]
  BY <1>1, ShiftedFacts
<1>3. g \in 1 .. 2 /\ L \in Nat
  <2>1. g \in 1 .. 2
    BY <1>1, RegroupCount, Zenon
  <2>2. L \in Nat
    BY <1>1, LenProperties, Zenon
  <2> QED
    BY <2>1, <2>2
<1>4. \A i \in 1 .. g : (r.bits + 8) - 5 * i \in 0 .. 7
  BY <1>1, RegroupCount, Zenon
<1> DEFINE more == [i \in 1 .. g |-> Low5(acc, (r.bits + 8) - 5 * i)]
<1>5. more \in [1 .. g -> Five]
  BY <1>2, <1>4, Low5Bits
<1>6. more \in Seq(Five) /\ Len(more) = g
  <2>1. g \in Nat
    BY <1>3
  <2> HIDE DEF more
  <2> QED
    BY <1>5, <2>1, LenIs
<1>7. Regroup(r, b) = [acc |-> acc, bits |-> (r.bits + 8) % 5, out |-> r.out \o more]
  <2>1. Regroup(r, b) =
          [acc |-> Shifted(r.acc, b), bits |-> (r.bits + 8) % 5,
           out |-> r.out \o [i \in 1 .. (r.bits + 8) \div 5 |->
                               Low5(Shifted(r.acc, b), (r.bits + 8) - 5 * i)]]
    BY RegroupIs, Zenon
  <2>2. more = [i \in 1 .. (r.bits + 8) \div 5 |->
                  Low5(Shifted(r.acc, b), (r.bits + 8) - 5 * i)]
    OBVIOUS
  <2> HIDE DEF more
  <2> QED
    BY <2>1, <2>2, Zenon
<1>8. \A i \in 1 .. g : more[i] = Low5(acc, (r.bits + 8) - 5 * i)
  OBVIOUS
<1> HIDE DEF more
<1> DEFINE out == r.out \o more
<1>9. /\ out \in Seq(Five) /\ Len(out) = Len(r.out) + Len(more)
      /\ \A i \in 1 .. Len(r.out) + Len(more) :
           out[i] = IF i <= Len(r.out) THEN r.out[i] ELSE more[i - Len(r.out)]
  <2>1. r.out \in Seq(Five) /\ more \in Seq(Five)
    BY <1>1, <1>6
  <2> QED
    BY <2>1, ConcatProperties, Zenon
<1>10. /\ Regroup(r, b).acc = acc /\ Regroup(r, b).bits = (r.bits + 8) % 5
       /\ Regroup(r, b).out = out
  BY <1>7
<1> HIDE DEF out
<1>11. /\ Len(out) = L + g
       /\ \A i \in 1 .. L + g : out[i] = IF i <= L THEN r.out[i] ELSE more[i - L]
  BY <1>6, <1>9
<1>12. /\ \A i \in 1 .. L : out[i] = r.out[i]
       /\ \A i \in 1 .. g : out[L + i] = more[i]
  <2>1. ASSUME NEW i \in 1 .. L PROVE out[i] = r.out[i]
    BY <1>3, <1>11
  <2>2. ASSUME NEW i \in 1 .. g PROVE out[L + i] = more[i]
    <3>1. L + i \in 1 .. L + g /\ ~ (L + i <= L) /\ (L + i) - L = i
      BY <1>3
    <3> QED
      BY <1>11, <3>1
  <2> QED
    BY <2>1, <2>2
<1>13. Regroup(r, b) \in Loop
  <2>1. (r.bits + 8) % 5 \in 0 .. 4
    BY <1>1, RegroupCount, Zenon
  <2>2. Regroup(r, b) = [acc |-> acc, bits |-> (r.bits + 8) % 5, out |-> out]
    BY <1>7 DEF out
  <2> QED
    BY <1>2, <1>9, <2>1, <2>2 DEF Loop
<1> QED
  BY <1>3, <1>4, <1>8, <1>10, <1>11, <1>12, <1>13 DEF OneRound

Digest == [1 .. 20 -> 0 .. 255]
Start == [acc |-> Zeros(32), bits |-> 0, out |-> <<>>]

RegroupRun(c, bytes) ==
  /\ c \in [0 .. 20 -> Loop] /\ c[0] = Start
  /\ \A n \in 1 .. 20 : c[n] = Regroup(c[n - 1], bytes[n])

LEMMA RegroupRuns ==
  ASSUME NEW bytes \in Digest
  PROVE  \E c : RegroupRun(c, bytes) /\ FiveBitAddr(bytes) = c[20].out
<1> DEFINE step == [s \in Loop \X (1 .. 20) |-> Regroup(s[1], bytes[s[2]])]
           Eq(c) == c = [n \in 0 .. 20 |-> IF n = 0 THEN Start
                                                   ELSE Regroup(c[n - 1], bytes[n])]
<1>1. Start \in Loop
  <2>1. Zeros(32) \in [1 .. 32 -> Bit]
    BY DEF Zeros, Bit
  <2>2. <<>> \in Seq(Five)
    OBVIOUS
  <2> QED
    BY <2>1, <2>2 DEF Start, Loop
<1>2. step \in [Loop \X (1 .. 20) -> Loop]
  <2>1. ASSUME NEW s \in Loop \X (1 .. 20) PROVE Regroup(s[1], bytes[s[2]]) \in Loop
    <3>1. s[1] \in Loop /\ s[2] \in 1 .. 20
      OBVIOUS
    <3>2. bytes[s[2]] \in 0 .. 255
      BY <3>1 DEF Digest
    <3>3. \A b \in 0 .. 255 : b \in Nat
      OBVIOUS
    <3> QED
      BY <3>1, <3>2, <3>3, RegroupFacts DEF OneRound
  <2> QED
    BY <2>1
<1>3. \E c : RunOf(c, 20, Loop, Start, step)
  <2>1. 20 \in Nat
    OBVIOUS
  <2> HIDE DEF step
  <2> QED
    BY <1>1, <1>2, <2>1, RunExists
<1>4. PICK c \in [0 .. 20 -> Loop] :
        c[0] = Start /\ \A n \in 1 .. 20 : c[n] = step[<<c[n - 1], n>>]
  BY <1>3 DEF RunOf
<1>5. ASSUME NEW n \in 1 .. 20 PROVE c[n] = Regroup(c[n - 1], bytes[n])
  <2>1. n - 1 \in 0 .. 20
    OBVIOUS
  <2>2. <<c[n - 1], n>> \in Loop \X (1 .. 20)
    BY <1>4, <2>1
  <2>3. step[<<c[n - 1], n>>] = Regroup(c[n - 1], bytes[n])
    BY <2>2
  <2> QED
    BY <1>4, <2>3
<1> HIDE DEF step
<1>6. Eq(c)
  BY <1>4, <1>5
<1>7. FiveBitAddr(bytes) = (CHOOSE d : Eq(d))[20].out
  <2>1. Len(bytes) = 20
    <3>1. 20 \in Nat
      OBVIOUS
    <3> QED
      BY <3>1, LenIs DEF Digest
  <2> QED
    BY <2>1, Zenon DEF FiveBitAddr, Start
<1>8. PICK d : Eq(d) /\ FiveBitAddr(bytes) = d[20].out
  <2> HIDE DEF Eq
  <2> QED
    BY <1>6, <1>7
<1>9. d[0] = Start /\ \A n \in 1 .. 20 : d[n] = Regroup(d[n - 1], bytes[n])
  BY <1>8
<1> HIDE DEF Eq
<1>10. d[20] = c[20]
  <2> DEFINE P == {n \in 0 .. 20 : d[n] = c[n]}
  <2>1. 0 \in P
    BY <1>4, <1>9
  <2>2. ASSUME NEW n \in 0 .. 20 - 1, n \in P PROVE n + 1 \in P
    <3>1. n + 1 \in 1 .. 20 /\ n + 1 \in 0 .. 20 /\ (n + 1) - 1 = n
      OBVIOUS
    <3>2. d[n] = c[n]
      BY <2>2
    <3> QED
      BY <1>5, <1>9, <3>1, <3>2
  <2> HIDE DEF P
  <2>3. 20 \in Nat
    OBVIOUS
  <2>4. 0 .. 20 \subseteq P
    BY <2>1, <2>2, <2>3, Induct
  <2> QED
    BY <2>4 DEF P
<1>11. RegroupRun(c, bytes)
  BY <1>4, <1>5 DEF RegroupRun
<1> QED
  BY <1>8, <1>10, <1>11

\* After n bytes the accumulator ends with the last of their bits, those that are
\* in no digit yet among them, and the digits have the others.
Regrouped(r, n, bytes) ==
  /\ r.bits = (8 * n) % 5 /\ Len(r.out) = (8 * n) \div 5
  /\ \A j \in 0 .. 31 : j < 8 * n => r.acc[32 - j] = BitAt(bytes, 8, 8 * n - 1 - j)
  /\ \A k \in 0 .. 5 * Len(r.out) - 1 : BitAt(r.out, 5, k) = BitAt(bytes, 8, k)

LEMMA RegroupKeepsBits ==
  ASSUME NEW bytes \in Digest, NEW n \in 0 .. 19, NEW r \in Loop, Regrouped(r, n, bytes)
  PROVE  Regrouped(Regroup(r, bytes[n + 1]), n + 1, bytes)
<1> DEFINE b == bytes[n + 1]
           D(k) == BitAt(bytes, 8, k)
           s == r.bits
           L == Len(r.out)
           g == (s + 8) \div 5
           acc == Shifted(r.acc, b)
           next == Regroup(r, b)
<1>1. b \in Nat
  <2>1. n + 1 \in 1 .. 20
    OBVIOUS
  <2>2. b \in 0 .. 255
    BY <2>1 DEF Digest
  <2> HIDE DEF b
  <2> QED
    BY <2>2
<1>2. /\ next \in Loop /\ g \in 1 .. 2 /\ L \in Nat
      /\ next.acc = acc /\ next.bits = (s + 8) % 5
      /\ Len(next.out) = L + g
      /\ \A i \in 1 .. L : next.out[i] = r.out[i]
      /\ \A i \in 1 .. g : /\ (s + 8) - 5 * i \in 0 .. 7
                           /\ next.out[L + i] = Low5(acc, (s + 8) - 5 * i)
  <2>1. OneRound(next, acc, s, g, L, r)
    BY <1>1, RegroupFacts
  <2> HIDE DEF b, s, L, g, acc, next
  <2> QED
    BY <2>1 DEF OneRound
<1>3. /\ s = (8 * n) % 5 /\ L = (8 * n) \div 5
      /\ \A j \in 0 .. 31 : j < 8 * n => r.acc[32 - j] = D(8 * n - 1 - j)
      /\ \A k \in 0 .. 5 * L - 1 : BitAt(r.out, 5, k) = D(k)
  BY DEF Regrouped
<1>4. s \in 0 .. 4 /\ r.acc \in [1 .. 32 -> Bit]
  BY DEF Loop
<1>5. /\ acc \in [1 .. 32 -> Bit]
      /\ \A i \in 1 .. 24 : acc[i] = r.acc[i + 8]
      /\ \A i \in 25 .. 32 : acc[i] = Bits(b, 8)[i - 24]
  BY <1>1, <1>4, ShiftedFacts
<1>6. ASSUME NEW i \in 0 .. 7 PROVE D(8 * n + i) = Bits(b, 8)[i + 1]
  <2>1. (8 * n + i) \div 8 = n /\ (8 * n + i) % 8 = i
    OBVIOUS
  <2> QED
    BY <2>1 DEF BitAt
<1> HIDE DEF b, D, s, L, g, acc, next
<1>7. 8 * n = 5 * L + s /\ (s + 8) % 5 = (8 * (n + 1)) % 5 /\ L + g = (8 * (n + 1)) \div 5
  BY <1>3 DEF g
<1>8. ASSUME NEW j \in 0 .. 31, j < 8 * (n + 1)
      PROVE  acc[32 - j] = D(8 * (n + 1) - 1 - j)
  <2>1. CASE j < 8
    <3>1. /\ 32 - j \in 25 .. 32 /\ (32 - j) - 24 = (7 - j) + 1 /\ 7 - j \in 0 .. 7
          /\ 8 * n + (7 - j) = 8 * (n + 1) - 1 - j
      BY <2>1
    <3>2. acc[32 - j] = Bits(b, 8)[(7 - j) + 1]
      BY <1>5, <3>1
    <3>3. D(8 * n + (7 - j)) = Bits(b, 8)[(7 - j) + 1]
      BY <1>6, <3>1
    <3> QED
      BY <3>1, <3>2, <3>3
  <2>2. CASE j >= 8
    <3>1. /\ 32 - j \in 1 .. 24 /\ (32 - j) + 8 = 32 - (j - 8) /\ j - 8 \in 0 .. 31
          /\ j - 8 < 8 * n /\ 8 * n - 1 - (j - 8) = 8 * (n + 1) - 1 - j
      BY <1>8, <2>2
    <3>2. acc[32 - j] = r.acc[32 - (j - 8)]
      BY <1>5, <3>1
    <3>3. r.acc[32 - (j - 8)] = D(8 * n - 1 - (j - 8))
      BY <1>3, <3>1
    <3> QED
      BY <3>1, <3>2, <3>3
  <2> QED
    BY <2>1, <2>2
<1>9. ASSUME NEW k \in 0 .. 5 * (L + g) - 1 PROVE BitAt(next.out, 5, k) = D(k)
  <2> DEFINE x == k \div 5
             m == k % 5
  <2>1. k = 5 * x + m /\ x \in 0 .. L + g - 1 /\ m \in 0 .. 4
    BY <1>2
  <2>2. \A o : BitAt(o, 5, k) = Bits(o[x + 1], 5)[m + 1]
    BY DEF BitAt
  <2> HIDE DEF x, m
  <2>3. CASE x < L
    <3>1. k \in 0 .. 5 * L - 1 /\ x + 1 \in 1 .. L
      BY <1>2, <2>1, <2>3
    <3>2. next.out[x + 1] = r.out[x + 1]
      BY <1>2, <3>1
    <3> QED
      BY <1>3, <2>2, <3>1, <3>2
  <2>4. CASE x >= L
    <3> DEFINE i == x + 1 - L
               low == (s + 8) - 5 * i
    <3>1. i \in 1 .. g /\ L + i = x + 1
      <4>1. g \in 1 .. 2 /\ L \in Nat
        BY <1>2
      <4>2. x \in 0 .. L + g - 1
        BY <2>1
      <4> QED
        BY <2>4, <4>1, <4>2
    <3>2. low \in 0 .. 7 /\ next.out[x + 1] = Low5(acc, low)
      BY <1>2, <3>1
    <3>3. low = (s + 8) - 5 * (x + 1 - L)
      OBVIOUS
    <3> HIDE DEF i, low
    <3>4. Bits(Low5(acc, low), 5)[m + 1] = acc[28 - low + m]
      BY <1>5, <2>1, <3>2, Low5Bits
    <3> DEFINE j == low + 4 - m
    <3>5. j \in 0 .. 31 /\ 32 - j = 28 - low + m
      BY <2>1, <3>2
    <3>6. 8 * (n + 1) - 1 - j = k /\ j < 8 * (n + 1)
      <4>1. L \in Nat /\ s \in Nat /\ x \in Nat /\ m \in Nat
        BY <1>2, <1>4, <2>1
      <4>2. 8 * n = 5 * L + s /\ k = 5 * x + m
        BY <1>7, <2>1
      <4> QED
        BY <3>3, <4>1, <4>2
    <3> HIDE DEF j
    <3>7. acc[32 - j] = D(8 * (n + 1) - 1 - j)
      BY <1>8, <3>5, <3>6
    <3> QED
      BY <2>2, <3>2, <3>4, <3>5, <3>6, <3>7
  <2> QED
    BY <1>2, <2>1, <2>3, <2>4
<1>10. Regrouped(next, n + 1, bytes)
  <2>1. next.bits = (8 * (n + 1)) % 5 /\ Len(next.out) = (8 * (n + 1)) \div 5
    BY <1>2, <1>7
  <2>2. Len(next.out) = L + g
    BY <1>2
  <2> QED
    BY <1>2, <1>8, <1>9, <2>1, <2>2 DEF Regrouped, D
<1> QED
  BY <1>10 DEF next, b

LEMMA FiveBitAddrFacts ==
  ASSUME NEW bytes \in Digest
  PROVE  /\ FiveBitAddr(bytes) \in Seq(Five) /\ Len(FiveBitAddr(bytes)) = 32
         /\ \A k \in 0 .. 159 : BitAt(FiveBitAddr(bytes), 5, k) = BitAt(bytes, 8, k)
<1>1. PICK c : RegroupRun(c, bytes) /\ FiveBitAddr(bytes) = c[20].out
  BY RegroupRuns
<1>2. /\ c \in [0 .. 20 -> Loop] /\ c[0] = Start
      /\ \A n \in 1 .. 20 : c[n] = Regroup(c[n - 1], bytes[n])
  BY <1>1 DEF RegroupRun
<1> DEFINE P == {n \in 0 .. 20 : Regrouped(c[n], n, bytes)}
<1>3. 0 \in P
  <2>1. Start.bits = 0 /\ Start.out = <<>>
    BY DEF Start
  <2>2. Len(<<>>) = 0 /\ 8 * 0 = 0 /\ 0 % 5 = 0 /\ 0 \div 5 = 0
    OBVIOUS
  <2>3. (\A j \in 0 .. 31 : ~ (j < 0)) /\ (\A k \in 0 .. 5 * 0 - 1 : FALSE)
    OBVIOUS
  <2>4. Regrouped(c[0], 0, bytes)
    BY <1>2, <2>1, <2>2, <2>3 DEF Regrouped
  <2> QED
    BY <2>4
<1>4. ASSUME NEW n \in 0 .. 20 - 1, n \in P PROVE n + 1 \in P
  <2>1. n + 1 \in 1 .. 20 /\ n + 1 \in 0 .. 20 /\ (n + 1) - 1 = n /\ n \in 0 .. 19 /\ n \in 0 .. 20
    OBVIOUS
  <2>2. c[n + 1] = Regroup(c[n], bytes[n + 1]) /\ c[n] \in Loop
    BY <1>2, <2>1
  <2>3. Regrouped(c[n], n, bytes)
    BY <1>4
  <2>4. Regrouped(c[n + 1], n + 1, bytes)
    BY <2>1, <2>2, <2>3, RegroupKeepsBits
  <2> QED
    BY <2>1, <2>4
<1>5. Regrouped(c[20], 20, bytes)
  <2> HIDE DEF P
  <2>1. 20 \in Nat
    OBVIOUS
  <2>2. 0 .. 20 \subseteq P
    BY <1>3, <1>4, <2>1, Induct
  <2>3. 20 \in P
    BY <2>2
  <2> QED
    BY <2>3 DEF P
<1>6. c[20].out \in Seq(Five)
  BY <1>2 DEF Loop
<1>7. (8 * 20) \div 5 = 32 /\ 5 * 32 - 1 = 159
  OBVIOUS
<1> QED
  BY <1>1, <1>5, <1>6, <1>7 DEF Regrouped

------------------------------------------------------------------------------
(* The address.                                                             *)

LEMMA Constant == EncodingConstant("BECH32") = Groups(1)
BY SMT DEF EncodingConstant

LEMMA Associated ==
  ASSUME NEW s \in Seq(Five), NEW t \in Seq(Five), NEW u \in Seq(Five)
  PROVE  (s \o t) \o u = s \o (t \o u)
BY ConcatAssociative

LEMMA FirstPart ==
  ASSUME NEW s \in Seq(Five), Len(s) = 38, NEW t \in Seq(Five), Len(t) = 32,
         \A i \in 1 .. 32 : s[i] = t[i]
  PROVE  SubSeq(s, 1, 32) = t
<1> DEFINE u == SubSeq(s, 1, 32)
<1>1. u \in Seq(Five)
  <2>1. 1 \in Int /\ 32 \in Int /\ \A i \in 1 .. 32 : s[i] \in Five
    <3>1. s \in [1 .. Len(s) -> Five]
      BY LenProperties
    <3> QED
      BY <3>1
  <2> QED
    BY <2>1, SubSeqProperties
<1>2. Len(u) = 32 /\ \A i \in 1 .. 32 : u[i] = s[i]
  OBVIOUS
<1> HIDE DEF u
<1>3. Len(u) = Len(t) /\ \A i \in 1 .. Len(u) : u[i] = t[i]
  BY <1>2
<1>4. u = t
  BY <1>1, <1>3, SeqEqual
<1> QED
  BY <1>4 DEF u

LEMMA AddressReads ==
  ASSUME NEW bytes \in Digest, NEW str, str = Address(bytes)
  PROVE  /\ Decode(str).encoding = "BECH32" /\ Decode(str).hrp = Hrp
         /\ Len(Decode(str).data) = 32
         /\ \A k \in 0 .. 159 : BitAt(Decode(str).data, 5, k) = BitAt(bytes, 8, k)
         /\ Remainder(ExpandHRP(Hrp) \o [i \in 1 .. 38 |-> Rev(str[5 + i])]) = Groups(1)
<1> DEFINE values == FiveBitAddr(bytes)
           chk == CreateChecksum("BECH32", Hrp, values)
           base == ExpandHRP(Hrp) \o values
           d == values \o chk
<1>1. /\ values \in Seq(Five) /\ Len(values) = 32
      /\ \A k \in 0 .. 159 : BitAt(values, 5, k) = BitAt(bytes, 8, k)
  BY FiveBitAddrFacts
<1>2. chk = Plus(PolyMod(base \o Groups(0)), Groups(1))
  BY Constant DEF CreateChecksum
<1>3. str = Written(d)
  BY DEF Address, Encode, Written, Begin
<1> HIDE DEF values, chk
<1>4. base \in Seq(Five)
  BY <1>1, PrefixType, ConcatProperties, Zenon
<1> HIDE DEF base
<1>5. chk \in Words /\ PolyMod(base \o chk) = Groups(1)
  BY <1>2, <1>4, ChecksumCloses
<1>6. chk \in Seq(Five) /\ Len(chk) = 6
  BY <1>5, LenIs DEF Words
<1>7. base \o chk = ExpandHRP(Hrp) \o d
  <2>1. values \in Seq(Five) /\ chk \in Seq(Five)
    BY <1>1, <1>6
  <2> QED
    BY <2>1, PrefixType, Associated, Zenon DEF base
<1>8. /\ d \in Seq(Five) /\ Len(d) = 38
      /\ \A n \in 1 .. 32 : d[n] = values[n]
  <2>1. values \in Seq(Five) /\ Len(values) = 32 /\ chk \in Words
    BY <1>1, <1>5
  <2>2. /\ d \in Seq(Five) /\ Len(d) = Len(values) + 6
        /\ \A n \in 1 .. Len(values) : d[n] = values[n]
    BY <2>1, SixMore, Zenon
  <2> HIDE DEF d
  <2> QED
    BY <2>1, <2>2
<1> HIDE DEF d
<1>9. d \in [1 .. 38 -> Five]
  BY <1>8, LenProperties
<1>10. ExpandHRP(Hrp) \o d \in Seq(Five)
  BY <1>8, PrefixType, ConcatProperties, Zenon
<1>11. VerifyChecksum(Hrp, d) = "BECH32"
  BY <1>5, <1>7, Constant, Zenon DEF VerifyChecksum
<1>12. /\ d = [i \in 1 .. 38 |-> Rev(str[5 + i])]
       /\ Decode(str).encoding = "BECH32" /\ Decode(str).hrp = Hrp
       /\ Decode(str).data = SubSeq(d, 1, 32)
  BY <1>3, <1>9, <1>11, ReadsBack
<1>13. SubSeq(d, 1, 32) = values
  <2>1. values \in Seq(Five) /\ Len(values) = 32
    BY <1>1
  <2> QED
    BY <1>8, <2>1, FirstPart, Zenon
<1>14. Remainder(ExpandHRP(Hrp) \o d) = Groups(1)
  <2>1. Remainder(ExpandHRP(Hrp) \o d) = PolyMod(ExpandHRP(Hrp) \o d)
    BY <1>10, DivisionIsPolyMod
  <2> QED
    BY <1>5, <1>7, <2>1, Zenon
<1> QED
  BY <1>1, <1>12, <1>13, <1>14, Zenon

\* Whatever the digest of the key is, the address the trader signs for reads back
\* to every bit of it, and with its prefix it is a multiple of the generator plus
\* one by a division that uses none of PolyMod's constants: deriveKeys' loop with
\* its overflowing int, and bech32::Encode.
THEOREM AddressesAreRight == Spec => []AddressIsRight
<1>1. StartInv => AddressIsRight
  <2> SUFFICES ASSUME StartInv, address # <<>> PROVE
        /\ Decode(address).encoding = "BECH32" /\ Decode(address).hrp = Hrp
        /\ Len(Decode(address).data) = 32
        /\ \A k \in 0 .. 159 : BitAt(Decode(address).data, 5, k) = BitAt(digest, 8, k)
        /\ Remainder(ExpandHRP(Hrp) \o [i \in 1 .. 38 |-> Rev(address[5 + i])]) = Groups(1)
    BY Zenon DEF AddressIsRight
  <2>1. digest \in Digests /\ address = Address(digest)
    BY DEF StartInv, StartTypeOK
  <2>2. digest \in Digest
    BY <2>1, StartupAssumption DEF Digest
  <2> QED
    BY <2>1, <2>2, AddressReads, Zenon
<1> QED
  BY <1>1, Invariance, PTL
===============================================================================
