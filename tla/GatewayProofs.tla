---------------------------- MODULE GatewayProofs ----------------------------
(* What the gateway keeps, for any routes, limits and number of calls. *)
EXTENDS Gateway, TLAPS, FiniteSetTheorems

\* A provider of a route is a provider.
LEMMA ProviderInRoute ==
  ASSUME TypeOK, NEW c \in Calls, InRoute(c)
  PROVE  provider(c) \in Providers /\ Models[provider(c)] \in Nat \ {0}
<1>1. RouteOf[kind[c]] \in Seq(Providers) /\ i[c] \in 1..Len(RouteOf[kind[c]])
  BY GatewayAssumption DEF TypeOK, InRoute
<1>2. provider(c) \in Providers
  BY <1>1 DEF provider
<1> QED
  BY <1>2, GatewayAssumption

\* Who is past the check has a provider, and a model of it.
LEMMA AdmittedHasProvider ==
  ASSUME TypeOK, NEW c \in Calls, pc[c] \in {"pace", "sleep", "asked", "record"}
  PROVE  /\ provider(c) \in Providers /\ Models[provider(c)] \in Nat \ {0}
         /\ InRoute(c) /\ j[c] \in 1..Models[provider(c)]
<1>1. InRoute(c) /\ j[c] <= Models[provider(c)] /\ j[c] \in Nat \ {0}
  BY DEF TypeOK, InPlace
<1>2. provider(c) \in Providers /\ Models[provider(c)] \in Nat \ {0}
  BY <1>1, ProviderInRoute
<1> QED
  BY <1>1, <1>2

\* The locals of a call, and what is said of a call by its locals alone.
Locals(c) ==
  <<pc[c], kind[c], i[c], j[c], emitted[c], out[c], remaining[c], pieces[c], owed[c]>>

CallInv(c) ==
  InPlace(c) /\ TextOfTheTry(c) /\ OwedWhileTried(c) /\ pieces[c] \subseteq {Try(c)}

OthersStay(c) == \A d \in Calls \ {c} : UNCHANGED Locals(d)

LEMMA OthersKept ==
  ASSUME Steady, NEW c \in Calls, OthersStay(c)
  PROVE  /\ \A d \in Calls \ {c} : CallInv(d)' /\ provider(d)' = provider(d)
         /\ CallInv(c)' => \A d \in Calls : CallInv(d)'
<1>1. ASSUME NEW d \in Calls \ {c} PROVE CallInv(d)' /\ provider(d)' = provider(d)
  <2>1. UNCHANGED Locals(d)
    BY DEF OthersStay
  <2>2. provider(d)' = provider(d) /\ Try(d)' = Try(d) /\ InRoute(d)' = InRoute(d)
    BY <2>1 DEF Locals, provider, Try, InRoute
  <2>3. CallInv(d)
    BY DEF Steady, TypeOK, TextIsOfOneTry, CallInv
  <2> QED
    BY <2>1, <2>2, <2>3 DEF Locals, CallInv, InPlace, TextOfTheTry, OwedWhileTried
<1> QED
  BY <1>1

\* Nothing moves for the locks when c neither sleeps nor starts to.
Turns == (\A c \in Calls : SleeperHolds(c)) /\ (\A p \in Providers : HolderSleeps(p))

LEMMA TurnsKept ==
  ASSUME Steady, NEW c \in Calls, OthersStay(c), UNCHANGED <<since, holder>>,
         pc[c] # "sleep", pc'[c] # "sleep"
  PROVE  Turns'
<1>1. \A d \in Calls \ {c} : UNCHANGED <<pc[d], remaining[d]>> /\ provider(d)' = provider(d)
  BY OthersKept DEF OthersStay, Locals
<1>2. ASSUME NEW d \in Calls PROVE SleeperHolds(d)'
  BY <1>1 DEF Steady, SleeperHolds
<1>3. ASSUME NEW p \in Providers PROVE HolderSleeps(p)'
  <2>1. HolderSleeps(p) /\ holder[p] \in Calls \cup {Nobody}
    BY DEF Steady, TypeOK
  <2> QED
    BY <2>1, <1>1 DEF HolderSleeps
<1> QED
  BY <1>2, <1>3 DEF Turns

LEMMA SteadyFromParts ==
  ASSUME TypeOK', \A d \in Calls : CallInv(d)', Turns'
  PROVE  Steady'
BY DEF Steady, CallInv, Turns, TextIsOfOneTry

LEMMA InitSteady == Init => Steady
<1> SUFFICES ASSUME Init PROVE Steady
  OBVIOUS
<1>1. TypeOK
  BY GatewayAssumption DEF Init, TypeOK, Pcs, Kinds, InPlace
<1>2. TextIsOfOneTry
  BY DEF Init, TextIsOfOneTry
<1>3. \A c \in Calls : TextOfTheTry(c) /\ OwedWhileTried(c) /\ SleeperHolds(c)
  BY DEF Init, TextOfTheTry, OwedWhileTried, SleeperHolds
<1>4. \A p \in Providers : HolderSleeps(p)
  BY DEF Init, HolderSleeps
<1> QED
  BY <1>1, <1>2, <1>3, <1>4 DEF Steady

-----------------------------------------------------------------------------
LEMMA StartKeeps == ASSUME Steady, NEW c \in Calls, Start(c) PROVE Steady'
<1>1. OthersStay(c)
  BY DEF Start, At, Go, pacer, OthersStay, Locals, Steady, TypeOK
<1>2. CallInv(c)'
  <2>1. CallInv(c)
    BY DEF Steady, TypeOK, TextIsOfOneTry, CallInv
  <2>2. InPlace(c)'
    BY <2>1 DEF Start, At, Go, pacer, CallInv, InPlace, InRoute, provider, Steady,
       TypeOK
  <2>3. TextOfTheTry(c)' /\ OwedWhileTried(c)' /\ (pieces[c] \subseteq {Try(c)})'
    BY <2>1 DEF Start, At, Go, pacer, CallInv, TextOfTheTry, OwedWhileTried, Try,
       Steady, TypeOK
  <2> QED
    BY <2>2, <2>3 DEF CallInv
<1>3. \A d \in Calls : CallInv(d)'
  BY <1>1, <1>2, OthersKept
<1>4. TypeOK'
  BY <1>3, GatewayAssumption DEF Start, At, Go, pacer, CallInv, Steady, TypeOK, Pcs,
     Kinds, Failures
<1>5. Turns'
  BY <1>1, TurnsKept DEF Start, At, Go, pacer, Steady, TypeOK
<1> QED
  BY <1>3, <1>4, <1>5, SteadyFromParts

\* The first model of an admitted call is one of its provider.
LEMMA CheckKeeps == ASSUME Steady, NEW c \in Calls, Check(c) PROVE Steady'
<1>0. provider(c) \in Providers /\ Models[provider(c)] \in Nat \ {0}
  BY ProviderInRoute DEF Check, Steady
<1>1. OthersStay(c)
  BY DEF Check, NextProvider, At, Go, pacer, OthersStay, Locals, Steady, TypeOK
<1>2. CallInv(c)'
  <2>1. CallInv(c)
    BY DEF Steady, TypeOK, TextIsOfOneTry, CallInv
  <2>2. InPlace(c)'
    BY <1>0, <2>1 DEF Check, NextProvider, At, Go, pacer, CallInv, InPlace, InRoute,
       provider, Steady, TypeOK
  <2>3. TextOfTheTry(c)' /\ OwedWhileTried(c)' /\ (pieces[c] \subseteq {Try(c)})'
    BY <2>1 DEF Check, NextProvider, At, Go, pacer, CallInv, TextOfTheTry,
       OwedWhileTried, Try, Steady, TypeOK
  <2> QED
    BY <2>2, <2>3 DEF CallInv
<1>3. \A d \in Calls : CallInv(d)'
  BY <1>1, <1>2, OthersKept
<1>4. TypeOK'
  <2>1. pc' \in [Calls -> Pcs] /\ kind' \in [Calls -> Kinds] /\ fake' \in BOOLEAN
    BY DEF Check, NextProvider, At, Go, pacer, Steady, TypeOK, Pcs
  <2>2. i' \in [Calls -> Nat \ {0}] /\ j' \in [Calls -> Nat \ {0}]
    BY DEF Check, NextProvider, At, Go, pacer, Steady, TypeOK
  <2>3. /\ emitted' \in [Calls -> BOOLEAN]
        /\ out' \in [Calls -> {"none", "ok", "cut"} \cup Failures]
        /\ owed' \in [Calls -> {0, 1}]
    BY DEF Check, NextProvider, At, Go, pacer, Steady, TypeOK
  <2>4. pieces' \in [Calls -> SUBSET ((Nat \ {0}) \X (Nat \ {0}))]
    BY DEF Check, NextProvider, At, Go, pacer, Steady, TypeOK
  <2>5. usage' \in [Providers -> Nat] /\ since' \in [Providers -> 0..Interval]
    BY <1>0, GatewayAssumption DEF Check, NextProvider, At, Go, pacer, Steady, TypeOK
  <2>6. holder' \in [Providers -> Calls \cup {Nobody}] /\ remaining' \in [Calls -> 0..Interval]
    BY GatewayAssumption DEF Check, NextProvider, At, Go, pacer, Released, Steady,
       TypeOK
  <2> QED
    BY <2>1, <2>2, <2>3, <2>4, <2>5, <2>6, <1>3 DEF TypeOK, CallInv
<1>5. Turns'
  BY <1>1, TurnsKept DEF Check, NextProvider, At, Go, pacer, Steady, TypeOK
<1> QED
  BY <1>3, <1>4, <1>5, SteadyFromParts

LEMMA ExhaustedKeeps == ASSUME Steady, NEW c \in Calls, Exhausted(c) PROVE Steady'
<1>1. OthersStay(c)
  BY DEF Exhausted, Return, At, Go, pacer, OthersStay, Locals, Steady, TypeOK
<1>2. CallInv(c)'
  <2>1. CallInv(c)
    BY DEF Steady, TypeOK, TextIsOfOneTry, CallInv
  <2>2. InPlace(c)'
    BY <2>1 DEF Exhausted, Return, At, Go, pacer, CallInv, InPlace, InRoute,
       provider, Steady, TypeOK
  <2>3. TextOfTheTry(c)' /\ OwedWhileTried(c)' /\ (pieces[c] \subseteq {Try(c)})'
    BY <2>1 DEF Exhausted, Return, At, Go, pacer, CallInv, TextOfTheTry,
       OwedWhileTried, Try, Steady, TypeOK
  <2> QED
    BY <2>2, <2>3 DEF CallInv
<1>3. \A d \in Calls : CallInv(d)'
  BY <1>1, <1>2, OthersKept
<1>4. TypeOK'
  <2>1. /\ pc' \in [Calls -> Pcs]
        /\ i' \in [Calls -> Nat \ {0}] /\ j' \in [Calls -> Nat \ {0}]
    BY DEF Exhausted, Return, At, Go, Steady, TypeOK, Pcs
  <2>2. /\ emitted' \in [Calls -> BOOLEAN]
        /\ out' \in [Calls -> {"none", "ok", "cut"} \cup Failures]
        /\ pieces' \in [Calls -> SUBSET ((Nat \ {0}) \X (Nat \ {0}))]
    BY DEF Exhausted, Return, Steady, TypeOK
  <2>3. UNCHANGED <<fake, kind, usage, since, holder, remaining, owed>>
    BY DEF Exhausted, pacer
  <2> QED
    BY <2>1, <2>2, <2>3, <1>3 DEF Steady, TypeOK, CallInv
<1>5. Turns'
  BY <1>1, TurnsKept DEF Exhausted, Return, At, Go, pacer, Steady, TypeOK
<1> QED
  BY <1>3, <1>4, <1>5, SteadyFromParts

LEMMA AskAtOnceKeeps == ASSUME Steady, NEW c \in Calls, AskAtOnce(c) PROVE Steady'
<1>0. /\ provider(c) \in Providers /\ Models[provider(c)] \in Nat \ {0}
      /\ InRoute(c) /\ j[c] \in 1..Models[provider(c)]
  BY AdmittedHasProvider DEF AskAtOnce, At, Steady
<1>1. OthersStay(c)
  BY DEF AskAtOnce, Ask, At, Go, pacer, OthersStay, Locals, Steady, TypeOK
<1>2. CallInv(c)'
  <2>1. CallInv(c)
    BY DEF Steady, TypeOK, TextIsOfOneTry, CallInv
  <2>2. InPlace(c)'
    BY <1>0, <2>1 DEF AskAtOnce, Ask, At, Go, pacer, CallInv, InPlace, InRoute,
       provider, Steady, TypeOK
  <2>3. TextOfTheTry(c)' /\ OwedWhileTried(c)' /\ (pieces[c] \subseteq {Try(c)})'
    BY <2>1 DEF AskAtOnce, Ask, At, Go, pacer, CallInv, TextOfTheTry,
       OwedWhileTried, Try, Steady, TypeOK
  <2> QED
    BY <2>2, <2>3 DEF CallInv
<1>3. \A d \in Calls : CallInv(d)'
  BY <1>1, <1>2, OthersKept
<1>4. TypeOK'
  BY <1>0, <1>3, GatewayAssumption DEF AskAtOnce, Ask, At, Go, pacer, CallInv,
     Steady, TypeOK, Pcs, Kinds, Failures
<1>5. Turns'
  BY <1>1, TurnsKept DEF AskAtOnce, Ask, At, Go, pacer, Steady, TypeOK
<1> QED
  BY <1>3, <1>4, <1>5, SteadyFromParts

\* The wait is what is missing to the spacing.
LEMMA TakeTurnKeeps == ASSUME Steady, NEW c \in Calls, TakeTurn(c) PROVE Steady'
<1>0. /\ provider(c) \in Providers /\ Models[provider(c)] \in Nat \ {0}
      /\ InRoute(c) /\ j[c] \in 1..Models[provider(c)]
  BY AdmittedHasProvider DEF TakeTurn, At, Steady
<1>a. Interval - since[provider(c)] \in 0..Interval
  BY <1>0, GatewayAssumption DEF Steady, TypeOK
<1>1. OthersStay(c)
  BY DEF TakeTurn, At, Go, pacer, OthersStay, Locals, Steady, TypeOK
<1>2. CallInv(c)'
  <2>1. CallInv(c)
    BY DEF Steady, TypeOK, TextIsOfOneTry, CallInv
  <2>2. InPlace(c)'
    BY <1>0, <1>a, <2>1 DEF TakeTurn, At, Go, pacer, CallInv, InPlace, InRoute,
       provider, Steady, TypeOK
  <2>3. TextOfTheTry(c)' /\ OwedWhileTried(c)' /\ (pieces[c] \subseteq {Try(c)})'
    BY <2>1 DEF TakeTurn, At, Go, pacer, CallInv, TextOfTheTry, OwedWhileTried, Try,
       Steady, TypeOK
  <2> QED
    BY <2>2, <2>3 DEF CallInv
<1>3. \A d \in Calls : CallInv(d)'
  BY <1>1, <1>2, OthersKept
<1>4. TypeOK'
  BY <1>0, <1>a, <1>3, GatewayAssumption DEF TakeTurn, At, Go, pacer, CallInv,
     Steady, TypeOK, Pcs, Kinds, Failures
<1>5. Turns'
  <2>1. /\ pc[c] = "pace" /\ holder[provider(c)] = Nobody /\ pc'[c] = "sleep"
        /\ holder' = [holder EXCEPT ![provider(c)] = c] /\ provider(c)' = provider(c)
        /\ remaining'[c] = Interval - since[provider(c)] /\ since' = since
    BY DEF TakeTurn, At, Go, provider, Steady, TypeOK
  <2>2. \A d \in Calls \ {c} : /\ UNCHANGED <<pc[d], remaining[d]>>
                                /\ provider(d)' = provider(d) /\ SleeperHolds(d)
    BY <1>1, OthersKept DEF OthersStay, Locals, Steady
  <2>3. ASSUME NEW d \in Calls PROVE SleeperHolds(d)'
    <3>1. CASE d = c
      <4>1. holder'[provider(c)] = c
        BY <2>1, <1>0 DEF Steady, TypeOK
      <4>2. remaining'[c] + since[provider(c)] = Interval
        <5>1. Interval \in Nat /\ since[provider(c)] \in 0..Interval
          BY <1>0, GatewayAssumption DEF Steady, TypeOK
        <5> QED
          BY <5>1, <2>1
      <4> QED
        BY <3>1, <4>1, <4>2, <2>1, GatewayAssumption DEF SleeperHolds
    <3>2. CASE d # c
      <4>1. pc[d] = "sleep" => provider(d) \in Providers /\ provider(d) # provider(c)
        <5>1. ASSUME pc[d] = "sleep" PROVE holder[provider(d)] = d
          BY <3>2, <2>2, <5>1 DEF SleeperHolds
        <5>2. d # Nobody
          BY GatewayAssumption
        <5> QED
          BY <5>1, <5>2, <2>1, AdmittedHasProvider DEF Steady
      <4> QED
        BY <4>1, <3>2, <2>1, <2>2 DEF SleeperHolds, Steady, TypeOK
    <3> QED
      BY <3>1, <3>2
  <2>4. ASSUME NEW p \in Providers PROVE HolderSleeps(p)'
    <3>1. HolderSleeps(p) /\ holder[p] \in Calls \cup {Nobody} /\ c # Nobody
      BY GatewayAssumption DEF Steady, TypeOK
    <3>2. CASE p = provider(c)
      BY <3>2, <2>1 DEF HolderSleeps, Steady, TypeOK
    <3>3. CASE p # provider(c)
      <4>1. holder'[p] = holder[p]
        BY <3>3, <2>1 DEF Steady, TypeOK
      <4>2. holder[p] # Nobody => holder[p] \in Calls \ {c}
        BY <3>1, <2>1 DEF HolderSleeps
      <4> QED
        BY <4>1, <4>2, <3>1, <2>2 DEF HolderSleeps
    <3> QED
      BY <3>2, <3>3
  <2> QED
    BY <2>3, <2>4 DEF Turns
<1> QED
  BY <1>3, <1>4, <1>5, SteadyFromParts

\* The holder of a lock alone sleeps for its provider.
LEMMA WakeUpKeeps == ASSUME Steady, NEW c \in Calls, WakeUp(c) PROVE Steady'
<1>0. /\ provider(c) \in Providers /\ Models[provider(c)] \in Nat \ {0}
      /\ InRoute(c) /\ j[c] \in 1..Models[provider(c)]
  BY AdmittedHasProvider DEF WakeUp, At, Steady
<1>1. OthersStay(c)
  BY DEF WakeUp, Ask, At, Go, pacer, OthersStay, Locals, Steady, TypeOK
<1>2. CallInv(c)'
  <2>1. CallInv(c)
    BY DEF Steady, TypeOK, TextIsOfOneTry, CallInv
  <2>2. InPlace(c)'
    BY <1>0, <2>1 DEF WakeUp, Ask, At, Go, pacer, CallInv, InPlace, InRoute,
       provider, Steady, TypeOK
  <2>3. TextOfTheTry(c)' /\ OwedWhileTried(c)' /\ (pieces[c] \subseteq {Try(c)})'
    BY <2>1 DEF WakeUp, Ask, At, Go, pacer, CallInv, TextOfTheTry, OwedWhileTried,
       Try, Steady, TypeOK
  <2> QED
    BY <2>2, <2>3 DEF CallInv
<1>3. \A d \in Calls : CallInv(d)'
  BY <1>1, <1>2, OthersKept
<1>4. TypeOK'
  <2>1. pc' \in [Calls -> Pcs] /\ kind' \in [Calls -> Kinds] /\ fake' \in BOOLEAN
    BY DEF WakeUp, Ask, At, Go, pacer, Steady, TypeOK, Pcs
  <2>2. i' \in [Calls -> Nat \ {0}] /\ j' \in [Calls -> Nat \ {0}]
    BY DEF WakeUp, Ask, At, Go, pacer, Steady, TypeOK
  <2>3. /\ emitted' \in [Calls -> BOOLEAN]
        /\ out' \in [Calls -> {"none", "ok", "cut"} \cup Failures]
        /\ owed' \in [Calls -> {0, 1}]
    BY DEF WakeUp, Ask, At, Go, pacer, Steady, TypeOK
  <2>4. pieces' \in [Calls -> SUBSET ((Nat \ {0}) \X (Nat \ {0}))]
    BY DEF WakeUp, Ask, At, Go, pacer, Steady, TypeOK
  <2>5. usage' \in [Providers -> Nat] /\ since' \in [Providers -> 0..Interval]
    BY <1>0, GatewayAssumption DEF WakeUp, Ask, At, Go, pacer, Steady, TypeOK
  <2>6. holder' \in [Providers -> Calls \cup {Nobody}] /\ remaining' \in [Calls -> 0..Interval]
    BY GatewayAssumption DEF WakeUp, Ask, At, Go, pacer, Released, Steady, TypeOK
  <2> QED
    BY <2>1, <2>2, <2>3, <2>4, <2>5, <2>6, <1>3 DEF TypeOK, CallInv
<1>5. Turns'
  <2>1. /\ pc[c] = "sleep" /\ pc'[c] # "sleep" /\ holder' = Released(c)
        /\ since' = [since EXCEPT ![provider(c)] = 0]
        /\ holder[provider(c)] = c
    BY DEF WakeUp, Ask, At, Go, SleeperHolds, Steady, TypeOK
  <2>2. \A d \in Calls \ {c} : /\ UNCHANGED <<pc[d], remaining[d]>>
                                /\ provider(d)' = provider(d) /\ SleeperHolds(d)
    BY <1>1, OthersKept DEF OthersStay, Locals, Steady
  <2>3. ASSUME NEW d \in Calls PROVE SleeperHolds(d)'
    <3>1. CASE d = c
      BY <3>1, <2>1 DEF SleeperHolds
    <3>2. CASE d # c /\ pc[d] = "sleep"
      <4>1. provider(d) \in Providers /\ holder[provider(d)] = d
        BY <3>2, <2>2, AdmittedHasProvider DEF SleeperHolds, Steady
      <4>2. holder'[provider(d)] = d
        BY <4>1, <3>2, <2>1 DEF Released
      <4>3. since'[provider(d)] = since[provider(d)]
        BY <4>1, <3>2, <2>1 DEF Steady, TypeOK
      <4> QED
        BY <4>1, <4>2, <4>3, <3>2, <2>2 DEF SleeperHolds
    <3> QED
      BY <3>1, <3>2, <2>2 DEF SleeperHolds
  <2>4. ASSUME NEW p \in Providers PROVE HolderSleeps(p)'
    <3>1. HolderSleeps(p) /\ holder[p] \in Calls \cup {Nobody}
      BY DEF Steady, TypeOK
    <3>2. holder'[p] = IF holder[p] = c THEN Nobody ELSE holder[p]
      BY <2>1 DEF Released
    <3> QED
      BY <3>1, <3>2, <2>2 DEF HolderSleeps
  <2> QED
    BY <2>3, <2>4 DEF Turns
<1> QED
  BY <1>3, <1>4, <1>5, SteadyFromParts

\* What a sleeper waits for and what its provider has rested move together.
LEMMA TickKeeps == ASSUME Steady, Tick PROVE Steady'
<1>1. UNCHANGED <<call, usage, holder, pieces, owed>>
  BY DEF Tick
<1>2. \A d \in Calls : CallInv(d)' /\ provider(d)' = provider(d)
  BY <1>1 DEF Steady, TypeOK, TextIsOfOneTry, CallInv, InPlace, InRoute, provider, call,
              TextOfTheTry, OwedWhileTried, Try
<1>3. /\ \A p \in Providers : since'[p] = IF since[p] < Interval THEN since[p] + 1 ELSE Interval
      /\ \A c \in Calls : remaining'[c] = IF remaining[c] > 0 THEN remaining[c] - 1 ELSE 0
  BY DEF Tick
<1>a. since' \in [Providers -> 0..Interval] /\ remaining' \in [Calls -> 0..Interval]
  <2>1. \A p \in Providers : since[p] \in 0..Interval
    BY DEF Steady, TypeOK
  <2>2. \A c \in Calls : remaining[c] \in 0..Interval
    BY DEF Steady, TypeOK
  <2>3. \A p \in Providers : since'[p] \in 0..Interval
    BY <1>3, <2>1, GatewayAssumption
  <2>4. \A c \in Calls : remaining'[c] \in 0..Interval
    BY <1>3, <2>2, GatewayAssumption
  <2> QED
    BY <2>3, <2>4 DEF Tick
<1>4. TypeOK'
  BY <1>1, <1>2, <1>a DEF Steady, TypeOK, call, CallInv
<1>5. ASSUME NEW c \in Calls PROVE SleeperHolds(c)'
  <2>1. CASE pc[c] = "sleep"
    <3>1. provider(c) \in Providers /\ SleeperHolds(c)
      BY <2>1, AdmittedHasProvider DEF Steady
    <3>2. since[provider(c)] \in 0..Interval /\ remaining[c] \in 0..Interval /\ Interval \in Nat
      BY <3>1, GatewayAssumption DEF Steady, TypeOK
    <3> QED
      BY <2>1, <3>1, <3>2, <1>1, <1>2, <1>3 DEF SleeperHolds, call
  <2>2. CASE pc[c] # "sleep"
    BY <2>2, <1>1 DEF SleeperHolds, call
  <2> QED
    BY <2>1, <2>2
<1>6. ASSUME NEW p \in Providers PROVE HolderSleeps(p)'
  <2>1. HolderSleeps(p) /\ holder[p] \in Calls \cup {Nobody}
    BY DEF Steady, TypeOK
  <2> QED
    BY <2>1, <1>1, <1>2 DEF HolderSleeps, call
<1> QED
  BY <1>2, <1>4, <1>5, <1>6, SteadyFromParts DEF Turns

\* A fragment is of the try at hand, as what came before it is.
LEMMA DeltaKeeps == ASSUME Steady, NEW c \in Calls, Delta(c) PROVE Steady'
<1>0. /\ provider(c) \in Providers /\ Models[provider(c)] \in Nat \ {0}
      /\ InRoute(c) /\ j[c] \in 1..Models[provider(c)]
  BY AdmittedHasProvider DEF Delta, At, Steady
<1>1. OthersStay(c)
  BY DEF Delta, OnTextDelta, Try, At, Go, pacer, OthersStay, Locals, Steady, TypeOK
<1>2. CallInv(c)'
  <2>1. CallInv(c)
    BY DEF Steady, TypeOK, TextIsOfOneTry, CallInv
  <2>2. InPlace(c)'
    BY <1>0, <2>1 DEF Delta, OnTextDelta, Try, At, Go, pacer, CallInv, InPlace,
       InRoute, provider, Steady, TypeOK
  <2>3. TextOfTheTry(c)' /\ OwedWhileTried(c)' /\ (pieces[c] \subseteq {Try(c)})'
    BY <2>1 DEF Delta, OnTextDelta, Try, At, Go, pacer, CallInv, TextOfTheTry,
       OwedWhileTried, Try, Steady, TypeOK
  <2> QED
    BY <2>2, <2>3 DEF CallInv
<1>3. \A d \in Calls : CallInv(d)'
  BY <1>1, <1>2, OthersKept
<1>4. TypeOK'
  <2>1. pc' \in [Calls -> Pcs] /\ kind' \in [Calls -> Kinds] /\ fake' \in BOOLEAN
    BY DEF Delta, OnTextDelta, Try, At, Go, pacer, Steady, TypeOK, Pcs
  <2>2. i' \in [Calls -> Nat \ {0}] /\ j' \in [Calls -> Nat \ {0}]
    BY DEF Delta, OnTextDelta, Try, At, Go, pacer, Steady, TypeOK
  <2>3. /\ emitted' \in [Calls -> BOOLEAN]
        /\ out' \in [Calls -> {"none", "ok", "cut"} \cup Failures]
        /\ owed' \in [Calls -> {0, 1}]
    BY DEF Delta, OnTextDelta, Try, At, Go, pacer, Steady, TypeOK
  <2>4. pieces' \in [Calls -> SUBSET ((Nat \ {0}) \X (Nat \ {0}))]
    BY DEF Delta, OnTextDelta, Try, At, Go, pacer, Steady, TypeOK
  <2>5. usage' \in [Providers -> Nat] /\ since' \in [Providers -> 0..Interval]
    BY <1>0, GatewayAssumption DEF Delta, OnTextDelta, Try, At, Go, pacer, Steady,
       TypeOK
  <2>6. holder' \in [Providers -> Calls \cup {Nobody}] /\ remaining' \in [Calls -> 0..Interval]
    BY GatewayAssumption DEF Delta, OnTextDelta, Try, At, Go, pacer, Released,
       Steady, TypeOK
  <2> QED
    BY <2>1, <2>2, <2>3, <2>4, <2>5, <2>6, <1>3 DEF TypeOK, CallInv
<1>5. Turns'
  BY <1>1, TurnsKept DEF Delta, OnTextDelta, Try, At, Go, pacer, Steady, TypeOK
<1> QED
  BY <1>3, <1>4, <1>5, SteadyFromParts

LEMMA OutcomeKeeps == ASSUME Steady, NEW c \in Calls, Outcome(c) PROVE Steady'
<1>0. /\ provider(c) \in Providers /\ Models[provider(c)] \in Nat \ {0}
      /\ InRoute(c) /\ j[c] \in 1..Models[provider(c)]
  BY AdmittedHasProvider DEF Outcome, Failures, At, Steady
<1>1. OthersStay(c)
  BY DEF Outcome, Failures, At, Go, pacer, OthersStay, Locals, Steady, TypeOK
<1>2. CallInv(c)'
  <2>1. CallInv(c)
    BY DEF Steady, TypeOK, TextIsOfOneTry, CallInv
  <2>2. InPlace(c)'
    BY <1>0, <2>1 DEF Outcome, Failures, At, Go, pacer, CallInv, InPlace, InRoute,
       provider, Steady, TypeOK
  <2>3. TextOfTheTry(c)' /\ OwedWhileTried(c)' /\ (pieces[c] \subseteq {Try(c)})'
    BY <2>1 DEF Outcome, Failures, At, Go, pacer, CallInv, TextOfTheTry,
       OwedWhileTried, Try, Steady, TypeOK
  <2> QED
    BY <2>2, <2>3 DEF CallInv
<1>3. \A d \in Calls : CallInv(d)'
  BY <1>1, <1>2, OthersKept
<1>4. TypeOK'
  BY <1>0, <1>3, GatewayAssumption DEF Outcome, At, Go, pacer, CallInv, Steady,
     TypeOK, Pcs, Kinds, Failures
<1>5. Turns'
  BY <1>1, TurnsKept DEF Outcome, Failures, At, Go, pacer, Steady, TypeOK
<1> QED
  BY <1>3, <1>4, <1>5, SteadyFromParts

\* A wait that is cut gives its lock back; a stream goes on to its record.
LEMMA CutKeeps == ASSUME Steady, NEW c \in Calls, Cut(c) PROVE Steady'
<1>1. OthersStay(c)
  BY DEF Cut, Return, At, Go, pacer, OthersStay, Locals, Steady, TypeOK
<1>2. CallInv(c)'
  <2>1. CallInv(c)
    BY DEF Steady, TypeOK, TextIsOfOneTry, CallInv
  <2>2. InPlace(c)'
    BY <2>1 DEF Cut, Return, At, Go, pacer, CallInv, InPlace, InRoute, provider,
       Steady, TypeOK
  <2>3. TextOfTheTry(c)' /\ OwedWhileTried(c)' /\ (pieces[c] \subseteq {Try(c)})'
    BY <2>1 DEF Cut, Return, At, Go, pacer, CallInv, TextOfTheTry, OwedWhileTried,
       Try, Steady, TypeOK
  <2> QED
    BY <2>2, <2>3 DEF CallInv
<1>3. \A d \in Calls : CallInv(d)'
  BY <1>1, <1>2, OthersKept
<1>4. TypeOK'
  <2>1. pc' \in [Calls -> Pcs] /\ kind' \in [Calls -> Kinds] /\ fake' \in BOOLEAN
    BY DEF Cut, Return, At, Go, pacer, Steady, TypeOK, Pcs
  <2>2. i' \in [Calls -> Nat \ {0}] /\ j' \in [Calls -> Nat \ {0}]
    BY DEF Cut, Return, At, Go, pacer, Steady, TypeOK
  <2>3. /\ emitted' \in [Calls -> BOOLEAN]
        /\ out' \in [Calls -> {"none", "ok", "cut"} \cup Failures]
        /\ owed' \in [Calls -> {0, 1}]
    BY DEF Cut, Return, At, Go, pacer, Steady, TypeOK
  <2>4. pieces' \in [Calls -> SUBSET ((Nat \ {0}) \X (Nat \ {0}))]
    BY DEF Cut, Return, At, Go, pacer, Steady, TypeOK
  <2>5. usage' \in [Providers -> Nat] /\ since' \in [Providers -> 0..Interval]
    BY GatewayAssumption DEF Cut, Return, At, Go, pacer, Steady, TypeOK
  <2>6. holder' \in [Providers -> Calls \cup {Nobody}] /\ remaining' \in [Calls -> 0..Interval]
    BY GatewayAssumption DEF Cut, Return, At, Go, pacer, Released, Steady, TypeOK
  <2> QED
    BY <2>1, <2>2, <2>3, <2>4, <2>5, <2>6, <1>3 DEF TypeOK, CallInv
<1>5. Turns'
  <2>1. pc'[c] # "sleep" /\ holder' = Released(c) /\ since' = since
    BY DEF Cut, Return, At, Go, Steady, TypeOK
  <2>2. \A d \in Calls \ {c} : /\ UNCHANGED <<pc[d], remaining[d]>>
                                /\ provider(d)' = provider(d) /\ SleeperHolds(d)
    BY <1>1, OthersKept DEF OthersStay, Locals, Steady
  <2>3. ASSUME NEW d \in Calls PROVE SleeperHolds(d)'
    <3>1. CASE d = c
      BY <3>1, <2>1 DEF SleeperHolds
    <3>2. CASE d # c /\ pc[d] = "sleep"
      <4>1. provider(d) \in Providers /\ holder[provider(d)] = d
        BY <3>2, <2>2, AdmittedHasProvider DEF SleeperHolds, Steady
      <4>2. holder'[provider(d)] = d
        BY <4>1, <3>2, <2>1 DEF Released
      <4>3. since'[provider(d)] = since[provider(d)]
        BY <4>1, <3>2, <2>1 DEF Steady, TypeOK
      <4> QED
        BY <4>1, <4>2, <4>3, <3>2, <2>2 DEF SleeperHolds
    <3> QED
      BY <3>1, <3>2, <2>2 DEF SleeperHolds
  <2>4. ASSUME NEW p \in Providers PROVE HolderSleeps(p)'
    <3>1. HolderSleeps(p) /\ holder[p] \in Calls \cup {Nobody}
      BY DEF Steady, TypeOK
    <3>2. holder'[p] = IF holder[p] = c THEN Nobody ELSE holder[p]
      BY <2>1 DEF Released
    <3> QED
      BY <3>1, <3>2, <2>2 DEF HolderSleeps
  <2> QED
    BY <2>3, <2>4 DEF Turns
<1> QED
  BY <1>3, <1>4, <1>5, SteadyFromParts

\* The lines of a provider stay a number.
LEMMA LineIsANumber ==
  ASSUME usage \in [Providers -> Nat], NEW c, provider(c) \in Providers, _record(c)
  PROVE  usage' \in [Providers -> Nat]
BY DEF _record, record_usage

LEMMA RecordEndKeeps == ASSUME Steady, NEW c \in Calls, RecordEnd(c) PROVE Steady'
<1>0. /\ provider(c) \in Providers /\ Models[provider(c)] \in Nat \ {0}
      /\ InRoute(c) /\ j[c] \in 1..Models[provider(c)]
  BY AdmittedHasProvider DEF RecordEnd, At, Steady
<1>b. owed[c] = 1
  BY DEF RecordEnd, At, OwedWhileTried, Steady
<1>1. OthersStay(c)
  BY DEF RecordEnd, _record, record_usage, Return, At, Go, pacer, OthersStay,
     Locals, Steady, TypeOK
<1>2. CallInv(c)'
  <2>1. CallInv(c)
    BY DEF Steady, TypeOK, TextIsOfOneTry, CallInv
  <2>2. InPlace(c)'
    BY <1>0, <2>1 DEF RecordEnd, _record, record_usage, Return, At, Go, pacer,
       CallInv, InPlace, InRoute, provider, Steady, TypeOK
  <2>3. TextOfTheTry(c)' /\ OwedWhileTried(c)' /\ (pieces[c] \subseteq {Try(c)})'
    BY <2>1 DEF RecordEnd, _record, record_usage, Return, At, Go, pacer, CallInv,
       TextOfTheTry, OwedWhileTried, Try, Steady, TypeOK
  <2> QED
    BY <2>2, <2>3 DEF CallInv
<1>3. \A d \in Calls : CallInv(d)'
  BY <1>1, <1>2, OthersKept
<1>4. TypeOK'
  <2>1. pc' \in [Calls -> Pcs] /\ kind' \in [Calls -> Kinds] /\ fake' \in BOOLEAN
    BY DEF RecordEnd, _record, record_usage, Return, At, Go, pacer, Steady, TypeOK, Pcs
  <2>2. i' \in [Calls -> Nat \ {0}] /\ j' \in [Calls -> Nat \ {0}]
    BY DEF RecordEnd, _record, record_usage, Return, At, Go, pacer, Steady, TypeOK
  <2>3. /\ emitted' \in [Calls -> BOOLEAN]
        /\ out' \in [Calls -> {"none", "ok", "cut"} \cup Failures]
        /\ owed' \in [Calls -> {0, 1}]
    BY <1>b DEF RecordEnd, _record, record_usage, Return, At, Go, pacer, Steady, TypeOK
  <2>4. pieces' \in [Calls -> SUBSET ((Nat \ {0}) \X (Nat \ {0}))]
    BY DEF RecordEnd, _record, record_usage, Return, At, Go, pacer, Steady, TypeOK
  <2>5. usage' \in [Providers -> Nat] /\ since' \in [Providers -> 0..Interval]
    <3>1. _record(c) /\ UNCHANGED since
      BY DEF RecordEnd, pacer
    <3> QED
      BY <1>0, <3>1, LineIsANumber DEF Steady, TypeOK
  <2>6. holder' \in [Providers -> Calls \cup {Nobody}] /\ remaining' \in [Calls -> 0..Interval]
    BY GatewayAssumption DEF RecordEnd, _record, record_usage, Return, At, Go,
       pacer, Released, Steady, TypeOK
  <2> QED
    BY <2>1, <2>2, <2>3, <2>4, <2>5, <2>6, <1>3 DEF TypeOK, CallInv
<1>5. Turns'
  BY <1>1, TurnsKept DEF RecordEnd, _record, record_usage, Return, At, Go, pacer,
     Steady, TypeOK
<1> QED
  BY <1>3, <1>4, <1>5, SteadyFromParts

\* A try that gave text is left with it; one that gave none leaves none.
LEMMA RecordFailureKeeps == ASSUME Steady, NEW c \in Calls, RecordFailure(c) PROVE Steady'
<1>0. /\ provider(c) \in Providers /\ Models[provider(c)] \in Nat \ {0}
      /\ InRoute(c) /\ j[c] \in 1..Models[provider(c)]
  BY AdmittedHasProvider DEF RecordFailure, At, Steady
<1>b. owed[c] = 1
  BY DEF RecordFailure, At, OwedWhileTried, Steady
<1>1. OthersStay(c)
  BY DEF RecordFailure, Failures, _record, record_usage, OnStreamRestart, GoesOn,
     NextProvider, At, Go, pacer, OthersStay, Locals, Steady, TypeOK
<1>2. CallInv(c)'
  <2>1. CallInv(c)
    BY DEF Steady, TypeOK, TextIsOfOneTry, CallInv
  <2>2. InPlace(c)'
    BY <1>0, <2>1 DEF RecordFailure, Failures, _record, record_usage,
       OnStreamRestart, GoesOn, NextProvider, At, Go, pacer, CallInv, InPlace, InRoute,
       provider, Steady, TypeOK
  <2>3. TextOfTheTry(c)' /\ OwedWhileTried(c)' /\ (pieces[c] \subseteq {Try(c)})'
    BY <2>1 DEF RecordFailure, Failures, _record, record_usage, OnStreamRestart,
       GoesOn, NextProvider, At, Go, pacer, CallInv, TextOfTheTry, OwedWhileTried, Try,
       Steady, TypeOK
  <2> QED
    BY <2>2, <2>3 DEF CallInv
<1>3. \A d \in Calls : CallInv(d)'
  BY <1>1, <1>2, OthersKept
<1>4. TypeOK'
  <2>1. pc' \in [Calls -> Pcs] /\ kind' \in [Calls -> Kinds] /\ fake' \in BOOLEAN
    BY DEF RecordFailure, Failures, _record, record_usage, OnStreamRestart, GoesOn,
       NextProvider, At, Go, pacer, Steady, TypeOK, Pcs
  <2>2. i' \in [Calls -> Nat \ {0}] /\ j' \in [Calls -> Nat \ {0}]
    BY DEF RecordFailure, Failures, _record, record_usage, OnStreamRestart, GoesOn,
       NextProvider, At, Go, pacer, Steady, TypeOK
  <2>3. /\ emitted' \in [Calls -> BOOLEAN]
        /\ out' \in [Calls -> {"none", "ok", "cut"} \cup Failures]
        /\ owed' \in [Calls -> {0, 1}]
    BY <1>b DEF RecordFailure, Failures, _record, record_usage, OnStreamRestart,
       GoesOn, NextProvider, At, Go, pacer, Steady, TypeOK
  <2>4. pieces' \in [Calls -> SUBSET ((Nat \ {0}) \X (Nat \ {0}))]
    BY DEF RecordFailure, Failures, _record, record_usage, OnStreamRestart, GoesOn,
       NextProvider, At, Go, pacer, Steady, TypeOK
  <2>5. usage' \in [Providers -> Nat] /\ since' \in [Providers -> 0..Interval]
    <3>1. _record(c) /\ UNCHANGED since
      BY DEF RecordFailure, pacer
    <3> QED
      BY <1>0, <3>1, LineIsANumber DEF Steady, TypeOK
  <2>6. holder' \in [Providers -> Calls \cup {Nobody}] /\ remaining' \in [Calls -> 0..Interval]
    BY GatewayAssumption DEF RecordFailure, Failures, _record, record_usage,
       OnStreamRestart, GoesOn, NextProvider, At, Go, pacer, Released, Steady, TypeOK
  <2> QED
    BY <2>1, <2>2, <2>3, <2>4, <2>5, <2>6, <1>3 DEF TypeOK, CallInv
<1>5. Turns'
  BY <1>1, TurnsKept DEF RecordFailure, Failures, _record, record_usage,
     OnStreamRestart, GoesOn, NextProvider, At, Go, pacer, Steady, TypeOK
<1> QED
  BY <1>3, <1>4, <1>5, SteadyFromParts

LEMMA ExpireKeeps == ASSUME Steady, NEW p \in Providers, Expire(p) PROVE Steady'
<1>1. UNCHANGED <<call, pacer, pieces, owed>>
  BY DEF Expire
<1>2. \A d \in Calls : CallInv(d)'
  BY <1>1 DEF Steady, TypeOK, TextIsOfOneTry, CallInv, InPlace, InRoute, provider, call,
              TextOfTheTry, OwedWhileTried, Try
<1>3. TypeOK'
  BY <1>1, <1>2 DEF Expire, Steady, TypeOK, call, pacer, CallInv
<1>4. Turns'
  BY <1>1 DEF Turns, Steady, SleeperHolds, HolderSleeps, provider, call, pacer
<1> QED
  BY <1>2, <1>3, <1>4, SteadyFromParts

-----------------------------------------------------------------------------
(* The count of requests. *)

Admitted == {"pace", "sleep", "asked", "record"}

\* What a provider may be asked in all is a finite set, of one request at least.
LEMMA RoomIsFinite ==
  ASSUME NEW p \in Providers
  PROVE  /\ IsFiniteSet(Calls \X (1..Models[p]))
         /\ Cardinality(Calls \X (1..Models[p])) \in Nat \ {0}
         /\ IsFiniteSet(Pending(p)) /\ Cardinality(Pending(p)) \in Nat
         /\ Cardinality(Pending(p)) <= Cardinality(Calls \X (1..Models[p]))
<1> DEFINE Room == Calls \X (1..Models[p])
<1>1. Models[p] \in Nat \ {0} /\ IsFiniteSet(Calls) /\ Calls # {}
  BY GatewayAssumption
<1>2. IsFiniteSet(1..Models[p])
  BY <1>1, FS_Interval
<1>3. IsFiniteSet(Room)
  BY <1>1, <1>2, FS_Product
<1>4. Room # {}
  <2>1. PICK c \in Calls : TRUE
    BY <1>1
  <2>2. <<c, 1>> \in Room
    BY <1>1, <2>1
  <2> QED
    BY <2>2
<1>5. Cardinality(Room) \in Nat /\ Cardinality(Room) # 0
  BY <1>3, <1>4, FS_EmptySet, FS_CardinalityType
<1>6. Pending(p) \subseteq Room
  BY DEF Pending
<1> HIDE DEF Room
<1>7. IsFiniteSet(Pending(p)) /\ Cardinality(Pending(p)) <= Cardinality(Room)
  BY <1>3, <1>6, FS_Subset
<1>8. Cardinality(Pending(p)) \in Nat
  BY <1>7, FS_CardinalityType
<1> QED
  BY <1>3, <1>5, <1>7, <1>8 DEF Room

\* Nothing more is to come when no call is admitted and none goes back.
NoNewcomer ==
  \A d \in Calls : pc'[d] \in Admitted =>
    pc[d] \in Admitted /\ provider(d)' = provider(d) /\ j[d] <= j'[d]

LEMMA NoneToCome ==
  ASSUME TypeOK, TypeOK', UNCHANGED fake, NoNewcomer, NEW p \in Providers
  PROVE  Pending(p)' \subseteq Pending(p)
<1> SUFFICES ASSUME NEW x \in Pending(p)' PROVE x \in Pending(p)
  OBVIOUS
<1>1. /\ x \in Calls \X (1..Models[p]) /\ ~fake' /\ pc'[x[1]] \in Admitted
      /\ provider(x[1])' = p /\ j'[x[1]] <= x[2]
  BY DEF Pending, Admitted
<1>2. x[1] \in Calls /\ x[2] \in Int /\ j[x[1]] \in Nat /\ j'[x[1]] \in Nat
  BY <1>1 DEF TypeOK
<1>3. pc[x[1]] \in Admitted /\ provider(x[1]) = p /\ j[x[1]] <= j'[x[1]]
  BY <1>1, <1>2 DEF NoNewcomer
<1>4. j[x[1]] <= x[2]
  BY <1>1, <1>2, <1>3
<1> QED
  BY <1>1, <1>3, <1>4 DEF Pending, Admitted

\* The bound stays while there is no more to come and no line is added.
LEMMA BoundStays ==
  ASSUME TypeOK, TypeOK', AdmittedIsBounded, NEW p \in Providers,
         Pending(p)' \subseteq Pending(p), usage'[p] <= usage[p]
  PROVE  usage'[p] + Cardinality(Pending(p)') + 1
           <= RPM[p] + Cardinality(Calls \X (1..Models[p]))
<1>1. /\ IsFiniteSet(Pending(p)) /\ Cardinality(Pending(p)) \in Nat
      /\ Cardinality(Calls \X (1..Models[p])) \in Nat
  BY RoomIsFinite
<1>2. IsFiniteSet(Pending(p)') /\ Cardinality(Pending(p)') <= Cardinality(Pending(p))
  BY <1>1, FS_Subset
<1>3. Cardinality(Pending(p)') \in Nat
  BY <1>2, FS_CardinalityType
<1>4. usage[p] \in Nat /\ usage'[p] \in Nat /\ RPM[p] \in Nat
  BY GatewayAssumption DEF TypeOK
<1>5. usage[p] + Cardinality(Pending(p)) + 1
        <= RPM[p] + Cardinality(Calls \X (1..Models[p]))
  BY DEF AdmittedIsBounded
<1> QED
  BY <1>1, <1>2, <1>3, <1>4, <1>5

LEMMA BoundStaysEverywhere ==
  ASSUME TypeOK, TypeOK', AdmittedIsBounded, UNCHANGED fake, NoNewcomer,
         \A p \in Providers : usage'[p] <= usage[p]
  PROVE  AdmittedIsBounded'
BY NoneToCome, BoundStays DEF AdmittedIsBounded, Pending

\* A call that keeps its place, or leaves it for one not admitted, is no newcomer.
LEMMA NoNewcomerFrom ==
  ASSUME Steady, NEW c \in Calls, OthersStay(c),
         pc'[c] \in Admitted =>
           pc[c] \in Admitted /\ provider(c)' = provider(c) /\ j[c] <= j'[c]
  PROVE  NoNewcomer
<1> SUFFICES ASSUME NEW d \in Calls, pc'[d] \in Admitted
             PROVE  pc[d] \in Admitted /\ provider(d)' = provider(d) /\ j[d] <= j'[d]
  BY DEF NoNewcomer
<1>1. CASE d = c
  BY <1>1
<1>2. CASE d # c
  <2>1. UNCHANGED Locals(d) /\ provider(d)' = provider(d)
    BY <1>2, OthersKept DEF OthersStay
  <2>2. j[d] \in Nat
    BY DEF Steady, TypeOK
  <2> QED
    BY <2>1, <2>2 DEF Locals
<1> QED
  BY <1>1, <1>2

\* The calls that ask nothing new of a provider.
LEMMA QuietKeepsBound ==
  ASSUME Steady, Steady', AdmittedIsBounded, NEW c \in Calls,
         Start(c) \/ Exhausted(c) \/ AskAtOnce(c) \/ TakeTurn(c) \/ WakeUp(c)
           \/ Delta(c) \/ Outcome(c) \/ Cut(c)
  PROVE  AdmittedIsBounded'
<1>1. UNCHANGED fake /\ UNCHANGED usage
  BY DEF Start, Exhausted, AskAtOnce, TakeTurn, WakeUp, Delta, Outcome, Cut, pacer
<1>2. OthersStay(c)
  BY DEF Start, Exhausted, AskAtOnce, TakeTurn, WakeUp, Delta, Outcome, Cut, Return,
     Ask, OnTextDelta, At, Go, pacer, OthersStay, Locals, Steady, TypeOK
<1>3. pc'[c] \in Admitted =>
        pc[c] \in Admitted /\ UNCHANGED <<i[c], kind[c], j[c]>>
  BY DEF Start, Exhausted, AskAtOnce, TakeTurn, WakeUp, Delta, Outcome, Cut, Return,
     Ask, At, Go, pacer, Admitted, Steady, TypeOK
<1>4. NoNewcomer
  BY <1>2, <1>3, NoNewcomerFrom DEF provider, Steady, TypeOK
<1>5. \A p \in Providers : usage'[p] <= usage[p]
  BY <1>1 DEF Steady, TypeOK
<1> QED
  BY <1>1, <1>4, <1>5, BoundStaysEverywhere DEF Steady

LEMMA TickExpireKeepBound ==
  ASSUME Steady, Steady', AdmittedIsBounded, Tick \/ \E p \in Providers : Expire(p)
  PROVE  AdmittedIsBounded'
<1>1. UNCHANGED call
  BY DEF Tick, Expire
<1>2. NoNewcomer
  BY <1>1 DEF NoNewcomer, call, provider, Steady, TypeOK
<1>3. \A p \in Providers : usage'[p] <= usage[p]
  BY DEF Tick, Expire, Steady, TypeOK
<1> QED
  BY <1>1, <1>2, <1>3, BoundStaysEverywhere DEF Steady, call

\* A call is admitted when one more request fits: with the most that may then
\* be to come, the bound is met.
LEMMA CheckKeepsBound ==
  ASSUME Steady, Steady', AdmittedIsBounded, NEW c \in Calls, Check(c)
  PROVE  AdmittedIsBounded'
<1>1. UNCHANGED fake /\ UNCHANGED usage /\ OthersStay(c)
  BY DEF Check, NextProvider, At, Go, pacer, OthersStay, Locals, Steady, TypeOK
<1>2. \A p \in Providers : usage'[p] <= usage[p]
  BY <1>1 DEF Steady, TypeOK
<1>3. CASE ~_usable(c) \/ fake
  <2>1. CASE fake
    <3>1. \A p \in Providers : Pending(p)' = {}
      BY <1>1, <2>1 DEF Pending
    <3> QED
      BY <3>1, <1>2, BoundStays DEF AdmittedIsBounded, Steady
  <2>2. CASE ~_usable(c)
    <3>1. pc'[c] \notin Admitted
      BY <2>2 DEF Check, At, Admitted, Steady, TypeOK
    <3>2. NoNewcomer
      BY <3>1, <1>1, NoNewcomerFrom
    <3> QED
      BY <3>2, <1>1, <1>2, BoundStaysEverywhere DEF Steady
  <2> QED
    BY <1>3, <2>1, <2>2
<1>4. CASE _usable(c) /\ ~fake
  <2>1. budget_available(provider(c)) /\ UNCHANGED <<i, j, kind>>
    BY <1>4 DEF Check, _usable
  <2>2. provider(c)' = provider(c)
    BY <2>1 DEF provider
  <2> SUFFICES ASSUME NEW p \in Providers
               PROVE  usage'[p] + Cardinality(Pending(p)') + 1
                        <= RPM[p] + Cardinality(Calls \X (1..Models[p]))
    BY DEF AdmittedIsBounded, Pending
  <2>3. CASE p = provider(c)
    <3>1. usage'[p] + 1 <= RPM[p]
      BY <2>1, <2>3, <1>1 DEF budget_available
    <3>2. Pending(p)' \subseteq Calls \X (1..Models[p])
      BY DEF Pending
    <3>3. /\ Cardinality(Pending(p)') <= Cardinality(Calls \X (1..Models[p]))
          /\ IsFiniteSet(Pending(p)')
      BY <3>2, RoomIsFinite, FS_Subset
    <3>4. /\ Cardinality(Pending(p)') \in Nat /\ Cardinality(Calls \X (1..Models[p])) \in Nat
          /\ usage'[p] \in Nat /\ RPM[p] \in Nat
      BY <3>3, RoomIsFinite, FS_CardinalityType, GatewayAssumption DEF Steady, TypeOK
    <3> QED
      BY <3>1, <3>3, <3>4
  <2>4. CASE p # provider(c)
    <3>1. Pending(p)' \subseteq Pending(p)
      <4> SUFFICES ASSUME NEW x \in Pending(p)' PROVE x \in Pending(p)
        OBVIOUS
      <4>1. x[1] \in Calls /\ x[1] # c
        BY <2>2, <2>4 DEF Pending
      <4>2. UNCHANGED Locals(x[1]) /\ provider(x[1])' = provider(x[1])
        BY <4>1, <1>1, OthersKept DEF OthersStay
      <4> QED
        BY <4>2, <1>1 DEF Pending, Locals
    <3> QED
      BY <3>1, <1>2, BoundStays DEF Steady
  <2> QED
    BY <2>3, <2>4
<1> QED
  BY <1>3, <1>4

\* A line is added for a request that is no more to come.
LEMMA RecordKeepsBound ==
  ASSUME Steady, Steady', AdmittedIsBounded, NEW c \in Calls,
         RecordEnd(c) \/ RecordFailure(c)
  PROVE  AdmittedIsBounded'
<1>0. /\ pc[c] \in Admitted /\ provider(c) \in Providers
      /\ InRoute(c) /\ j[c] \in 1..Models[provider(c)]
  <2>1. pc[c] = "record"
    BY DEF RecordEnd, RecordFailure, At
  <2> QED
    BY <2>1, AdmittedHasProvider DEF Admitted, Steady
<1>1. UNCHANGED fake /\ OthersStay(c)
  BY DEF RecordEnd, RecordFailure, _record, record_usage, Return, NextProvider, GoesOn,
         OnStreamRestart, At, Go, pacer, OthersStay, Locals, Steady, TypeOK
<1>2. pc'[c] \in Admitted => UNCHANGED <<i[c], kind[c]>> /\ j'[c] = j[c] + 1
  BY DEF RecordEnd, RecordFailure, Return, NextProvider, At, Go, Admitted, Steady,
     TypeOK
<1>3. NoNewcomer
  <2>1. pc'[c] \in Admitted => provider(c)' = provider(c) /\ j[c] <= j'[c]
    BY <1>2, <1>0 DEF provider
  <2> QED
    BY <2>1, <1>0, <1>1, NoNewcomerFrom
<1>4. CASE fake
  <2>0. usage' = usage
    BY <1>4 DEF RecordEnd, RecordFailure, _record, record_usage
  <2>1. \A p \in Providers : usage'[p] <= usage[p]
    BY <2>0 DEF Steady, TypeOK
  <2> QED
    BY <2>1, <1>1, <1>3, BoundStaysEverywhere DEF Steady
<1>5. CASE ~fake
  <2>1. usage' = [usage EXCEPT ![provider(c)] = @ + 1]
    BY <1>5 DEF RecordEnd, RecordFailure, _record, record_usage
  <2> SUFFICES ASSUME NEW p \in Providers
               PROVE  usage'[p] + Cardinality(Pending(p)') + 1
                        <= RPM[p] + Cardinality(Calls \X (1..Models[p]))
    BY DEF AdmittedIsBounded, Pending
  <2>2. Pending(p)' \subseteq Pending(p)
    BY <1>1, <1>3, NoneToCome DEF Steady
  <2>3. CASE p # provider(c)
    <3>1. usage'[p] <= usage[p]
      BY <2>1, <2>3 DEF Steady, TypeOK
    <3> QED
      BY <3>1, <2>2, BoundStays DEF Steady
  <2>4. CASE p = provider(c)
    <3> DEFINE mine == <<c, j[c]>>
    <3>1. mine \in Pending(p)
      BY <2>4, <1>0, <1>5 DEF Pending, Admitted, Steady, TypeOK
    <3>2. mine \notin Pending(p)'
      BY <1>2, <1>0 DEF Pending, Admitted
    <3>3. Pending(p)' \subseteq Pending(p) \ {mine}
      BY <3>2, <2>2
    <3> HIDE DEF mine
    <3>4. /\ IsFiniteSet(Pending(p)) /\ Cardinality(Pending(p)) \in Nat
          /\ Cardinality(Calls \X (1..Models[p])) \in Nat
      BY RoomIsFinite
    <3>5. /\ IsFiniteSet(Pending(p) \ {mine})
          /\ Cardinality(Pending(p) \ {mine}) = Cardinality(Pending(p)) - 1
      BY <3>1, <3>4, FS_RemoveElement
    <3>6. IsFiniteSet(Pending(p)') /\ Cardinality(Pending(p)') <= Cardinality(Pending(p)) - 1
      BY <3>3, <3>5, FS_Subset
    <3>7. Cardinality(Pending(p)') \in Nat
      BY <3>6, FS_CardinalityType
    <3>8. usage'[p] = usage[p] + 1 /\ usage[p] \in Nat /\ RPM[p] \in Nat
      BY <2>1, <2>4, GatewayAssumption DEF Steady, TypeOK
    <3>9. usage[p] + Cardinality(Pending(p)) + 1
            <= RPM[p] + Cardinality(Calls \X (1..Models[p]))
      BY DEF AdmittedIsBounded
    <3> QED
      BY <3>4, <3>6, <3>7, <3>8, <3>9
  <2> QED
    BY <2>3, <2>4
<1> QED
  BY <1>4, <1>5

LEMMA InitBound == Init => AdmittedIsBounded
<1> SUFFICES ASSUME Init, NEW p \in Providers
             PROVE  usage[p] + Cardinality(Pending(p)) + 1
                      <= RPM[p] + Cardinality(Calls \X (1..Models[p]))
  BY DEF AdmittedIsBounded
<1>1. Pending(p) = {} /\ usage[p] = 0 /\ RPM[p] \in Nat
  BY GatewayAssumption DEF Init, Pending
<1>2. Cardinality(Pending(p)) = 0 /\ Cardinality(Calls \X (1..Models[p])) \in Nat \ {0}
  BY <1>1, FS_EmptySet, RoomIsFinite
<1> QED
  BY <1>1, <1>2

-----------------------------------------------------------------------------
(* The theorems. *)

LEMMA StepKeepsInv == ASSUME GatewayInv, [Next]_vars PROVE GatewayInv'
<1>0. Steady /\ AdmittedIsBounded
  BY DEF GatewayInv
<1>1. ASSUME NEW c \in Calls,
             Start(c) \/ Exhausted(c) \/ AskAtOnce(c) \/ TakeTurn(c) \/ WakeUp(c)
               \/ Delta(c) \/ Outcome(c) \/ Cut(c)
      PROVE  GatewayInv'
  <2>1. Steady'
    BY <1>0, <1>1, StartKeeps, ExhaustedKeeps, AskAtOnceKeeps, TakeTurnKeeps, WakeUpKeeps,
       DeltaKeeps, OutcomeKeeps, CutKeeps
  <2> QED
    BY <1>0, <1>1, <2>1, QuietKeepsBound DEF GatewayInv
<1>2. ASSUME NEW c \in Calls, Check(c) PROVE GatewayInv'
  BY <1>0, <1>2, CheckKeeps, CheckKeepsBound DEF GatewayInv
<1>3. ASSUME NEW c \in Calls, RecordEnd(c) \/ RecordFailure(c) PROVE GatewayInv'
  BY <1>0, <1>3, RecordEndKeeps, RecordFailureKeeps, RecordKeepsBound DEF GatewayInv
<1>4. CASE Tick
  BY <1>0, <1>4, TickKeeps, TickExpireKeepBound DEF GatewayInv
<1>5. ASSUME NEW p \in Providers, Expire(p) PROVE GatewayInv'
  BY <1>0, <1>5, ExpireKeeps, TickExpireKeepBound DEF GatewayInv
<1>6. CASE UNCHANGED vars
  <2>1. TypeOK' /\ (\A c \in Calls : CallInv(c)') /\ Turns'
    BY <1>0, <1>6 DEF vars, call, pacer, Steady, TypeOK, TextIsOfOneTry, CallInv,
       InPlace,
       InRoute, provider, TextOfTheTry, OwedWhileTried, Try, Turns, SleeperHolds, HolderSleeps
  <2>2. AdmittedIsBounded'
    BY <1>0, <1>6 DEF vars, call, pacer, AdmittedIsBounded, Pending, provider
  <2> QED
    BY <2>1, <2>2, SteadyFromParts DEF GatewayInv
<1> QED
  BY <1>1, <1>2, <1>3, <1>4, <1>5, <1>6 DEF Next, Step

\* What a gateway call carries from step to step (types, text, lines owed,
\* turns, requests to come) holds for any routes and limits.
THEOREM GatewayInvariant == Spec => []GatewayInv
<1>1. Init => GatewayInv
  BY InitSteady, InitBound DEF GatewayInv
<1> QED
  BY <1>1, StepKeepsInv, PTL DEF Spec

\* The state of the gateway is well typed, and a call admitted by a provider
\* is always at one of the models of its route.
THEOREM GatewayTypeCorrect == Spec => []TypeOK
<1>1. GatewayInv => TypeOK
  BY DEF GatewayInv, Steady
<1> QED
  BY <1>1, GatewayInvariant, PTL

\* The text of `write` comes from one try, whatever breaks in the streams.
THEOREM OneTryText == Spec => []TextIsOfOneTry
<1>1. GatewayInv => TextIsOfOneTry
  BY DEF GatewayInv, Steady
<1> QED
  BY <1>1, GatewayInvariant, PTL

\* A stream that is over, however it ended, leaves no try uncounted.
THEOREM StreamsAreCounted == Spec => []TriesAreCounted
<1>1. GatewayInv => TriesAreCounted
  BY DEF GatewayInv, Steady, TriesAreCounted, OwedWhileTried, At
<1> QED
  BY <1>1, GatewayInvariant, PTL

\* A provider's limit is passed by what the calls may send together, no more.
THEOREM BoundedOverrun == Spec => []OverrunIsBounded
<1>1. GatewayInv => OverrunIsBounded
  <2> SUFFICES ASSUME GatewayInv, NEW p \in Providers
               PROVE  usage[p] + 1 <= RPM[p] + Cardinality(Calls \X (1..Models[p]))
    BY DEF OverrunIsBounded
  <2>1. /\ Cardinality(Pending(p)) \in Nat
        /\ Cardinality(Calls \X (1..Models[p])) \in Nat
    BY RoomIsFinite
  <2>2. usage[p] \in Nat /\ RPM[p] \in Nat
    BY GatewayAssumption DEF GatewayInv, Steady, TypeOK
  <2>3. usage[p] + Cardinality(Pending(p)) + 1
          <= RPM[p] + Cardinality(Calls \X (1..Models[p]))
    BY DEF GatewayInv, AdmittedIsBounded
  <2> QED
    BY <2>1, <2>2, <2>3
<1> QED
  BY <1>1, GatewayInvariant, PTL

\* Requests to a provider limited per second are apart, whoever sends them.
THEOREM RequestsApart == Spec => PacedApart
<1> DEFINE A == \A c \in Calls : At(c, "sleep") /\ pc'[c] = "asked" => since[provider(c)] = Interval
<1>1. ASSUME GatewayInv, [Next]_vars PROVE [A]_vars
  <2> SUFFICES ASSUME Next, NEW c \in Calls, pc[c] = "sleep", pc'[c] = "asked"
               PROVE  since[provider(c)] = Interval
    BY <1>1 DEF At
  <2>1. provider(c) \in Providers /\ SleeperHolds(c)
    BY <1>1, AdmittedHasProvider DEF GatewayInv, Steady
  <2>2. since[provider(c)] \in 0..Interval /\ remaining[c] \in 0..Interval /\ Interval \in Nat
    BY <1>1, <2>1, GatewayAssumption DEF GatewayInv, Steady, TypeOK
  <2>3. remaining[c] = 0
    <3>1. pc \in [Calls -> Pcs]
      BY <1>1 DEF GatewayInv, Steady, TypeOK
    <3>2. \E d \in Calls : Step(d)
      BY <3>1 DEF Next, Start, TakeTurn, Delta, Cut, Return, Tick, Expire, Step, At,
         Go, call
    <3>3. WakeUp(c)
      BY <3>1, <3>2 DEF Step, Check, Exhausted, Return, AskAtOnce, Ask, WakeUp, Outcome,
         RecordEnd, RecordFailure, At, Go
    <3> QED
      BY <3>3 DEF WakeUp
  <2> QED
    BY <2>1, <2>2, <2>3 DEF SleeperHolds
<1> QED
  BY <1>1, GatewayInvariant, PTL DEF Spec, PacedApart

-----------------------------------------------------------------------------
(* A call goes forward through its route. *)

\* Where a call is in its try.
Stage(c) ==
  CASE pc[c] = "check"  -> 1
    [] pc[c] = "pace"   -> 2
    [] pc[c] = "sleep"  -> 3
    [] pc[c] = "asked"  -> 4
    [] pc[c] = "record" -> 5
    [] OTHER            -> 0

\* The next provider of the route, the next model, or further in the try.
Forward(c) ==
  \/ i'[c] > i[c]
  \/ i'[c] = i[c] /\ j'[c] > j[c]
  \/ i'[c] = i[c] /\ j'[c] = j[c] /\ Stage(c)' > Stage(c)

\* A call is at a provider of its route or just past the last, and starts
\* from the first.
OnItsRoute ==
  \A c \in Calls : i[c] <= Len(RouteOf[kind[c]]) + 1 /\ (pc[c] = "idle" => i[c] = 1)

LEMMA RouteLength ==
  ASSUME TypeOK, NEW c \in Calls
  PROVE  Len(RouteOf[kind[c]]) \in Nat
  BY GatewayAssumption DEF TypeOK

\* A call moves itself only.
LEMMA OwnStep ==
  ASSUME TypeOK, NEW c \in Calls, Start(c) \/ Step(c) \/ TakeTurn(c) \/ Delta(c) \/ Cut(c)
  PROVE  \A d \in Calls \ {c} : UNCHANGED <<pc[d], kind[d], i[d], j[d]>>
<1> USE DEF At, Go, Return, Ask, NextProvider, TypeOK
<1>1. CASE Start(c) \/ TakeTurn(c) \/ Delta(c) \/ Cut(c)
  BY <1>1 DEF Start, TakeTurn, Delta, Cut
<1>2. CASE Step(c)
  BY <1>2 DEF Step, Check, Exhausted, AskAtOnce, WakeUp, Outcome, RecordEnd, RecordFailure
<1> QED
  BY <1>1, <1>2

\* Each step of a call takes it further, or ends it.
LEMMA StepGoesForward ==
  ASSUME TypeOK, NEW c \in Calls, Step(c) \/ TakeTurn(c) \/ Cut(c)
  PROVE  Forward(c) \/ pc'[c] = "idle"
<1> USE DEF At, Go, Return, Ask, NextProvider, TypeOK
<1>1. CASE Check(c) \/ Exhausted(c)
  BY <1>1 DEF Check, Exhausted, Forward, Stage
<1>2. CASE TakeTurn(c) \/ Cut(c)
  BY <1>2 DEF TakeTurn, Cut, Forward, Stage
<1>3. CASE AskAtOnce(c) \/ WakeUp(c) \/ Outcome(c)
  BY <1>3 DEF AskAtOnce, WakeUp, Outcome, Forward, Stage
<1>4. CASE RecordEnd(c) \/ RecordFailure(c)
  BY <1>4 DEF RecordEnd, RecordFailure, Forward
<1> QED
  BY <1>1, <1>2, <1>3, <1>4 DEF Step

\* Nothing but its own steps moves a call.
LEMMA CallStays ==
  ASSUME TypeOK, [Next]_vars, NEW c \in Calls, pc[c] # "idle",
         ~(Step(c) \/ TakeTurn(c) \/ Cut(c))
  PROVE  UNCHANGED <<pc[c], i[c], j[c]>>
<1>1. CASE Tick \/ UNCHANGED vars \/ \E p \in Providers : Expire(p)
  BY <1>1 DEF Tick, Expire, vars, call
<1>2. ASSUME NEW d \in Calls \ {c}, Start(d) \/ Step(d) \/ TakeTurn(d) \/ Delta(d) \/ Cut(d)
      PROVE  UNCHANGED <<pc[c], i[c], j[c]>>
  BY <1>2, OwnStep
<1>3. CASE Start(c) \/ Delta(c)
  BY <1>3 DEF Start, Delta, At
<1> QED
  BY <1>1, <1>2, <1>3 DEF Next

LEMMA RouteStep == TypeOK /\ OnItsRoute /\ [Next]_vars => OnItsRoute'
<1> SUFFICES ASSUME TypeOK, OnItsRoute, [Next]_vars PROVE OnItsRoute'
  OBVIOUS
<1>1. CASE UNCHANGED <<pc, kind, i>>
  BY <1>1 DEF OnItsRoute
<1>2. ASSUME NEW c \in Calls, Start(c) \/ Step(c) \/ TakeTurn(c) \/ Delta(c) \/ Cut(c)
      PROVE  OnItsRoute'
  <2>1. i'[c] <= Len(RouteOf[kind'[c]]) + 1 /\ (pc'[c] = "idle" => i'[c] = 1)
    <3> USE DEF At, Go, Return, Ask, NextProvider, TypeOK
    <3>1. Len(RouteOf[kind[c]]) \in Nat /\ i[c] <= Len(RouteOf[kind[c]]) + 1
      BY RouteLength DEF OnItsRoute
    <3>2. CASE Start(c)
      <4>1. i'[c] = 1 /\ kind'[c] \in Kinds /\ pc'[c] # "idle"
        BY <3>2 DEF Start, OnItsRoute
      <4>2. Len(RouteOf[kind'[c]]) \in Nat
        BY <4>1, GatewayAssumption
      <4> QED
        BY <4>1, <4>2
    <3>3. CASE Check(c) \/ RecordFailure(c)
      <4>1. i[c] \in 1..Len(RouteOf[kind[c]])
        BY <3>3, AdmittedHasProvider DEF Check, RecordFailure, InRoute
      <4>2. kind' = kind /\ i'[c] \in {i[c], i[c] + 1} /\ pc'[c] # "idle"
        BY <3>3 DEF Check, RecordFailure
      <4> QED
        BY <3>1, <4>1, <4>2
    <3>4. CASE Exhausted(c) \/ RecordEnd(c)
      BY <3>1, <3>4 DEF Exhausted, RecordEnd
    <3>5. CASE Cut(c)
      BY <3>1, <3>5 DEF Cut
    <3>6. CASE TakeTurn(c) \/ Delta(c) \/ AskAtOnce(c) \/ WakeUp(c) \/ Outcome(c)
      BY <3>1, <3>6 DEF TakeTurn, Delta, AskAtOnce, WakeUp, Outcome
    <3> QED
      BY <1>2, <3>2, <3>3, <3>4, <3>5, <3>6 DEF Step
  <2> QED
    BY <1>2, <2>1, OwnStep DEF OnItsRoute
<1>3. CASE Tick \/ UNCHANGED vars \/ \E p \in Providers : Expire(p)
  BY <1>1, <1>3 DEF Tick, Expire, vars, call
<1> QED
  BY <1>2, <1>3 DEF Next

\* From a call to its end the providers of the route, and the models of each,
\* come in their order and none comes twice, whatever fails, waits or is cut:
\* what EveryCallEnds rests on, with a turn that comes (gateway.py, complete, stream).
NeverTriesAgain ==
  [][\A c \in Calls : pc[c] # "idle" =>
       /\ UNCHANGED <<pc[c], i[c], j[c]>> \/ Forward(c) \/ pc'[c] = "idle"
       /\ (Step(c) \/ TakeTurn(c) \/ Cut(c)) => (Forward(c) \/ pc'[c] = "idle")]_vars

THEOREM NoEndlessCall == Spec => [](TypeOK /\ OnItsRoute) /\ NeverTriesAgain
<1>1. Init => OnItsRoute
  BY RouteLength, InitSteady DEF Init, OnItsRoute, Steady
<1>2. TypeOK /\ [Next]_vars =>
        [\A c \in Calls : pc[c] # "idle" =>
           /\ UNCHANGED <<pc[c], i[c], j[c]>> \/ Forward(c) \/ pc'[c] = "idle"
           /\ (Step(c) \/ TakeTurn(c) \/ Cut(c)) => (Forward(c) \/ pc'[c] = "idle")]_vars
  BY StepGoesForward, CallStays
<1> QED
  BY <1>1, <1>2, RouteStep, GatewayTypeCorrect, PTL DEF Spec, NeverTriesAgain
=============================================================================
