--------------------------- MODULE EdgeEmbedProof ---------------------------
(***************************************************************************)
(* Proofs about EdgeEmbed, for every number of attempts, every set of      *)
(* results and every machine.                                              *)
(***************************************************************************)
EXTENDS EdgeEmbed, TLAPS

\* The constructor has found a runtime, and nothing has changed since
Trusting ==
  pc \notin {"create", "null"} /\ updates = 0 /\ machine.loader # {"version"}

\* The invariant: before embed() there is nothing, and what is under way and
\* what was obtained are counted together
EmbedInv ==
  /\ TypeOK
  /\ OneCreation
  /\ GivesUpLast
  /\ pc \in {"create", "available", "null"} => UnderWay = 0 /\ controller = 0 /\ flag
  /\ pc \in {"create", "available", "null"} => ~missed
  /\ pc = "created" => controller > 0
  /\ trying => pc = "embed" /\ flag
  /\ Trusting => ~Misses(machine)
  /\ CheckedThenFound
  /\ SupportedOnly

\* The operations under way are numbers, and starting adds one of that kind.
LEMMA StartedCounts ==
  ASSUME NEW p \in [Kinds -> Nat], NEW kind \in Kinds
  PROVE  /\ Started(p, kind) \in [Kinds -> Nat]
         /\ Started(p, kind)[kind] = p[kind] + 1
         /\ \A k \in Kinds \ {kind} : Started(p, kind)[k] = p[k]
BY DEF Started

\* Completing takes one operation of that kind away.
LEMMA CompletedCounts ==
  ASSUME TypeOK, NEW kind \in Kinds, pending[kind] > 0
  PROVE  /\ Completed(kind) \in [Kinds -> Nat]
         /\ Completed(kind)[kind] = pending[kind] - 1
         /\ \A k \in Kinds \ {kind} : Completed(kind)[k] = pending[k]
BY DEF Completed, TypeOK

\* parse_version gives four numbers from 0 to the largest long, and one that is
\* not 0 is a component of the version.
LEMMA ParsedInRange ==
  ASSUME NEW v \in Seq(Int), parse_version(v)[3] # 0
  PROVE  Len(v) > 2 /\ v[3] \in 0..MaxLong /\ parse_version(v)[3] = v[3]
BY VersionsAssumption DEF parse_version

\* A client that is found is one of the key, and supported.
LEMMA FoundSupported ==
  ASSUME NEW key \in SUBSET Clients, NEW c \in find_installed_client(key)
  PROVE  /\ c \in Clients /\ Len(c.path) > 1
         /\ Len(c.path[Len(c.path)]) > 2
         /\ c.path[Len(c.path)][3] \in api_version..MaxLong
<1> DEFINE v == get_last_native_path_component(c.path)
<1>1. c \in Clients /\ parse_version(v)[3] >= api_version
  BY DEF find_installed_client
<1>2. c.path \in Seq(Seq(Int))
  BY <1>1 DEF Clients
<1>3. v \in Seq(Int)
  <2>1. CASE Len(c.path) > 1
    <3>1. Len(c.path) \in 1..Len(c.path)
      BY <1>2, <2>1
    <3>2. QED
      BY <1>2, <2>1, <3>1 DEF get_last_native_path_component
  <2>2. CASE ~(Len(c.path) > 1)
    BY <2>2 DEF get_last_native_path_component
  <2>3. QED
    BY <2>1, <2>2
<1>4. parse_version(v)[3] # 0
  BY <1>1, VersionsAssumption DEF parse_version
<1>5. Len(v) > 2 /\ v[3] \in 0..MaxLong /\ v[3] >= api_version
  BY <1>1, <1>3, <1>4, ParsedInRange
<1>6. Len(c.path) > 1 /\ v = c.path[Len(c.path)]
  BY <1>5 DEF get_last_native_path_component
<1>7. QED
  BY <1>1, <1>5, <1>6, VersionsAssumption

\* A client the loader asks is supported.
LEMMA AskedSupported ==
  ASSUME NEW m \in Machines, NEW c \in Asked(m)
  PROVE  /\ c \in Clients /\ Len(c.path) > 1
         /\ Len(c.path[Len(c.path)]) > 2
         /\ c.path[Len(c.path)][3] \in api_version..MaxLong
<1>1. m.system \in SUBSET Clients /\ m.user \in SUBSET Clients
  BY MachinesAssumption
<1>2. c \in find_installed_client(m.system) \/ c \in find_installed_client(m.user)
  BY DEF Asked, find_available_client
<1>3. QED
  BY <1>1, <1>2, FoundSupported

\* UnderWay counts the operations, and one more while the thread is trying.
LEMMA UnderWayCounts ==
  /\ trying => UnderWay = pending["environment"] + pending["controller"] + 1
  /\ ~trying => UnderWay = pending["environment"] + pending["controller"] + 0
BY DEF UnderWay

\* The same in the next state.
LEMMA UnderWayCountsNext ==
  /\ trying' => UnderWay' = pending'["environment"] + pending'["controller"] + 1
  /\ ~trying' => UnderWay' = pending'["environment"] + pending'["controller"] + 0
BY DEF UnderWay

\* Arithmetic, apart from everything else.
LEMMA AddingNothing ==
  ASSUME NEW a \in Nat, NEW b, a <= 1, b = 0
  PROVE  a + b <= 1
OBVIOUS

\* The invariant holds at first.
LEMMA EmbedInit == Init => EmbedInv
<1> SUFFICES ASSUME Init PROVE EmbedInv
  OBVIOUS
<1> USE DEF Init
<1>1. pending \in [Kinds -> Nat] /\ \A k \in Kinds : pending[k] = 0
  OBVIOUS
<1>2. UnderWay = 0
  BY <1>1 DEF UnderWay, Kinds
<1>3. 0 \in 0..MaxAttempts /\ 0 \in 0..MaxPosts /\ 0 \in 0..0 /\ 0 \in 0..MaxUpdates
  BY ResultsAssumption
<1>4. TypeOK
  BY <1>1, <1>3 DEF TypeOK
<1>5. QED
  BY <1>2, <1>4
  DEF EmbedInv, OneCreation, GivesUpLast, Trusting, CheckedThenFound, SupportedOnly

\* Every step keeps the invariant.
LEMMA EmbedStep ==
  ASSUME EmbedInv, [Next]_vars
  PROVE  EmbedInv'
<1> USE DEF EmbedInv, OneCreation, handler, thread, runtime
<1>0. /\ "environment" \in Kinds /\ "controller" \in Kinds
      /\ pending["environment"] \in Nat /\ pending["controller"] \in Nat /\ controller \in Nat
      /\ trying \in BOOLEAN
  BY DEF Kinds, TypeOK
\* What an action that leaves the machine and the handler's questions alone keeps
<1>k. ASSUME UNCHANGED runtime, pc' \in {"null", "create"} \/ (Trusting' => Trusting),
             pc' \in {"create", "available", "null"} => pc \in {"create", "available", "null"}
      PROVE  /\ CheckedThenFound' /\ SupportedOnly' /\ (Trusting' => ~Misses(machine)')
             /\ (pc' \in {"create", "available", "null"} => ~missed')
             /\ machine' \in Machines /\ updates' \in 0..MaxUpdates /\ asked' \subseteq Clients
             /\ missed' \in BOOLEAN
  BY <1>k DEF CheckedThenFound, SupportedOnly, Trusting, Misses, TypeOK
\* A completion is the only thing under way, and embed() still waits for it
<1>c. ASSUME NEW kind \in Kinds, Pumping, pending[kind] > 0
      PROVE  /\ pc = "embed" /\ flag /\ ~trying /\ controller = 0
             /\ Completed(kind) \in [Kinds -> Nat]
             /\ \A k \in Kinds : Completed(kind)[k] = 0
  <2>1. /\ controller = 0 /\ pending[kind] = 1 /\ \A k \in Kinds \ {kind} : pending[k] = 0
    BY <1>0, <1>c DEF Kinds, UnderWay, Pumping
  <2>2. QED
    BY <1>c, <2>1, CompletedCounts DEF Pumping
<1>1. CASE Update
  <2>1. TypeOK' /\ Trusting' = FALSE /\ updates' > 0
    BY <1>1, ResultsAssumption DEF Update, TypeOK, Trusting
  <2>2. QED
    BY <1>1, <2>1 DEF Update, GivesUpLast, UnderWay, CheckedThenFound, SupportedOnly, Trusting
<1>2. CASE Check
  <2>1. machine \in Machines /\ machine.loader \subseteq Symbols /\ ~missed
    BY <1>2, MachinesAssumption DEF Check, TypeOK
  <2>2. pc' = "available" /\ machine.loader # {"version"} => ~Misses(machine)
    BY <1>2, <2>1
    DEF Check, get_available_browser_version_string, get_available_browser_version_string_impl,
        Misses, Symbols
  <2>3. TypeOK' /\ UnderWay' = UnderWay
    BY <1>2 DEF Check, TypeOK, UnderWay
  <2>4. Trusting' => ~Misses(machine)'
    BY <1>2, <2>2 DEF Check, Trusting, Misses
  <2>5. QED
    BY <1>2, <2>1, <2>3, <2>4 DEF Check, GivesUpLast, CheckedThenFound, SupportedOnly
<1>3. CASE CreateFails \/ CreateCrashes \/ CreateEmbeds
  <2>1. TypeOK'
    BY <1>3 DEF CreateFails, CreateCrashes, CreateEmbeds, OpensWindow, EmbedTries, TypeOK
  <2>2. /\ CheckedThenFound' /\ SupportedOnly' /\ (Trusting' => ~Misses(machine)')
        /\ (pc' \in {"create", "available", "null"} => ~missed')
    BY <1>3, <1>k DEF CreateFails, CreateCrashes, CreateEmbeds, OpensWindow, EmbedTries, Trusting
  <2>3. UnderWay = 0 /\ controller = 0 /\ flag
    BY <1>3 DEF CreateFails, CreateCrashes, CreateEmbeds, OpensWindow, EmbedTries
  <2>4. UnderWay' + controller' <= 1 /\ GivesUpLast'
    <3>1. CASE CreateFails \/ CreateCrashes
      <4>1. UNCHANGED <<flag, pending, trying, controller>>
        BY <3>1 DEF CreateFails, CreateCrashes
      <4>2. UnderWay' = 0 /\ controller' = 0 /\ flag'
        BY <2>3, <4>1 DEF UnderWay
      <4>3. QED
        BY <4>2 DEF GivesUpLast
    <3>2. CASE CreateEmbeds
      <4>1. pending["environment"] = 0 /\ pending["controller"] = 0
        BY <1>0, <2>3, UnderWayCounts
      <4>2. trying' /\ UNCHANGED <<pending, controller, flag>>
        BY <3>2 DEF CreateEmbeds, EmbedTries
      <4>3. UnderWay' = 1 /\ controller' = 0 /\ flag'
        BY <2>3, <4>1, <4>2, UnderWayCountsNext
      <4>4. QED
        BY <4>3 DEF GivesUpLast
    <3>3. QED
      BY <1>3, <3>1, <3>2
  <2>5. CASE CreateFails \/ CreateCrashes
    <3>1. UnderWay' = UnderWay /\ pc' \in {"null", "crashed"} /\ UNCHANGED <<handler, thread>>
      BY <2>5 DEF CreateFails, CreateCrashes, UnderWay
    <3>2. pc = "available" /\ trying' = trying
      BY <2>5 DEF CreateFails, CreateCrashes
    <3>3. ~trying'
      BY <3>2
    <3>4. QED
      BY <2>1, <2>2, <2>3, <2>4, <3>1, <3>3
  <2>6. CASE CreateEmbeds
    <3>1. pc' = "embed" /\ flag' = flag /\ UNCHANGED thread
      BY <2>6 DEF CreateEmbeds, EmbedTries
    <3>2. QED
      BY <2>1, <2>2, <2>3, <2>4, <3>1
  <2>7. QED
    BY <1>3, <2>5, <2>6
<1>4. CASE TryCreateEnvironment
  <2>1. pc = "embed" /\ flag /\ trying /\ controller = 0 /\ \A k \in Kinds : pending[k] = 0
    BY <1>0, <1>4 DEF TryCreateEnvironment, UnderWay, Kinds
  <2>2. pending \in [Kinds -> Nat] /\ attempts \in 0..MaxAttempts /\ MaxAttempts \in Nat
    BY ResultsAssumption DEF TypeOK
  <2>3. CASE attempts < MaxAttempts
    <3>1. PICK r \in create_environment_with_options(machine, Results) :
             /\ trying' = (r = "failed")
             /\ pending' = IF r = "ok" THEN Started(pending, "environment") ELSE pending
      BY <1>4, <2>3 DEF TryCreateEnvironment
    <3>2. /\ attempts' = attempts + 1 /\ asked' = Asked(machine)
          /\ missed' = (missed \/ Misses(machine))
          /\ UNCHANGED <<flag, pc, own, window, controller, thread, machine, updates>>
      BY <1>4, <2>3 DEF TryCreateEnvironment
    <3>3. /\ pending' \in [Kinds -> Nat] /\ trying' \in BOOLEAN
          /\ UnderWay' <= 1 /\ UnderWay' \in Nat
      <4>1. CASE r = "ok"
        <5>1. ~trying' /\ trying' \in BOOLEAN /\ pending' = Started(pending, "environment")
          BY <3>1, <4>1
        <5>2. /\ pending' \in [Kinds -> Nat]
              /\ pending'["environment"] = 1 /\ pending'["controller"] = 0
          BY <2>1, <2>2, <5>1, StartedCounts DEF Kinds
        <5>3. UnderWay' = 1
          BY <5>1, <5>2, UnderWayCountsNext
        <5>4. QED
          BY <5>1, <5>2, <5>3
      <4>2. CASE r # "ok"
        <5>1. pending' = pending
          BY <3>1, <4>2
        <5>2. UnderWay' \in {0, 1}
          BY <1>0, <2>1, <3>1, <5>1 DEF UnderWay
        <5>3. trying' \in BOOLEAN
          BY <3>1
        <5>4. QED
          BY <2>2, <5>1, <5>2, <5>3
      <4>3. QED
        BY <4>1, <4>2
    <3>4. machine \in Machines /\ asked' \subseteq Clients /\ SupportedOnly'
      BY <3>2, AskedSupported DEF TypeOK, SupportedOnly
    <3>5. missed' \in BOOLEAN
      BY <3>2 DEF TypeOK
    <3>6. attempts' \in 0..MaxAttempts
      BY <2>2, <2>3, <3>2
    <3>7. TypeOK'
      BY <3>2, <3>3, <3>4, <3>5, <3>6 DEF TypeOK
    <3>8. CheckedThenFound'
      BY <2>1, <3>2 DEF CheckedThenFound, Trusting, TypeOK
    <3>9. QED
      <4>1. GivesUpLast' /\ UnderWay' + controller' <= 1
        <5>1. flag' /\ controller' = 0
          BY <2>1, <3>2, Zenon
        <5>2. QED
          <6>1. UnderWay' \in Nat /\ UnderWay' <= 1 /\ controller' = 0
            BY <3>3, <5>1, Zenon
          <6>2. UnderWay' + controller' <= 1
            BY <6>1, AddingNothing, Zenon
          <6>3. QED
            BY <5>1, <6>2, Zenon DEF GivesUpLast
      <4>2. Trusting' => ~Misses(machine)'
        BY <2>1, <3>2 DEF Trusting, Misses
      <4>3. pc' = "embed" /\ flag'
        BY <2>1, <3>2
      <4>4. QED
        BY <3>4, <3>7, <3>8, <4>1, <4>2, <4>3
  <2>4. CASE ~(attempts < MaxAttempts)
    <3>1. /\ trying' = FALSE /\ flag' = FALSE
          /\ UNCHANGED <<attempts, pending, asked, missed,
                         pc, own, window, controller, thread, machine, updates>>
      BY <1>4, <2>4 DEF TryCreateEnvironment
    <3>2. attempts = MaxAttempts /\ UnderWay' = 0
      BY <2>1, <2>2, <2>4, <3>1 DEF UnderWay, Kinds
    <3>3. TypeOK'
      BY <3>1 DEF TypeOK
    <3>4. QED
      BY <2>1, <3>1, <3>2, <3>3
      DEF GivesUpLast, Trusting, Misses, CheckedThenFound, SupportedOnly
  <2>5. QED
    BY <2>3, <2>4
<1>5. CASE EnvironmentCompleted
  <2> DEFINE rest == Completed("environment")
  <2>1. /\ pc = "embed" /\ flag /\ ~trying /\ controller = 0
        /\ rest \in [Kinds -> Nat] /\ \A k \in Kinds : rest[k] = 0
    BY <1>0, <1>5, <1>c DEF EnvironmentCompleted
  <2>2. /\ UNCHANGED <<pc, own, window, flag, attempts, controller, thread, runtime>>
        /\ \/ pending' = Started(rest, "controller") /\ UNCHANGED trying
           \/ pending' = rest /\ trying' = TRUE
    BY <1>5 DEF EnvironmentCompleted
  <2>3. pending' \in [Kinds -> Nat] /\ trying' \in BOOLEAN /\ UnderWay' = 1
    <3>1. CASE pending' = Started(rest, "controller") /\ UNCHANGED trying
      BY <1>0, <2>1, <3>1, StartedCounts DEF UnderWay, Kinds
    <3>2. CASE pending' = rest /\ trying' = TRUE
      BY <1>0, <2>1, <3>2 DEF UnderWay
    <3>3. QED
      BY <2>2, <3>1, <3>2
  <2>4. TypeOK' /\ GivesUpLast'
    BY <2>1, <2>2, <2>3 DEF TypeOK, GivesUpLast
  <2>5. /\ CheckedThenFound' /\ SupportedOnly' /\ (Trusting' => ~Misses(machine)')
    BY <2>1, <2>2, <1>k DEF Trusting
  <2>6. QED
    BY <2>1, <2>2, <2>3, <2>4, <2>5
<1>6. CASE ControllerCompleted
  <2> DEFINE rest == Completed("controller")
  <2>1. /\ pc = "embed" /\ flag /\ ~trying /\ controller = 0
        /\ rest \in [Kinds -> Nat] /\ \A k \in Kinds : rest[k] = 0
    BY <1>0, <1>6, <1>c DEF ControllerCompleted
  <2>2. /\ UNCHANGED <<pc, own, window, attempts, thread, runtime>> /\ pending' = rest
        /\ \/ controller' = 1 /\ flag' = FALSE /\ UNCHANGED trying
           \/ UNCHANGED <<controller, flag, trying>>
           \/ trying' = TRUE /\ UNCHANGED <<controller, flag>>
    <3>1. 0 + 1 = 1
      OBVIOUS
    <3>2. QED
      BY <1>6, <2>1, <3>1, Zenon DEF ControllerCompleted
  <2>f. flag \in BOOLEAN
    BY DEF TypeOK
  <2>3. /\ controller' \in {0, 1} /\ {flag', trying'} \subseteq BOOLEAN
        /\ UnderWay' \in Nat /\ UnderWay' + controller' <= 1
        /\ (trying' => flag') /\ (~flag' => controller' = 1)
    <3>1. rest["environment"] = 0 /\ rest["controller"] = 0
      BY <1>0, <2>1
    <3> HIDE DEF rest
    <3>2. pending'["environment"] = 0 /\ pending'["controller"] = 0
      BY <2>2, <3>1
    <3>3. CASE controller' = 1 /\ flag' = FALSE /\ UNCHANGED trying
      <4>1. ~trying' /\ trying' \in BOOLEAN /\ ~flag' /\ flag' \in BOOLEAN
        BY <1>0, <2>1, <3>3, Zenon
      <4>2. QED
        BY <3>2, <3>3, <4>1, UnderWayCountsNext
    <3>4. CASE UNCHANGED <<controller, flag, trying>>
      <4>1. ~trying' /\ trying' \in BOOLEAN /\ flag' /\ flag' \in BOOLEAN /\ controller' = 0
        BY <1>0, <2>1, <3>4, <2>f, Zenon
      <4>2. QED
        BY <3>2, <4>1, UnderWayCountsNext
    <3>5. CASE trying' = TRUE /\ UNCHANGED <<controller, flag>>
      <4>1. trying' /\ trying' \in BOOLEAN /\ flag' /\ flag' \in BOOLEAN /\ controller' = 0
        BY <2>1, <3>5, <2>f, Zenon
      <4>2. QED
        BY <3>2, <4>1, UnderWayCountsNext
    <3>6. QED
      BY <2>2, <3>3, <3>4, <3>5
  <2>4. TypeOK' /\ GivesUpLast'
    <3> HIDE DEF rest
    <3>1. pending' \in [Kinds -> Nat]
      BY <2>1, <2>2
    <3>2. QED
      BY <2>2, <2>3, <3>1 DEF TypeOK, GivesUpLast
  <2>5. /\ CheckedThenFound' /\ SupportedOnly' /\ (Trusting' => ~Misses(machine)')
    BY <2>1, <2>2, <1>k DEF Trusting
  <2>6. QED
    BY <2>1, <2>2, <2>3, <2>4, <2>5
<1>7. CASE WindowDestroyed
  <2>1. TypeOK' /\ GivesUpLast' /\ UnderWay' = UnderWay /\ UNCHANGED handler
    BY <1>7 DEF WindowDestroyed, TypeOK, GivesUpLast, UnderWay
  <2>2. /\ CheckedThenFound' /\ SupportedOnly' /\ (Trusting' => ~Misses(machine)')
    BY <1>7, <1>k DEF WindowDestroyed, Trusting
  <2>3. QED
    BY <1>7, <2>1, <2>2 DEF WindowDestroyed
<1>8. CASE Post \/ OtherTerminates
  <2>1. TypeOK' /\ UnderWay' = UnderWay /\ UNCHANGED handler
    <3>1. CASE Post
      <4>1. posts' \in 0..MaxPosts /\ queue' \in 0..posts'
        BY <3>1, ResultsAssumption DEF Post, TypeOK
      <4> QED BY <3>1, <4>1 DEF Post, TypeOK, UnderWay
    <3>2. CASE OtherTerminates
      BY <3>2 DEF OtherTerminates, TypeOK, UnderWay
    <3> QED BY <1>8, <3>1, <3>2
  <2>2. /\ CheckedThenFound' /\ SupportedOnly' /\ (Trusting' => ~Misses(machine)')
        /\ (pc' \in {"create", "available", "null"} => ~missed')
    BY <1>8, <1>k DEF Post, OtherTerminates, Trusting
  <2>3. QED
    BY <1>8, <2>1, <2>2 DEF Post, OtherTerminates, GivesUpLast
<1>9. CASE PumpFunction
  <2>1. TypeOK' /\ UnderWay' = UnderWay /\ UNCHANGED handler
    BY <1>9, ResultsAssumption DEF PumpFunction, TypeOK, UnderWay
  <2>2. /\ CheckedThenFound' /\ SupportedOnly' /\ (Trusting' => ~Misses(machine)')
        /\ (pc' \in {"create", "available", "null"} => ~missed')
    BY <1>9, <1>k DEF PumpFunction, Trusting
  <2>3. QED
    BY <1>9, <2>1, <2>2 DEF PumpFunction, Pumping, GivesUpLast
<1>10. CASE EmbedLeaves
  <2>1. TypeOK' /\ UnderWay' = UnderWay /\ UNCHANGED handler
    BY <1>10 DEF EmbedLeaves, Concludes, TypeOK, UnderWay
  <2>2. /\ CheckedThenFound' /\ SupportedOnly' /\ (Trusting' => ~Misses(machine)')
    BY <1>10, <1>k DEF EmbedLeaves, Concludes, Trusting
  <2>3. QED
    BY <1>10, <2>1, <2>2 DEF EmbedLeaves, Concludes, GivesUpLast
<1>11. CASE UNCHANGED vars
  <2>1. TypeOK' /\ UnderWay' = UnderWay /\ GivesUpLast'
    BY <1>11 DEF vars, TypeOK, UnderWay, GivesUpLast
  <2>2. QED
    BY <1>11, <2>1, <1>k DEF vars, Trusting
<1>12. QED
  BY <1>1, <1>2, <1>3, <1>4, <1>5, <1>6, <1>7, <1>8, <1>9, <1>10, <1>11 DEF Next

\* The invariant holds in every reachable state.
THEOREM EmbedInvariant == Spec => []EmbedInv
BY EmbedInit, EmbedStep, PTL DEF Spec

\* TypeOK: in particular, never more than MaxAttempts attempts are made.
THEOREM TypesHold == Spec => []TypeOK
<1>1. EmbedInv => TypeOK
  BY DEF EmbedInv
<1>2. QED
  BY <1>1, EmbedInvariant, PTL

\* OneCreation: at most one environment or controller is ever under way.
THEOREM OneCreationHolds == Spec => []OneCreation
<1>1. EmbedInv => OneCreation
  BY DEF EmbedInv
<1>2. QED
  BY <1>1, EmbedInvariant, PTL

\* GivesUpLast: embed() gives up only when all attempts have failed.
THEOREM GivesUpLastHolds == Spec => []GivesUpLast
<1>1. EmbedInv => GivesUpLast
  BY DEF EmbedInv
<1>2. QED
  BY <1>1, EmbedInvariant, PTL

\* CheckedThenFound: on a machine that does not change, the runtime found by the
\* check of the constructor is found by every attempt.
THEOREM CheckedThenFoundHolds == Spec => []CheckedThenFound
<1>1. EmbedInv => CheckedThenFound
  BY DEF EmbedInv
<1>2. QED
  BY <1>1, EmbedInvariant, PTL

\* SupportedOnly: whatever the registry holds, a client that is asked is supported.
THEOREM SupportedOnlyHolds == Spec => []SupportedOnly
<1>1. EmbedInv => SupportedOnly
  BY DEF EmbedInv
<1>2. QED
  BY <1>1, EmbedInvariant, PTL
-----------------------------------------------------------------------------
\* A window of the constructor's own that is destroyed tells the thread to quit
DestroyedQuits == pc = "embed" /\ own /\ window = "destroyed" => quit

\* What a creation has been answered: it was started, or failed, or nothing was
\* done for want of an entry point.
LEMMA AttemptResults ==
  ASSUME NEW m, NEW r \in create_environment_with_options(m, Results)
  PROVE  \/ r \in {"ok", "failed"} \/ "invalid_state" \in Results
         \/ \E c \in Asked(m) : ~c.entry
BY ResultsAssumption DEF create_environment_with_options, create_environment_with_options_impl

\* One of two counts is at most what both are.
LEMMA SumBelow ==
  ASSUME NEW a \in Nat, NEW b \in Nat, a + b <= 1
  PROVE  a <= 1
OBVIOUS

\* No step leaves embed() waiting for nothing.
LEMMA WaitStep ==
  ASSUME EmbedInv, EmbedInv', EmbedWaits, DestroyedQuits, [Next]_vars
  PROVE  EmbedWaits' /\ DestroyedQuits'
<1> USE DEF EmbedWaits, DestroyedQuits, handler, thread, runtime
<1>1. /\ pending["environment"] \in Nat /\ pending["controller"] \in Nat
      /\ pending'["environment"] \in Nat /\ pending'["controller"] \in Nat
  BY DEF EmbedInv, TypeOK, Kinds
<1>2. ASSUME UNCHANGED <<handler, own, window, asked>>, pc' = pc, quit => quit'
      PROVE  EmbedWaits' /\ DestroyedQuits'
  <2>1. UnderWay' = UnderWay
    BY <1>2 DEF UnderWay
  <2> QED BY <1>2, <2>1
<1>3. CASE Update \/ Post \/ OtherTerminates \/ PumpFunction \/ UNCHANGED vars
  BY <1>2, <1>3 DEF Update, Post, OtherTerminates, PumpFunction, vars
<1>4. CASE Check \/ CreateFails \/ CreateCrashes
  BY <1>4 DEF Check, CreateFails, CreateCrashes
<1>5. CASE EmbedLeaves
  BY <1>5 DEF EmbedLeaves, Concludes
\* What is under way next is counted once
<1>b. trying' \/ pending'["environment"] > 0 \/ pending'["controller"] > 0 => UnderWay' = 1
  <2>1. UnderWay' + controller' <= 1 /\ controller' \in Nat
    <3>1. OneCreation' /\ TypeOK'
      BY DEF EmbedInv
    <3>2. controller' \in Nat
      BY <3>1 DEF TypeOK
    <3> QED BY <3>1, <3>2 DEF OneCreation
  <2>2. UnderWay' \in Nat
    BY <1>1, <2>1, UnderWayCountsNext
  <2>3. UnderWay' <= 1
    BY <2>1, <2>2, SumBelow, Zenon
  <2>4. CASE trying'
    BY <1>1, <2>3, <2>4, UnderWayCountsNext
  <2>5. CASE ~trying'
    BY <1>1, <2>3, <2>5, UnderWayCountsNext
  <2> QED BY <2>4, <2>5
<1>6. CASE CreateEmbeds
  <2>1. UnderWay' = 1
    BY <1>6, <1>b DEF CreateEmbeds, EmbedTries
  <2> QED BY <1>6, <2>1 DEF CreateEmbeds, OpensWindow
<1>7. CASE WindowDestroyed
  <2>1. own' => quit'
    BY <1>7 DEF WindowDestroyed
  <2> QED BY <1>7, <2>1 DEF WindowDestroyed
<1>8. CASE TryCreateEnvironment
  <2>1. UNCHANGED <<pc, own, window, quit>>
    BY <1>8 DEF TryCreateEnvironment
  <2>2. CASE attempts < MaxAttempts
    <3>1. PICK r \in create_environment_with_options(machine, Results) :
             /\ trying' = (r = "failed")
             /\ pending' = IF r = "ok" THEN Started(pending, "environment") ELSE pending
      BY <1>8, <2>2 DEF TryCreateEnvironment
    <3>2. asked' = Asked(machine)
      BY <1>8, <2>2 DEF TryCreateEnvironment
    <3>3. CASE r = "ok"
      <4>1. pending'["environment"] > 0
        BY <1>1, <3>1, <3>3, StartedCounts DEF EmbedInv, TypeOK, Kinds
      <4> QED BY <1>b, <2>1, <4>1
    <3>4. CASE r = "failed"
      BY <1>b, <2>1, <3>1, <3>4
    <3>5. CASE "invalid_state" \in Results \/ \E c \in Asked(machine) : ~c.entry
      BY <2>1, <3>2, <3>5
    <3> QED BY <3>3, <3>4, <3>5, AttemptResults
  <2>3. CASE ~(attempts < MaxAttempts)
    BY <1>8, <2>1, <2>3 DEF TryCreateEnvironment
  <2> QED BY <2>2, <2>3
<1>9. CASE EnvironmentCompleted
  <2> DEFINE rest == Completed("environment")
  <2>1. /\ UNCHANGED <<pc, own, window, quit>>
        /\ pending' = Started(rest, "controller") \/ trying' = TRUE
    BY <1>9 DEF EnvironmentCompleted
  <2>2. rest \in [Kinds -> Nat] /\ "controller" \in Kinds
    BY <1>9, CompletedCounts DEF EnvironmentCompleted, EmbedInv, Kinds
  <2> HIDE DEF rest
  <2>3. pending' = Started(rest, "controller") => pending'["controller"] > 0
    BY <2>2, StartedCounts
  <2> QED BY <1>b, <2>1, <2>3
<1>10. CASE ControllerCompleted
  <2>1. UNCHANGED <<pc, own, window, quit, asked>>
    BY <1>10 DEF ControllerCompleted
  <2>2. \/ flag' = FALSE
        \/ trying' = TRUE
        \/ window = "destroyed" \/ "invalid_state" \in Results
    BY <1>10 DEF ControllerCompleted
  <2> QED BY <1>b, <2>1, <2>2
<1> QED
  BY <1>3, <1>4, <1>5, <1>6, <1>7, <1>8, <1>9, <1>10 DEF Next

\* EmbedWaits: embed() waits only as long as something will end its waiting, for
\* any number of attempts and any results, with the exceptions it names.
THEOREM EmbedWaitsHolds == Spec => []EmbedWaits
<1>1. Init => EmbedWaits /\ DestroyedQuits
  BY DEF Init, EmbedWaits, DestroyedQuits
<1>2. QED
  BY <1>1, WaitStep, EmbedInvariant, PTL DEF Spec
-----------------------------------------------------------------------------
\* Every step of the handler takes something off.
LEMMA RetriesStep ==
  ASSUME EmbedInv, EmbedInv', [Next]_vars, pc # "available", handler' # handler
  PROVE  StepsLeft' \in 0..StepsLeft - 1
<1> USE DEF handler, thread, runtime
<1> DEFINE e == pending["environment"]
           c == pending["controller"]
<1>1. /\ e \in Nat /\ c \in Nat /\ e' \in Nat /\ c' \in Nat
      /\ attempts \in Nat /\ attempts' \in Nat /\ MaxAttempts \in Nat
      /\ attempts <= MaxAttempts /\ attempts' <= MaxAttempts
      /\ trying \in BOOLEAN /\ trying' \in BOOLEAN /\ pending \in [Kinds -> Nat]
  BY ResultsAssumption DEF EmbedInv, TypeOK, Kinds
<1>2. /\ trying => StepsLeft = 3 * (MaxAttempts - attempts) + 1 + 3 * e + 2 * c
      /\ ~trying => StepsLeft = 3 * (MaxAttempts - attempts) + 0 + 3 * e + 2 * c
      /\ trying' => StepsLeft' = 3 * (MaxAttempts - attempts') + 1 + 3 * e' + 2 * c'
      /\ ~trying' => StepsLeft' = 3 * (MaxAttempts - attempts') + 0 + 3 * e' + 2 * c'
  BY DEF StepsLeft
<1>3. StepsLeft \in Nat /\ StepsLeft' \in Nat
  <2> HIDE DEF e, c
  <2> QED BY <1>1, <1>2
<1>4. SUFFICES StepsLeft' < StepsLeft
  BY <1>3
<1>5. CASE TryCreateEnvironment
  <2>1. trying
    BY <1>5 DEF TryCreateEnvironment
  <2>2. CASE attempts < MaxAttempts
    <3>1. PICK r : /\ trying' = (r = "failed")
                   /\ pending' = IF r = "ok" THEN Started(pending, "environment") ELSE pending
      BY <1>5, <2>2 DEF TryCreateEnvironment
    <3>2. attempts' = attempts + 1
      BY <1>5, <2>2 DEF TryCreateEnvironment
    <3>3. r = "ok" => ~trying' /\ e' = e + 1 /\ c' = c
      BY <1>1, <3>1, StartedCounts DEF Kinds
    <3>4. r # "ok" => e' = e /\ c' = c
      BY <3>1
    <3> HIDE DEF e, c
    <3> QED BY <1>1, <1>2, <2>1, <3>2, <3>3, <3>4
  <2>3. CASE ~(attempts < MaxAttempts)
    <3>1. ~trying' /\ attempts' = attempts /\ e' = e /\ c' = c
      BY <1>5, <2>3 DEF TryCreateEnvironment
    <3> HIDE DEF e, c
    <3> QED BY <1>1, <1>2, <2>1, <3>1
  <2> QED BY <2>2, <2>3
<1>6. CASE EnvironmentCompleted
  <2> DEFINE rest == Completed("environment")
  <2>1. /\ ~trying /\ attempts' = attempts
        /\ \/ pending' = Started(rest, "controller") /\ UNCHANGED trying
           \/ pending' = rest /\ trying' = TRUE
    BY <1>6 DEF EnvironmentCompleted, Pumping
  <2>2. /\ rest \in [Kinds -> Nat] /\ rest["environment"] = e - 1 /\ rest["controller"] = c
        /\ "controller" \in Kinds /\ "environment" \in Kinds \ {"controller"}
    BY <1>6, CompletedCounts DEF EnvironmentCompleted, EmbedInv, Kinds
  <2> HIDE DEF rest
  <2>3. CASE pending' = Started(rest, "controller") /\ UNCHANGED trying
    <3>1. ~trying' /\ e' = e - 1 /\ c' = c + 1
      BY <2>1, <2>2, <2>3, StartedCounts
    <3> HIDE DEF e, c
    <3> QED BY <1>1, <1>2, <2>1, <3>1
  <2>4. CASE pending' = rest /\ trying' = TRUE
    <3>1. trying' /\ e' = e - 1 /\ c' = c
      BY <2>2, <2>4
    <3> HIDE DEF e, c
    <3> QED BY <1>1, <1>2, <2>1, <3>1
  <2> QED BY <2>1, <2>3, <2>4
<1>7. CASE ControllerCompleted
  <2>1. ~trying /\ attempts' = attempts /\ pending' = Completed("controller")
    BY <1>7 DEF ControllerCompleted, Pumping
  <2>2. e' = e /\ c' = c - 1
    BY <1>7, <2>1, CompletedCounts DEF ControllerCompleted, EmbedInv, Kinds
  <2> HIDE DEF e, c
  <2> QED BY <1>1, <1>2, <2>1, <2>2
<1>8. CASE \/ Update \/ Check \/ CreateFails \/ CreateEmbeds \/ CreateCrashes
           \/ WindowDestroyed \/ Post \/ OtherTerminates \/ PumpFunction \/ EmbedLeaves \/ UNCHANGED vars
  BY <1>8 DEF Update, Check, CreateFails, CreateEmbeds, CreateCrashes, WindowDestroyed, Post,
              OtherTerminates, PumpFunction, EmbedLeaves, vars
<1> QED BY <1>5, <1>6, <1>7, <1>8 DEF Next

\* RetriesEnd: whatever WebView2 reports and however the machine changes, the
\* handler has a bounded number of steps left, which each of its steps reduces.
THEOREM RetriesEndHolds == Spec => RetriesEnd
<1>1. EmbedInv /\ EmbedInv' /\ [Next]_vars
        => [pc # "available" /\ handler' # handler => StepsLeft' \in 0..StepsLeft - 1]_vars
  BY RetriesStep
<1>2. QED
  BY <1>1, EmbedInvariant, PTL DEF Spec, RetriesEnd
=============================================================================
