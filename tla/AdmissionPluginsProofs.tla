------------------------ MODULE AdmissionPluginsProofs ------------------------
(***************************************************************************)
(* Proofs about the model of plugins.go: Register never replaces a         *)
(* registered factory, and a chain NewFromPlugins built is faithful to its *)
(* list of names and to the registry, for every registry and every list.   *)
(***************************************************************************)
EXTENDS AdmissionPlugins, SequenceTheorems, TLAPS

(* What the loop of NewFromPlugins has established about builder b once   *)
(* it has looked at the names before bi[b].                                *)
LoopInv(b) ==
  LET h == handlers[b] IN
  /\ \A j, k \in 1 .. Len(h) : j < k => h[j][1] < h[k][1]
  /\ \A j \in 1 .. Len(h) : h[j][1] < bi[b] /\ PluginNames[b][h[j][1]] \in Names
  /\ \A j \in 1 .. Len(h) : registry[PluginNames[b][h[j][1]]] = h[j][2]
  /\ \A i \in 1 .. bi[b] - 1 :
       PluginNames[b][i] # EmptyName => registry[PluginNames[b][i]] # NoFactory
  /\ bpc[b] = "built" => bi[b] = Len(PluginNames[b]) + 1

(* The inductive invariant. *)
PInv == TypeOK /\ \A b \in Builders : LoopInv(b)


(* Every entry of a builder's list is a plugin name or the empty name.   *)
LEMMA NameInList ==
  ASSUME NEW b \in Builders, NEW i \in 1 .. Len(PluginNames[b])
  PROVE  PluginNames[b][i] \in Names \cup {EmptyName}
BY PluginsAssumption

(* A step of Register leaves every registered name's factory as it was.    *)
LEMMA RegisterKeeps ==
  ASSUME TypeOK, NEW reg \in Registrations, Register(reg)
  PROVE  \A n \in Names : registry[n] # NoFactory => registry'[n] = registry[n]
BY PluginsAssumption DEF Register, TypeOK

(* An iteration of NewFromPlugins that does not fail has looked its name   *)
(* up in the registry and found it, unless the name was the empty one;    *)
(* one that appends a plugin has a real name.                              *)
LEMMA OutcomeFound ==
  ASSUME NEW n, NEW out \in StepOutcomes(n), out \notin Failures
  PROVE  /\ n # EmptyName => registry[n] # NoFactory
         /\ out = "ok" => n # EmptyName /\ registry[n] # NoFactory
<1>1. CASE n = EmptyName
  BY <1>1 DEF StepOutcomes, InitPlugin, Failures
<1>2. CASE n # EmptyName /\ registry[n] = NoFactory
  <2>1. out \in {"configError", "unknown"}
    BY <1>2 DEF StepOutcomes, InitPlugin, GetPlugin
  <2>. QED  BY <2>1 DEF Failures
<1>. QED  BY <1>1, <1>2

LEMMA PInvInit == Init => PInv
<1> SUFFICES ASSUME Init PROVE PInv
  OBVIOUS
<1>1. ASSUME NEW b \in Builders
      PROVE  /\ bi[b] \in 1 .. Len(PluginNames[b]) + 1
             /\ handlers[b] \in Seq((1 .. Len(PluginNames[b])) \X Factories)
             /\ LoopInv(b)
  BY PluginsAssumption DEF Init, LoopInv
<1>2. TypeOK
  <2>1. registry \in [Names -> Factories \cup {NoFactory}]
    BY DEF Init
  <2>2. bi \in [Builders -> Nat] /\ handlers \in [Builders -> Seq(Nat \X Factories)]
    BY DEF Init
  <2>3. bpc \in [Builders -> {"building", "built", "failed"}]
    BY DEF Init
  <2>4. \A b \in Builders :
          /\ bi[b] \in 1 .. Len(PluginNames[b]) + 1
          /\ handlers[b] \in Seq((1 .. Len(PluginNames[b])) \X Factories)
    BY <1>1
  <2>5. pending \subseteq Registrations /\ fatal \in BOOLEAN
    BY DEF Init
  <2>. QED  BY <2>1, <2>2, <2>3, <2>4, <2>5 DEF TypeOK
<1>3. \A b \in Builders : LoopInv(b)
  BY <1>1
<1>. QED  BY <1>2, <1>3 DEF PInv

LEMMA PInvStep == PInv /\ [Next]_vars => PInv'
<1> SUFFICES ASSUME PInv, [Next]_vars PROVE PInv'
  OBVIOUS
<1>1. ASSUME NEW reg \in Registrations, Register(reg) PROVE PInv'
  <2>1. \A n \in Names : registry[n] # NoFactory => registry'[n] = registry[n]
    BY <1>1, RegisterKeeps DEF PInv
  <2>2. TypeOK'
    BY <1>1, PluginsAssumption DEF Register, PInv, TypeOK
  <2>3. ASSUME NEW b \in Builders PROVE LoopInv(b)'
    <3>1. UNCHANGED <<bpc, bi, handlers>>
      BY <1>1 DEF Register
    <3> DEFINE h == handlers[b]
    <3>2. \A j \in 1 .. Len(h) : /\ h[j][2] \in Factories
                               /\ PluginNames[b][h[j][1]] \in Names
                               /\ registry[PluginNames[b][h[j][1]]] = h[j][2]
      BY DEF PInv, LoopInv, TypeOK
    <3>3. \A j \in 1 .. Len(h) : registry'[PluginNames[b][h[j][1]]] = h[j][2]
      BY <3>2, <2>1, PluginsAssumption
    <3>4. \A i \in 1 .. bi[b] - 1 :
            PluginNames[b][i] # EmptyName =>
              /\ PluginNames[b][i] \in Names
              /\ registry[PluginNames[b][i]] # NoFactory
      <4>1. bi[b] \in 1 .. Len(PluginNames[b]) + 1
        BY DEF PInv, TypeOK
      <4>2. \A i \in 1 .. bi[b] - 1 : PluginNames[b][i] \in Names \cup {EmptyName}
        BY <4>1, NameInList
      <4>. QED  BY <4>2 DEF PInv, LoopInv
    <3>5. \A i \in 1 .. bi[b] - 1 :
            PluginNames[b][i] # EmptyName => registry'[PluginNames[b][i]] # NoFactory
      BY <3>4, <2>1
    <3>. QED  BY <3>1, <3>3, <3>5 DEF PInv, LoopInv
  <2>. QED  BY <2>2, <2>3 DEF PInv
<1>2. ASSUME NEW b \in Builders, BuildStep(b) PROVE PInv'
  <2> DEFINE i == bi[b]
             n == PluginNames[b][i]
  <2>1. i \in 1 .. Len(PluginNames[b]) /\ n \in Names \cup {EmptyName}
    BY <1>2, PluginsAssumption DEF BuildStep
  <2>2. PICK out \in StepOutcomes(n) :
          IF out \in Failures
            THEN /\ bpc' = [bpc EXCEPT ![b] = "failed"]
                 /\ UNCHANGED <<bi, handlers>>
            ELSE /\ bi' = [bi EXCEPT ![b] = i + 1]
                 /\ handlers' = IF out = "ok"
                                  THEN [handlers EXCEPT ![b] = Append(@, <<i, registry[n]>>)]
                                  ELSE handlers
                 /\ UNCHANGED bpc
    BY <1>2 DEF BuildStep
  <2>3. UNCHANGED <<registry, pending, fatal>>
    BY <1>2 DEF BuildStep
  <2>4. CASE out \in Failures
    <3>1. bpc' = [bpc EXCEPT ![b] = "failed"] /\ bi' = bi /\ handlers' = handlers
      BY <2>2, <2>4
    <3>2. TypeOK'
      BY <2>3, <3>1 DEF PInv, TypeOK
    <3>3. ASSUME NEW c \in Builders PROVE LoopInv(c)'
      <4>1. bpc'[c] = "built" => bpc[c] = "built"
        BY <3>1 DEF PInv, TypeOK
      <4>. QED  BY <2>3, <3>1, <4>1 DEF PInv, LoopInv
    <3>. QED  BY <3>2, <3>3 DEF PInv
  <2>5. CASE out \notin Failures
    <3>1. n # EmptyName => registry[n] # NoFactory
      BY <2>5, OutcomeFound
    <3>2. out = "ok" => n \in Names /\ registry[n] \in Factories
      BY <2>1, <2>5, OutcomeFound DEF PInv, TypeOK
    <3>3. /\ bi' = [bi EXCEPT ![b] = i + 1] /\ bpc' = bpc
          /\ handlers' = IF out = "ok"
                           THEN [handlers EXCEPT ![b] = Append(@, <<i, registry[n]>>)]
                           ELSE handlers
      BY <2>2, <2>5
    <3>4. bpc[b] = "building"
      BY <1>2 DEF BuildStep
    <3>5. /\ handlers[b] \in Seq((1 .. Len(PluginNames[b])) \X Factories)
          /\ bi \in [Builders -> Nat]
          /\ handlers \in [Builders -> Seq(Nat \X Factories)]
      BY DEF PInv, TypeOK
    <3>6. handlers'[b] \in Seq((1 .. Len(PluginNames[b])) \X Factories)
      <4>1. CASE out = "ok"
        <5>1. <<i, registry[n]>> \in (1 .. Len(PluginNames[b])) \X Factories
          BY <2>1, <3>2, <4>1
        <5>2. handlers'[b] = Append(handlers[b], <<i, registry[n]>>)
          BY <3>3, <3>5, <4>1
        <5>. QED  BY <3>5, <5>1, <5>2
      <4>2. CASE out # "ok"
        BY <3>3, <3>5, <4>2
      <4>. QED  BY <4>1, <4>2
    <3>7. TypeOK'
      <4>1. /\ bi' \in [Builders -> Nat]
            /\ \A c \in Builders : bi'[c] \in 1 .. Len(PluginNames[c]) + 1
        <5>1. bi' = [bi EXCEPT ![b] = i + 1]
          BY <3>3
        <5>2. \A c \in Builders : bi[c] \in 1 .. Len(PluginNames[c]) + 1
          BY DEF PInv, TypeOK
        <5>. QED  BY <2>1, <3>5, <5>1, <5>2
      <4>2. /\ handlers' \in [Builders -> Seq(Nat \X Factories)]
            /\ \A c \in Builders :
                 handlers'[c] \in Seq((1 .. Len(PluginNames[c])) \X Factories)
        <5>1. \A c \in Builders :
                handlers[c] \in Seq((1 .. Len(PluginNames[c])) \X Factories)
          BY DEF PInv, TypeOK
        <5>2. /\ handlers' = [c \in Builders |-> handlers'[c]]
              /\ \A c \in Builders \ {b} : handlers'[c] = handlers[c]
          BY <3>3, <3>5
        <5>3. \A c \in Builders :
                handlers'[c] \in Seq((1 .. Len(PluginNames[c])) \X Factories)
          BY <3>6, <5>1, <5>2
        <5>4. ASSUME NEW c \in Builders
              PROVE  handlers'[c] \in Seq(Nat \X Factories)
          <6>1. (1 .. Len(PluginNames[c])) \X Factories \subseteq Nat \X Factories
            OBVIOUS
          <6>. QED  BY <5>3, <6>1, SeqMonotonic
        <5>. QED  BY <5>2, <5>3, <5>4
      <4>. QED  BY <2>3, <3>3, <4>1, <4>2 DEF PInv, TypeOK
    <3>8. ASSUME NEW c \in Builders PROVE LoopInv(c)'
      <4>1. CASE c # b
        <5>1. bi'[c] = bi[c] /\ handlers'[c] = handlers[c]
          BY <3>3, <3>5, <4>1
        <5>2. LoopInv(c) /\ bpc'[c] = bpc[c]
          BY <3>3 DEF PInv
        <5>. QED  BY <2>3, <5>1, <5>2 DEF LoopInv
      <4>2. CASE c = b
        <5> DEFINE h == handlers[b]
                   h2 == handlers'[b]
        <5>1. bi'[b] = i + 1 /\ i \in Nat
          BY <2>1, <3>3, <3>5
        <5>2. LoopInv(b)
          BY DEF PInv
        <5>3. h2 = IF out = "ok" THEN Append(h, <<i, registry[n]>>) ELSE h
          BY <3>3, <3>5
        <5>4. \A k \in 1 .. bi'[b] - 1 :
                PluginNames[b][k] # EmptyName => registry[PluginNames[b][k]] # NoFactory
          BY <3>1, <5>1, <5>2 DEF LoopInv
        <5>5. bpc'[b] # "built"
          BY <3>3, <3>4
        <5>6. CASE out # "ok"
          <6>1. h2 = h
            BY <5>3, <5>6
          <6>2. \A j \in 1 .. Len(h) : h[j][1] < bi'[b]
            BY <5>1, <5>2, <3>5 DEF LoopInv
          <6>. QED  BY <2>3, <5>2, <5>4, <5>5, <6>1, <6>2, <4>2 DEF LoopInv, h, h2
        <5>7. CASE out = "ok"
          <6>1. h \in Seq((1 .. Len(PluginNames[b])) \X Factories)
            BY <3>5
          <6>2. /\ Len(h2) = Len(h) + 1
                /\ \A j \in 1 .. Len(h) : h2[j] = h[j]
                /\ h2[Len(h) + 1] = <<i, registry[n]>>
            BY <5>3, <5>7, <6>1
          <6>3. \A j \in 1 .. Len(h) : h[j][1] < i /\ PluginNames[b][h[j][1]] \in Names
            BY <5>2 DEF LoopInv
          <6>4. \A j, k \in 1 .. Len(h2) : j < k => h2[j][1] < h2[k][1]
            <7>1. \A j, k \in 1 .. Len(h) : j < k => h[j][1] < h[k][1]
              BY <5>2 DEF LoopInv, h
            <7>2. \A j \in 1 .. Len(h) : h2[j][1] < h2[Len(h) + 1][1]
              BY <6>2, <6>3
            <7>3. SUFFICES ASSUME NEW j \in 1 .. Len(h2), NEW k \in 1 .. Len(h2), j < k
                           PROVE  h2[j][1] < h2[k][1]
              OBVIOUS
            <7>4. Len(h) \in Nat
              BY <6>1
            <7>5. CASE k <= Len(h)
              <8>1. j \in 1 .. Len(h) /\ k \in 1 .. Len(h)
                BY <6>2, <7>3, <7>4, <7>5 DEF h, h2
              <8>. QED  BY <6>2, <7>1, <7>3, <8>1 DEF h, h2
            <7>6. CASE k = Len(h) + 1
              <8>1. j \in 1 .. Len(h)
                BY <6>2, <7>3, <7>4, <7>6 DEF h, h2
              <8>. QED  BY <7>2, <7>6, <8>1
            <7>. QED  BY <6>2, <7>4, <7>5, <7>6
          <6>5. \A j \in 1 .. Len(h2) :
                  h2[j][1] < bi'[b] /\ PluginNames[b][h2[j][1]] \in Names
            <7>1. n = PluginNames[b][i] /\ i < i + 1
              BY <5>1 DEF n
            <7>2. SUFFICES ASSUME NEW j \in 1 .. Len(h2)
                           PROVE  h2[j][1] < bi'[b] /\ PluginNames[b][h2[j][1]] \in Names
              OBVIOUS
            <7>3. Len(h) \in Nat
              BY <6>1
            <7>4. CASE j <= Len(h)
              <8>1. j \in 1 .. Len(h)
                BY <6>2, <7>3, <7>4 DEF h, h2
              <8>2. h2[j] = h[j] /\ h[j][1] \in Nat
                <9>1. h2[j] = h[j]
                  BY <6>2, <8>1 DEF h, h2
                <9>2. h[j][1] \in Nat
                  BY <6>1, <8>1 DEF h
                <9>. QED  BY <9>1, <9>2
              <8>3. h[j][1] < bi[b] /\ PluginNames[b][h[j][1]] \in Names
                BY <6>3, <8>1 DEF h, i
              <8>. QED  BY <5>1, <8>2, <8>3 DEF h, h2, i
            <7>5. CASE j = Len(h) + 1
              <8>1. h2[j] = <<i, registry[n]>>
                BY <6>2, <7>5
              <8>. QED  BY <3>2, <5>1, <5>7, <7>1, <8>1
            <7>. QED  BY <6>2, <7>3, <7>4, <7>5
          <6>6. \A j \in 1 .. Len(h2) : registry'[PluginNames[b][h2[j][1]]] = h2[j][2]
            <7>1. \A j \in 1 .. Len(h) : registry[PluginNames[b][h[j][1]]] = h[j][2]
              BY <5>2 DEF LoopInv, h
            <7>2. registry[PluginNames[b][i]] = registry[n]
              BY DEF n
            <7>3. SUFFICES ASSUME NEW j \in 1 .. Len(h2)
                           PROVE  registry'[PluginNames[b][h2[j][1]]] = h2[j][2]
              OBVIOUS
            <7>4. Len(h) \in Nat
              BY <6>1
            <7>5. CASE j <= Len(h)
              <8>1. j \in 1 .. Len(h)
                BY <6>2, <7>3, <7>4, <7>5 DEF h, h2
              <8>. QED  BY <2>3, <6>2, <7>1, <8>1
            <7>6. CASE j = Len(h) + 1
              <8>1. h2[j] = <<i, registry[n]>>
                BY <6>2, <7>6
              <8>. QED  BY <2>3, <7>2, <8>1
            <7>. QED  BY <6>2, <7>4, <7>5, <7>6
          <6>. QED  BY <4>2, <5>4, <5>5, <6>4, <6>5, <6>6, <2>3 DEF LoopInv
        <5>. QED  BY <5>6, <5>7
      <4>. QED  BY <4>1, <4>2
    <3>. QED  BY <3>7, <3>8 DEF PInv
  <2>. QED  BY <2>4, <2>5
<1>3. ASSUME NEW b \in Builders, BuildReturn(b) PROVE PInv'
  BY <1>3 DEF BuildReturn, PInv, TypeOK, LoopInv
<1>4. CASE UNCHANGED vars
  BY <1>4 DEF vars, PInv, TypeOK, LoopInv
<1>. QED  BY <1>1, <1>2, <1>3, <1>4 DEF Next

(* BuiltChainFaithful for every registry and every list of names: each    *)
(* step of NewFromPlugins's loop keeps the plugins built so far in order   *)
(* and matching the registry, which Register only ever grows.             *)
THEOREM BuiltChainFaithfulHolds == Spec => []BuiltChainFaithful
<1>1. PInv => BuiltChainFaithful
  <2> SUFFICES ASSUME PInv, NEW b \in Builders, bpc[b] = "built"
               PROVE  LET h == handlers[b] IN
                      /\ \A j, k \in 1 .. Len(h) : j < k => h[j][1] < h[k][1]
                      /\ \A j \in 1 .. Len(h) : registry[PluginNames[b][h[j][1]]] = h[j][2]
                      /\ \A i \in 1 .. Len(PluginNames[b]) :
                           PluginNames[b][i] # EmptyName =>
                             registry[PluginNames[b][i]] # NoFactory
    BY DEF BuiltChainFaithful
  <2>1. LoopInv(b) /\ bi[b] = Len(PluginNames[b]) + 1
    BY DEF PInv, LoopInv
  <2>2. Len(PluginNames[b]) \in Nat
    BY PluginsAssumption
  <2>3. 1 .. bi[b] - 1 = 1 .. Len(PluginNames[b])
    BY <2>1, <2>2
  <2>4. \A j, k \in 1 .. Len(handlers[b]) : j < k => handlers[b][j][1] < handlers[b][k][1]
    BY <2>1 DEF LoopInv
  <2>5. \A j \in 1 .. Len(handlers[b]) :
          registry[PluginNames[b][handlers[b][j][1]]] = handlers[b][j][2]
    BY <2>1 DEF LoopInv
  <2>6. \A i \in 1 .. Len(PluginNames[b]) :
          PluginNames[b][i] # EmptyName => registry[PluginNames[b][i]] # NoFactory
    BY <2>1, <2>3, Zenon DEF LoopInv
  <2>. QED  BY <2>4, <2>5, <2>6, Zenon
<1>. QED  BY <1>1, PInvInit, PInvStep, PTL DEF Spec

(* The registry model keeps its types in every behaviour, for every set   *)
(* of registrations and every builder's list of names.                    *)
THEOREM PluginsTypeCorrect == Spec => []TypeOK
<1>1. PInv => TypeOK  BY DEF PInv
<1>. QED  BY <1>1, PInvInit, PInvStep, PTL DEF Spec

=============================================================================
