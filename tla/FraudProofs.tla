----------------------------- MODULE FraudProofs -----------------------------
(***************************************************************************)
(* Theorems about the fraud score and about the memory of the rules, for   *)
(* any users, countries, workers, profiles and hours.                      *)
(***************************************************************************)
EXTENDS FraudDetector, TLAPS

(***************************************************************************)
(* The score declines a transaction only if at least four of its six       *)
(* warning signs are there (fraud_ml.py 138 to 174 against the threshold   *)
(* of config.py): no three of them are enough.                             *)
(***************************************************************************)
THEOREM FourSignsNeeded ==
    \A f \in Features : Score(f) >= FraudThreshold => Signs(f) >= 4
  <1>. SUFFICES ASSUME NEW f \in Features, Score(f) >= FraudThreshold
                PROVE  Signs(f) >= 4
    OBVIOUS
  <1>1. \A n \in {3, 5} : Exceeds(f, n) => Exceeds(f, 2)
    BY DEF Exceeds, Features
  <1>2. DeviationPoints(f) <= 25 * If(Exceeds(f, 2), 1) /\ DeviationPoints(f) \in Int
    BY <1>1 DEF DeviationPoints, If
  <1>3. DevicePoints(f) <= 20 * If(f.device_trust_score < 50, 1) /\ DevicePoints(f) \in Int
    BY DEF DevicePoints, If, Features
  <1>. QED
    BY <1>2, <1>3 DEF Score, Signs, FraudThreshold, VelocityPoints, MerchantPoints,
                      LocationPoints, If

(***************************************************************************)
(* For a user who has an average, a transaction that looks worse in some   *)
(* respect and better in none is never scored lower.                       *)
(***************************************************************************)
THEOREM ScoreIsMonotone ==
    \A f, g \in Features : AtLeastAsBad(g, f) => Score(g) >= Score(f)
  <1>. SUFFICES ASSUME NEW f \in Features, NEW g \in Features, AtLeastAsBad(g, f)
                PROVE  Score(g) >= Score(f)
    OBVIOUS
  <1>1. \A n \in {2, 3, 5} : Exceeds(f, n) => Exceeds(g, n)
    BY DEF Exceeds, AtLeastAsBad, Features
  <1>2. DeviationPoints(g) >= DeviationPoints(f)
    BY <1>1 DEF DeviationPoints, If
  <1>3. /\ VelocityPoints(g) >= VelocityPoints(f)
        /\ DevicePoints(g) >= DevicePoints(f)
        /\ MerchantPoints(g) >= MerchantPoints(f)
        /\ LocationPoints(g) >= LocationPoints(f)
    BY DEF VelocityPoints, DevicePoints, MerchantPoints, LocationPoints, If,
           AtLeastAsBad, Features
  <1>4. \A h \in {f, g} :
           /\ DeviationPoints(h) \in Int /\ VelocityPoints(h) \in Int
           /\ DevicePoints(h) \in Int /\ MerchantPoints(h) \in Int
           /\ LocationPoints(h) \in Int
    BY DEF DeviationPoints, VelocityPoints, DevicePoints, MerchantPoints, LocationPoints, If
  <1>. QED
    BY <1>2, <1>3, <1>4 DEF Score

(***************************************************************************)
(* A user of whom Redis knows nothing, or whose features cannot be read,   *)
(* is never declined by the score, whatever the amount (fraud_consumer.py  *)
(* 119 to 131): the default features are worth 40 points at most.          *)
(***************************************************************************)
THEOREM UnknownUsersPass ==
    \A amount \in Nat : ScoreOf(Nothing, amount) <= 40
  BY StoredAssumption 
     DEF ScoreOf, DefaultFeatures, Score, VelocityPoints, DeviationPoints, DevicePoints,
         MerchantPoints, LocationPoints, If, Exceeds

-----------------------------------------------------------------------------
(***************************************************************************)
(* The memory of the rules.                                                *)
(***************************************************************************)

\* What a message and a passage consist of.
LEMMA Fields ==
  ASSUME TypeOK
  PROVE  /\ \A i \in DOMAIN txns :
               /\ txns[i] \in Message
               /\ txns[i].user \in Users
               /\ txns[i].country \in Countries
               /\ txns[i].made \in Nat
         /\ \A w \in Workers : \A p \in passed[w] :
               p \in Passage /\ p.user \in Users /\ p.country \in Countries /\ p.at \in Nat
         /\ \A w \in Workers, u \in Users :
               /\ memory[w][u] \in Memory
               /\ memory[w][u].country \in Countries \cup {Nowhere}
               /\ memory[w][u].at \in Nat
         /\ now \in Nat /\ now <= MaxTime
         /\ \A u \in Users : left[u] \in Nat
  <1>1. \A i \in DOMAIN txns : txns[i] \in Message
    BY DEF TypeOK
  <1>2. \A w \in Workers : \A p \in passed[w] : p \in Passage
    BY DEF TypeOK
  <1>3. \A w \in Workers, u \in Users : memory[w][u] \in Memory
    BY DEF TypeOK
  <1>. QED
    BY <1>1, <1>2, <1>3, HoursAssumption DEF TypeOK, Message, Passage, Memory

(***************************************************************************)
(* The last passage of a user conflicts with a country exactly when some   *)
(* passage within the window does: of two passages within the window of    *)
(* now, both are from the same country.                                    *)
(***************************************************************************)
LEMMA LastIsEnough ==
  ASSUME RulesInv, NEW w \in Workers, NEW u \in Users, NEW c \in Countries
  PROVE  IsImpossibleTravel(w, u, c) <=>
            \E p \in passed[w] : p.user = u /\ p.country # c /\ now - p.at <= Window
  <1>. DEFINE last == memory[w][u]
              pass == [user |-> u, country |-> last.country, at |-> last.at]
  <1>. USE DEF RulesInv
  <1>1. CASE last.country = Nowhere
    <2>1. last = Unknown /\ \A p \in passed[w] : p.user # u
      BY <1>1 DEF MemoryIsLast
    <2>. QED
      BY <2>1 DEF IsImpossibleTravel
  <1>2. CASE last.country # Nowhere
    <2>1. /\ pass \in passed[w]
          /\ \A p \in passed[w] : p.user = u => p.at <= last.at
      BY <1>2 DEF MemoryIsLast
    <2>2. last # Unknown
      BY <1>2 DEF Unknown
    <2>3. ASSUME IsImpossibleTravel(w, u, c)
          PROVE  \E p \in passed[w] : p.user = u /\ p.country # c /\ now - p.at <= Window
      <3>1. pass.user = u /\ pass.country # c /\ now - pass.at <= Window
        BY <2>3 DEF IsImpossibleTravel
      <3>. QED
        BY <2>1, <3>1
    <2>4. ASSUME NEW p \in passed[w], p.user = u, p.country # c, now - p.at <= Window
          PROVE  IsImpossibleTravel(w, u, c)
      <3>1. p.at <= last.at /\ p.at \in Nat /\ last.at \in Nat /\ now \in Nat
        BY <2>1, <2>4, Fields
      <3>2. last.at <= now
        <4>1. pass.at <= now
          BY <2>1 DEF PassedWereMade
        <4>. QED
          BY <4>1
      <3>3. last.country = p.country
        <4>1. p.country # pass.country => pass.at - p.at > Window
          BY <2>1, <2>4, <3>1 DEF PassedIsPossible
        <4>. QED
          BY <4>1, <2>4, <3>1, <3>2, HoursAssumption
      <3>. QED
        BY <2>2, <2>4, <3>1, <3>3, HoursAssumption DEF IsImpossibleTravel
    <2>. QED
      BY <2>3, <2>4
  <1>. QED
    BY <1>1, <1>2

LEMMA RulesInit == Init => RulesInv
  <1>. SUFFICES ASSUME Init PROVE RulesInv
    OBVIOUS
  <1>1. TypeOK
    BY HoursAssumption DEF Init, TypeOK, Memory, Unknown
  <1>2. MessagesOfHonest /\ JourneysApart /\ HonestTravellersPass
    BY DEF Init, MessagesOfHonest, JourneysApart, HonestTravellersPass
  <1>3. PassedWereMade /\ MemoryIsLast /\ PassedIsPossible
    BY DEF Init, PassedWereMade, MemoryIsLast, PassedIsPossible, Unknown
  <1>. QED
    BY <1>1, <1>2, <1>3 DEF RulesInv

(***************************************************************************)
(* Steps of the world.  They change neither the memory nor what was let    *)
(* pass, and at most add a message.                                        *)
(***************************************************************************)

\* The parts of the invariant that are not about where users are.
LEMMA WorldKeepsRules ==
  ASSUME RulesInv, now \in Nat, now' \in Nat, now' >= now,
         txns' = txns \/ (\E t \in Message : txns' = Append(txns, t)),
         UNCHANGED <<robbed, memory, passed, flagged>>
  PROVE  PassedWereMade' /\ MemoryIsLast' /\ PassedIsPossible' /\ HonestTravellersPass'
  <1>. USE DEF RulesInv
  <1>1. txns \in Seq(Message)
    BY DEF TypeOK
  <1>2. \A i \in DOMAIN txns : i \in DOMAIN txns' /\ txns'[i] = txns[i]
    <2>1. CASE txns' = txns
      BY <2>1
    <2>2. ASSUME NEW t \in Message, txns' = Append(txns, t)
          PROVE  \A i \in DOMAIN txns : i \in DOMAIN txns' /\ txns'[i] = txns[i]
      BY <1>1, <2>2
    <2>. QED
      BY <2>1, <2>2
  <1>3. PassedWereMade'
    <2>. SUFFICES ASSUME NEW w \in Workers, NEW p \in passed[w]
                  PROVE  /\ p.at <= now'
                         /\ \E i \in DOMAIN txns' : PassageOf(p, txns'[i])
      BY DEF PassedWereMade, PassageOf
    <2>1. p.at <= now /\ \E i \in DOMAIN txns : PassageOf(p, txns[i])
      BY DEF PassedWereMade
    <2>. QED
      BY <2>1, <1>2, Fields
  <1>4. MemoryIsLast' /\ PassedIsPossible'
    BY DEF MemoryIsLast, PassedIsPossible
  <1>5. HonestTravellersPass'
    BY <1>2 DEF HonestTravellersPass, TypeOK
  <1>. QED
    BY <1>3, <1>4, <1>5

\* The type invariant of the variables a step of the world leaves alone.
LEMMA WorldKeepsTypes ==
  ASSUME TypeOK,
         txns' = txns \/ (\E t \in Message : txns' = Append(txns, t)),
         UNCHANGED <<robbed, memory, passed, flagged, verdicts>>
  PROVE  /\ robbed' \subseteq Users
         /\ txns' \in Seq(Message)
         /\ memory' \in [Workers -> [Users -> Memory]]
         /\ passed' \in [Workers -> SUBSET Passage]
         /\ flagged' \subseteq DOMAIN txns'
         /\ verdicts' \subseteq (DOMAIN txns') \X Decisions
  <1>1. txns \in Seq(Message)
    BY DEF TypeOK
  <1>2. txns' \in Seq(Message) /\ DOMAIN txns \subseteq DOMAIN txns'
    <2>1. CASE txns' = txns
      BY <1>1, <2>1
    <2>2. ASSUME NEW t \in Message, txns' = Append(txns, t)
          PROVE  txns' \in Seq(Message) /\ DOMAIN txns \subseteq DOMAIN txns'
      BY <1>1, <2>2
    <2>. QED
      BY <2>1, <2>2
  <1>. QED
    BY <1>1, <1>2 DEF TypeOK

LEMMA TickStep == RulesInv /\ Tick => RulesInv'
  <1>. SUFFICES ASSUME RulesInv, Tick PROVE RulesInv'
    OBVIOUS
  <1>. USE DEF RulesInv, Tick
  <1>1. now \in Nat /\ now' = now + 1 /\ now' \in 0 .. MaxTime
    BY HoursAssumption DEF TypeOK
  <1>2. TypeOK'
    BY <1>1, WorldKeepsTypes DEF TypeOK
  <1>3. MessagesOfHonest'
    BY <1>1, Fields, HoursAssumption DEF MessagesOfHonest
  <1>4. JourneysApart'
    BY DEF JourneysApart
  <1>. QED
    BY <1>1, <1>2, <1>3, <1>4, WorldKeepsRules

LEMMA LeaveStep == ASSUME NEW u \in Users PROVE RulesInv /\ Leave(u) => RulesInv'
  <1>. SUFFICES ASSUME RulesInv, Leave(u) PROVE RulesInv'
    OBVIOUS
  <1>. USE DEF RulesInv, Leave
  <1>1. now \in Nat
    BY Fields
  <1>2. TypeOK'
    BY WorldKeepsTypes DEF TypeOK
  <1>3. MessagesOfHonest'
    BY Fields DEF MessagesOfHonest, TypeOK
  <1>4. JourneysApart'
    BY DEF JourneysApart
  <1>. QED
    BY <1>1, <1>2, <1>3, <1>4, WorldKeepsRules

LEMMA ArriveStep ==
  ASSUME NEW u \in Users, NEW c \in Countries
  PROVE  RulesInv /\ Arrive(u, c) => RulesInv'
  <1>. SUFFICES ASSUME RulesInv, Arrive(u, c) PROVE RulesInv'
    OBVIOUS
  <1>. USE DEF RulesInv, Arrive
  <1>1. now \in Nat
    BY Fields
  <1>2. TypeOK'
    BY WorldKeepsTypes, HoursAssumption DEF TypeOK
  <1>3. MessagesOfHonest'
    <2>. SUFFICES ASSUME NEW i \in DOMAIN txns
                  PROVE  LET t == txns[i]
                         IN  /\ t.made <= now
                             /\ t.user \notin robbed =>
                                   IF place'[t.user] = Nowhere
                                   THEN t.made <= left'[t.user]
                                   ELSE t.country = place'[t.user] \/ now - t.made >= Travel
      BY DEF MessagesOfHonest
    <2>1. CASE txns[i].user = u
      <3>1. place'[u] = c /\ c # Nowhere
        BY NowhereAssumption DEF TypeOK
      <3>2. txns[i].user \notin robbed => txns[i].made <= left[u]
        BY <2>1 DEF MessagesOfHonest
      <3>. QED
        BY <2>1, <3>1, <3>2, Fields, HoursAssumption DEF MessagesOfHonest
    <2>2. CASE txns[i].user # u
      BY <2>2, Fields DEF MessagesOfHonest, TypeOK
    <2>. QED
      BY <2>1, <2>2
  <1>4. JourneysApart'
    BY DEF JourneysApart
  <1>. QED
    BY <1>1, <1>2, <1>3, <1>4, WorldKeepsRules

LEMMA SubmitStep ==
  ASSUME NEW u \in Users, NEW c \in Countries, NEW amount \in Amounts
  PROVE  RulesInv /\ Submit(u, c, amount) => RulesInv'
  <1>. SUFFICES ASSUME RulesInv, Submit(u, c, amount) PROVE RulesInv'
    OBVIOUS
  <1>. DEFINE m == [user |-> u, country |-> c, made |-> now, amount |-> amount]
  <1>. USE DEF RulesInv
  <1>1. m \in Message /\ txns' = Append(txns, m) /\ now \in Nat /\ now' = now
    BY Fields DEF Submit, Message, TypeOK
  <1>2. txns \in Seq(Message)
    BY DEF TypeOK
  <1>3. \A i \in DOMAIN txns' :
           \/ i \in DOMAIN txns /\ txns'[i] = txns[i]
           \/ txns'[i] = m
    BY <1>1, <1>2
  <1>4. TypeOK'
    BY <1>1, WorldKeepsTypes DEF TypeOK, Submit
  <1>5. MessagesOfHonest'
    <2>. SUFFICES ASSUME NEW i \in DOMAIN txns'
                  PROVE  LET t == txns'[i]
                         IN  /\ t.made <= now
                             /\ t.user \notin robbed =>
                                   IF place[t.user] = Nowhere
                                   THEN t.made <= left[t.user]
                                   ELSE t.country = place[t.user] \/ now - t.made >= Travel
      BY DEF MessagesOfHonest, Submit
    <2>1. CASE i \in DOMAIN txns /\ txns'[i] = txns[i]
      BY <2>1 DEF MessagesOfHonest
    <2>2. CASE txns'[i] = m
      BY <2>2, <1>1, NowhereAssumption DEF Submit
    <2>. QED
      BY <1>3, <2>1, <2>2
  <1>6. ASSUME NEW i \in DOMAIN txns, txns[i].user = u, u \notin robbed, txns[i].country # c
        PROVE  now - txns[i].made >= Travel
    <2>1. place[u] = c /\ c # Nowhere
      BY <1>6, NowhereAssumption DEF Submit
    <2>. QED
      BY <1>6, <2>1 DEF MessagesOfHonest
  <1>7. JourneysApart'
    <2>. SUFFICES ASSUME NEW i \in DOMAIN txns', NEW j \in DOMAIN txns',
                         txns'[i].user = txns'[j].user,
                         txns'[i].user \notin robbed,
                         txns'[i].country # txns'[j].country
                  PROVE  \/ txns'[j].made - txns'[i].made >= Travel
                         \/ txns'[i].made - txns'[j].made >= Travel
      BY DEF JourneysApart, Submit
    <2>1. CASE i \in DOMAIN txns /\ txns'[i] = txns[i] /\ j \in DOMAIN txns /\ txns'[j] = txns[j]
      BY <2>1 DEF JourneysApart
    <2>2. CASE i \in DOMAIN txns /\ txns'[i] = txns[i] /\ txns'[j] = m
      BY <2>2, <1>6
    <2>3. CASE txns'[i] = m /\ j \in DOMAIN txns /\ txns'[j] = txns[j]
      BY <2>3, <1>6
    <2>4. CASE txns'[i] = m /\ txns'[j] = m
      BY <2>4
    <2>. QED
      BY <1>3, <2>1, <2>2, <2>3, <2>4
  <1>. QED
    BY <1>1, <1>4, <1>5, <1>7, WorldKeepsRules DEF Submit

-----------------------------------------------------------------------------
(***************************************************************************)
(* Steps of the workers.                                                   *)
(***************************************************************************)

\* What is left of the invariant when messages and places do not change.
LEMMA WorkersKeepWorld ==
  ASSUME RulesInv, UNCHANGED world
  PROVE  /\ MessagesOfHonest'
         /\ JourneysApart'
         /\ now' \in 0 .. MaxTime
         /\ place' \in [Users -> Countries \cup {Nowhere}]
         /\ left' \in [Users -> 0 .. MaxTime]
         /\ robbed' \subseteq Users
         /\ txns' \in Seq(Message)
  BY DEF RulesInv, TypeOK, world, MessagesOfHonest, JourneysApart

\* A transaction that gets as far as a decision, with the memory unchanged.
LEMMA DecideStep ==
  ASSUME NEW i \in DOMAIN txns, NEW d \in Decisions,
         RulesInv, UNCHANGED <<world, memory, passed, flagged>>, Conclude(i, d)
  PROVE  RulesInv'
  <1>. USE DEF RulesInv
  <1>1. TypeOK'
    <2>1. DOMAIN txns' = DOMAIN txns
      BY DEF world
    <2>2. verdicts' \subseteq (DOMAIN txns') \X Decisions
      BY <2>1 DEF Conclude, TypeOK
    <2>. QED
      BY <2>1, <2>2, WorkersKeepWorld DEF TypeOK
  <1>2. PassedWereMade' /\ MemoryIsLast' /\ PassedIsPossible' /\ HonestTravellersPass'
    BY DEF world, PassedWereMade, PassageOf, MemoryIsLast, PassedIsPossible,
           HonestTravellersPass
  <1>. QED
    BY <1>1, <1>2, WorkersKeepWorld

(***************************************************************************)
(* An honest user's transaction does not conflict with what is remembered: *)
(* the passage that is remembered is that of a message a journey earlier   *)
(* or later, and waiting makes up for less than the rest of the journey.   *)
(***************************************************************************)
LEMMA HonestAreNotFlagged ==
  ASSUME RulesInv, Travel > Window + MaxDelay,
         NEW w \in Workers, NEW i \in DOMAIN txns,
         now - txns[i].made <= MaxDelay,
         IsImpossibleTravel(w, txns[i].user, txns[i].country)
  PROVE  txns[i].user \in robbed
  <1>. DEFINE u == txns[i].user
              c == txns[i].country
  <1>. USE DEF RulesInv
  <1>1. u \in Users /\ c \in Countries /\ txns[i].made \in Nat /\ now \in Nat
    BY Fields
  <1>2. PICK p \in passed[w] : p.user = u /\ p.country # c /\ now - p.at <= Window
    BY <1>1, LastIsEnough
  <1>3. PICK j \in DOMAIN txns : PassageOf(p, txns[j])
    BY <1>2 DEF PassedWereMade
  <1>4. /\ txns[j].user = u /\ txns[j].country # c
        /\ txns[j].made <= p.at /\ p.at <= txns[j].made + MaxDelay
    BY <1>2, <1>3 DEF PassageOf
  <1>5. /\ txns[i].made <= now
        /\ p.at <= now
    BY <1>2 DEF MessagesOfHonest, PassedWereMade
  <1>6. p.at \in Nat /\ txns[j].made \in Nat
    BY <1>2, Fields
  <1>7. ~ (txns[i].made - txns[j].made >= Travel)
    BY <1>1, <1>2, <1>4, <1>5, <1>6, HoursAssumption
  <1>8. ~ (txns[j].made - txns[i].made >= Travel)
    BY <1>1, <1>4, <1>5, <1>6, HoursAssumption
  <1>. QED
    BY <1>4, <1>7, <1>8 DEF JourneysApart

LEMMA FlagStep ==
  ASSUME RulesInv, NEW w \in Workers, NEW i \in DOMAIN txns,
         now - txns[i].made <= MaxDelay,
         IsImpossibleTravel(w, txns[i].user, txns[i].country),
         Conclude(i, "DECLINE"), flagged' = flagged \cup {i},
         UNCHANGED <<world, memory, passed>>
  PROVE  RulesInv'
  <1>. USE DEF RulesInv
  <1>1. TypeOK'
    <2>1. DOMAIN txns' = DOMAIN txns
      BY DEF world
    <2>2. verdicts' \subseteq (DOMAIN txns') \X Decisions
      BY <2>1 DEF Conclude, TypeOK, Decisions
    <2>3. flagged' \subseteq DOMAIN txns'
      BY <2>1 DEF TypeOK
    <2>. QED
      BY <2>2, <2>3, WorkersKeepWorld DEF TypeOK
  <1>2. PassedWereMade' /\ MemoryIsLast' /\ PassedIsPossible'
    BY DEF world, PassedWereMade, PassageOf, MemoryIsLast, PassedIsPossible
  <1>3. HonestTravellersPass'
    BY HonestAreNotFlagged DEF HonestTravellersPass, world
  <1>. QED
    BY <1>1, <1>2, <1>3, WorkersKeepWorld

(***************************************************************************)
(* A transaction that the rules let pass becomes the last passage, and it  *)
(* is out of the window of every earlier one from another country.         *)
(***************************************************************************)
LEMMA PassStep ==
  ASSUME RulesInv, NEW w \in Workers, NEW i \in DOMAIN txns, NEW d \in Decisions,
         now - txns[i].made <= MaxDelay,
         ~IsImpossibleTravel(w, txns[i].user, txns[i].country),
         Pass(w, txns[i]), Conclude(i, d),
         UNCHANGED <<world, flagged>>
  PROVE  RulesInv'
  <1>. DEFINE u == txns[i].user
              c == txns[i].country
              new == [user |-> u, country |-> c, at |-> now]
  <1>. USE DEF RulesInv
  <1>1. /\ u \in Users /\ c \in Countries /\ txns[i].made \in Nat
        /\ now \in Nat /\ now <= MaxTime /\ new \in Passage
    BY Fields, HoursAssumption DEF Passage
  <1>2. /\ passed' = [passed EXCEPT ![w] = passed[w] \cup {new}]
        /\ memory' = [memory EXCEPT ![w][u] = [country |-> c, at |-> now]]
    BY DEF Pass, Remember
  <1>3. /\ \A v \in Workers : passed'[v] = IF v = w THEN passed[w] \cup {new} ELSE passed[v]
        /\ \A v \in Workers, x \in Users :
              memory'[v][x] = IF v = w /\ x = u THEN [country |-> c, at |-> now]
                              ELSE memory[v][x]
    BY <1>2 DEF TypeOK
  <1>4. TypeOK'
    <2>1. DOMAIN txns' = DOMAIN txns
      BY DEF world
    <2>2. verdicts' \subseteq (DOMAIN txns') \X Decisions /\ flagged' \subseteq DOMAIN txns'
      BY <2>1 DEF Conclude, TypeOK
    <2>3. passed' \in [Workers -> SUBSET Passage]
      BY <1>1, <1>2 DEF TypeOK
    <2>4. memory' \in [Workers -> [Users -> Memory]]
      <3>1. [country |-> c, at |-> now] \in Memory
        BY <1>1, HoursAssumption DEF Memory
      <3>. QED
        BY <1>1, <1>2, <3>1 DEF TypeOK
    <2>. QED
      BY <2>2, <2>3, <2>4, WorkersKeepWorld DEF TypeOK
  <1>5. PassedWereMade'
    <2>. SUFFICES ASSUME NEW v \in Workers, NEW p \in passed'[v]
                  PROVE  p.at <= now /\ \E j \in DOMAIN txns : PassageOf(p, txns[j])
      BY DEF PassedWereMade, world, PassageOf
    <2>1. CASE p \in passed[v]
      BY <2>1 DEF PassedWereMade
    <2>2. CASE p = new
      <3>1. txns[i].made <= now
        BY DEF MessagesOfHonest
      <3>2. PassageOf(new, txns[i])
        BY <1>1, <3>1, HoursAssumption DEF PassageOf
      <3>. QED
        BY <2>2, <1>1, <3>2
    <2>. QED
      BY <1>3, <2>1, <2>2
  <1>6. MemoryIsLast'
    <2>. SUFFICES ASSUME NEW v \in Workers, NEW x \in Users
                  PROVE  LET last == memory'[v][x]
                         IN  IF last.country = Nowhere
                             THEN last = Unknown /\ \A p \in passed'[v] : p.user # x
                             ELSE /\ [user |-> x, country |-> last.country,
                                      at |-> last.at] \in passed'[v]
                                  /\ \A p \in passed'[v] : p.user = x => p.at <= last.at
      BY DEF MemoryIsLast
    <2>1. CASE v = w /\ x = u
      <3>1. memory'[v][x] = [country |-> c, at |-> now] /\ c # Nowhere
        BY <1>1, <1>3, <2>1, NowhereAssumption
      <3>2. new \in passed'[v]
        BY <1>3, <2>1
      <3>3. \A p \in passed'[v] : p.at <= now
        BY <1>5 DEF PassedWereMade, world
      <3>. QED
        BY <2>1, <3>1, <3>2, <3>3
    <2>2. CASE v = w /\ x # u
      <3>1. memory'[v][x] = memory[v][x]
        BY <1>3, <2>2
      <3>2. \A p \in passed'[v] : p.user = x => p \in passed[v]
        BY <1>3, <2>2
      <3>3. passed[v] \subseteq passed'[v]
        BY <1>3
      <3>. QED
        BY <3>1, <3>2, <3>3 DEF MemoryIsLast
    <2>3. CASE v # w
      <3>1. memory'[v][x] = memory[v][x] /\ passed'[v] = passed[v]
        BY <1>3, <2>3
      <3>. QED
        BY <3>1 DEF MemoryIsLast
    <2>. QED
      BY <2>1, <2>2, <2>3
  <1>7. PassedIsPossible'
    <2>1. ASSUME NEW q \in passed[w], q.user = u, q.country # c
          PROVE  now - q.at > Window /\ q.at <= now /\ q.at \in Nat
      <3>1. ~(now - q.at <= Window)
        BY <1>1, <2>1, LastIsEnough
      <3>2. q.at <= now /\ q.at \in Nat
        BY Fields DEF PassedWereMade
      <3>. QED
        BY <1>1, <3>1, <3>2, HoursAssumption
    <2>. SUFFICES ASSUME NEW v \in Workers, NEW p \in passed'[v], NEW q \in passed'[v],
                         p.user = q.user, p.country # q.country, p.at <= q.at
                  PROVE  q.at - p.at > Window
      BY DEF PassedIsPossible
    <2>2. CASE p \in passed[v] /\ q \in passed[v]
      BY <2>2 DEF PassedIsPossible
    <2>3. CASE v = w /\ p \in passed[w] /\ q = new
      BY <2>1, <2>3
    <2>4. CASE v = w /\ p = new /\ q \in passed[w]
      BY <1>1, <2>1, <2>4, HoursAssumption
    <2>5. CASE p = new /\ q = new
      BY <2>5
    <2>. QED
      BY <1>3, <2>2, <2>3, <2>4, <2>5
  <1>8. HonestTravellersPass'
    BY DEF HonestTravellersPass, world
  <1>. QED
    BY <1>4, <1>5, <1>6, <1>7, <1>8, WorkersKeepWorld

LEMMA ProcessStep ==
  ASSUME RulesInv, NEW w \in Workers, NEW i \in DOMAIN txns, Process(w, i)
  PROVE  RulesInv'
  <1>1. now - txns[i].made <= MaxDelay /\ UNCHANGED world
    BY DEF Process
  <1>2. CASE Conclude(i, "DECLINE") /\ UNCHANGED <<memory, passed, flagged>>
    BY <1>1, <1>2, DecideStep DEF Decisions
  <1>3. CASE /\ IsImpossibleTravel(w, txns[i].user, txns[i].country)
             /\ Conclude(i, "DECLINE")
             /\ flagged' = flagged \cup {i}
             /\ UNCHANGED <<memory, passed>>
    BY <1>1, <1>3, FlagStep
  <1>4. ASSUME NEW d \in Decisions,
               ~IsImpossibleTravel(w, txns[i].user, txns[i].country),
               Pass(w, txns[i]), Conclude(i, d), UNCHANGED flagged
        PROVE  RulesInv'
    BY <1>1, <1>4, PassStep
  <1>. QED
    BY <1>2, <1>3, <1>4 DEF Process, DeclineByRules, DecideByScore, Decisions

LEMMA RestartStep ==
  ASSUME RulesInv, NEW w \in Workers, Restart(w)
  PROVE  RulesInv'
  <1>. USE DEF RulesInv
  <1>1. UNCHANGED world
    BY DEF Restart
  <1>2. \A v \in Workers :
           /\ passed'[v] = IF v = w THEN {} ELSE passed[v]
           /\ memory'[v] = IF v = w THEN [u \in Users |-> Unknown] ELSE memory[v]
    BY DEF Restart, TypeOK
  <1>3. TypeOK'
    <2>1. Unknown \in Memory
      BY HoursAssumption DEF Unknown, Memory
    <2>2. memory' \in [Workers -> [Users -> Memory]] /\ passed' \in [Workers -> SUBSET Passage]
      BY <2>1 DEF Restart, TypeOK
    <2>3. flagged' \subseteq DOMAIN txns' /\ verdicts' \subseteq (DOMAIN txns') \X Decisions
      BY DEF Restart, TypeOK, world
    <2>. QED
      BY <1>1, <2>2, <2>3, WorkersKeepWorld DEF TypeOK
  <1>4. PassedWereMade'
    BY <1>1, <1>2 DEF PassedWereMade, PassageOf, world
  <1>5. MemoryIsLast'
    BY <1>2 DEF MemoryIsLast, Unknown
  <1>6. PassedIsPossible'
    BY <1>2 DEF PassedIsPossible
  <1>7. HonestTravellersPass'
    BY DEF Restart, HonestTravellersPass, world
  <1>. QED
    BY <1>1, <1>3, <1>4, <1>5, <1>6, <1>7, WorkersKeepWorld

LEMMA RulesStep == RulesInv /\ [Next]_vars => RulesInv'
  <1>. SUFFICES ASSUME RulesInv, [Next]_vars PROVE RulesInv'
    OBVIOUS
  <1>1. CASE Tick
    BY <1>1, TickStep
  <1>2. ASSUME NEW u \in Users, Leave(u) PROVE RulesInv'
    BY <1>2, LeaveStep
  <1>3. ASSUME NEW u \in Users, NEW c \in Countries, Arrive(u, c) PROVE RulesInv'
    BY <1>3, ArriveStep
  <1>4. ASSUME NEW u \in Users, NEW c \in Countries, NEW a \in Amounts, Submit(u, c, a)
        PROVE  RulesInv'
    BY <1>4, SubmitStep
  <1>5. ASSUME NEW w \in Workers, NEW i \in DOMAIN txns, Process(w, i) PROVE RulesInv'
    BY <1>5, ProcessStep
  <1>6. ASSUME NEW w \in Workers, Restart(w) PROVE RulesInv'
    BY <1>6, RestartStep
  <1>7. CASE UNCHANGED vars
    <2>1. UNCHANGED world
      BY <1>7 DEF vars
    <2>2. /\ TypeOK' /\ PassedWereMade' /\ MemoryIsLast'
          /\ PassedIsPossible' /\ HonestTravellersPass'
      BY <1>7 DEF vars, world, RulesInv, TypeOK, PassedWereMade, PassageOf, MemoryIsLast,
                  PassedIsPossible, HonestTravellersPass
    <2>. QED
      BY <2>1, <2>2, WorkersKeepWorld DEF RulesInv
  <1>. QED
    BY <1>1, <1>2, <1>3, <1>4, <1>5, <1>6, <1>7 DEF Next

-----------------------------------------------------------------------------
(***************************************************************************)
(* The inductive invariant of the rules: types, where messages of honest   *)
(* users can come from, and that the dictionaries hold the last passage of *)
(* each user (fraud_rules.py 92 to 135).                                   *)
(***************************************************************************)
THEOREM RulesInvariance == Spec => []RulesInv
  BY RulesInit, RulesStep, PTL DEF Spec

\* Every variable keeps its type.
THEOREM FraudTypes == Spec => []TypeOK
  <1>1. RulesInv => TypeOK
    BY DEF RulesInv
  <1>. QED
    BY <1>1, RulesInvariance, PTL

(***************************************************************************)
(* No honest user is ever declined for impossible travel, for any number   *)
(* of users, workers, messages and restarts, if journeys take longer than  *)
(* the window and the waiting of messages (fraud_rules.py 108 to 135).     *)
(***************************************************************************)
THEOREM HonestPass == Spec => []HonestTravellersPass
  <1>1. RulesInv => HonestTravellersPass
    BY DEF RulesInv
  <1>. QED
    BY <1>1, RulesInvariance, PTL

(***************************************************************************)
(* One remembered transaction per user is enough: a worker declines what   *)
(* conflicts with any passage within the window (fraud_rules.py 115 to     *)
(* 135).                                                                   *)
(***************************************************************************)
THEOREM MemoryIsEnough == Spec => []OneMemoryIsEnough
  <1>1. RulesInv => OneMemoryIsEnough
    BY LastIsEnough DEF OneMemoryIsEnough
  <1>. QED
    BY <1>1, RulesInvariance, PTL

-----------------------------------------------------------------------------
(***************************************************************************)
(* What impossible travel escapes by.                                      *)
(***************************************************************************)

\* Each approval is among the passages that worker w remembers.
ApprovalsRemembered(w) ==
    \A i \in DOMAIN txns : <<i, "APPROVE">> \in verdicts =>
        \E p \in passed[w] : PassageOf(p, txns[i])

LEMMA RememberedStep ==
  ASSUME NEW w, Workers = {w}, RulesInv, ApprovalsRemembered(w), [Next]_vars, ~Restart(w)
  PROVE  ApprovalsRemembered(w)'
  <1>. SUFFICES ASSUME NEW i \in DOMAIN txns', <<i, "APPROVE">> \in verdicts'
                PROVE  \E p \in passed'[w] : PassageOf(p, txns'[i])
    BY DEF ApprovalsRemembered, PassageOf
  <1>. USE DEF RulesInv
  <1>1. CASE <<i, "APPROVE">> \in verdicts
    <2>1. i \in DOMAIN txns /\ txns \in Seq(Message)
      BY <1>1 DEF TypeOK
    <2>2. \E p \in passed[w] : PassageOf(p, txns[i])
      BY <1>1, <2>1 DEF ApprovalsRemembered
    <2>3. txns'[i] = txns[i]
      <3>1. CASE UNCHANGED txns
        BY <3>1
      <3>2. CASE \E m \in Message : txns' = Append(txns, m)
        BY <2>1, <3>2
      <3>3. UNCHANGED txns \/ \E m \in Message : txns' = Append(txns, m)
        BY DEF Next, vars, world, Tick, Leave, Arrive, Submit, Process, Restart, Message, TypeOK
      <3>. QED
        BY <3>1, <3>2, <3>3
    <2>4. passed[w] \subseteq passed'[w]
      <3>1. passed \in [Workers -> SUBSET Passage]
        BY DEF TypeOK
      <3>. QED
        BY <3>1 DEF Next, vars, Tick, Leave, Arrive, Submit, Process, DeclineByRules,
                    DecideByScore, Pass
    <2>. QED
      BY <2>2, <2>3, <2>4
  <1>2. CASE <<i, "APPROVE">> \notin verdicts
    <2>1. PICK j \in DOMAIN txns : Process(w, j) /\ verdicts' # verdicts
      BY <1>2 DEF Next, vars, Tick, Leave, Arrive, Submit
    <2>2. PICK stored \in Stored : DecideByScore(w, j, stored)
      BY <1>2, <2>1 DEF Process, DeclineByRules, Conclude
    <2>3. i = j /\ UNCHANGED txns
      BY <1>2, <2>1, <2>2 DEF DecideByScore, Conclude, Process, world
    <2>. DEFINE p == [user |-> txns[i].user, country |-> txns[i].country, at |-> now]
    <2>4. p \in passed'[w]
      BY <2>2, <2>3 DEF DecideByScore, Pass, TypeOK
    <2>5. now \in Nat /\ txns[i].made \in Nat /\ txns[i].made <= now
      BY <2>3, Fields DEF MessagesOfHonest
    <2>6. PassageOf(p, txns[i])
      BY <2>1, <2>3, <2>5, HoursAssumption DEF Process, PassageOf
    <2>. QED
      BY <2>3, <2>4, <2>6
  <1>. QED
    BY <1>1, <1>2

(***************************************************************************)
(* The rule misses nothing but what restarts, other workers and waiting    *)
(* hide from it: one worker that is never restarted, and whose messages do *)
(* not wait, never approves two payments of a user from two countries      *)
(* within the window, whatever is handed out again (fraud_rules.py 92 to   *)
(* 135).                                                                   *)
(***************************************************************************)
THEOREM OneLastingWorkerDetects ==
  ASSUME NEW CONSTANT w, Workers = {w}, MaxDelay = 0
  PROVE  Spec /\ [][~Restart(w)]_vars => []ImpossibleTravelDetected
  <1>1. Init => ApprovalsRemembered(w)
    BY DEF Init, ApprovalsRemembered
  <1>2. RulesInv /\ ApprovalsRemembered(w) /\ [Next]_vars /\ [~Restart(w)]_vars
           => ApprovalsRemembered(w)'
    <2>1. CASE UNCHANGED vars
      BY <2>1 DEF vars, world, ApprovalsRemembered, PassageOf
    <2>. QED
      BY <2>1, RememberedStep
  <1>3. RulesInv /\ ApprovalsRemembered(w) => ImpossibleTravelDetected
    <2>. SUFFICES ASSUME RulesInv, ApprovalsRemembered(w),
                         NEW i \in DOMAIN txns, NEW j \in DOMAIN txns,
                         txns[i].user = txns[j].user,
                         txns[i].country # txns[j].country,
                         txns[j].made - txns[i].made \in 0 .. Window,
                         <<i, "APPROVE">> \in verdicts, <<j, "APPROVE">> \in verdicts
                  PROVE  FALSE
      BY DEF ImpossibleTravelDetected
    <2>1. PICK p \in passed[w] : PassageOf(p, txns[i])
      BY DEF ApprovalsRemembered
    <2>2. PICK q \in passed[w] : PassageOf(q, txns[j])
      BY DEF ApprovalsRemembered
    <2>3. p.at = txns[i].made /\ q.at = txns[j].made
      BY <2>1, <2>2, Fields DEF PassageOf, RulesInv
    <2>4. p.at <= q.at /\ q.at - p.at <= Window
      BY <2>3, Fields, HoursAssumption DEF RulesInv
    <2>5. p.user = q.user /\ p.country # q.country
      BY <2>1, <2>2 DEF PassageOf
    <2>6. q.at - p.at > Window
      BY <2>1, <2>2, <2>4, <2>5 DEF RulesInv, PassedIsPossible
    <2>7. q.at - p.at \in Int /\ Window \in Int
      BY <2>3, Fields, HoursAssumption DEF RulesInv
    <2>. QED
      BY <2>4, <2>6, <2>7
  <1>. QED
    BY <1>1, <1>2, <1>3, RulesInvariance, PTL DEF Spec
=============================================================================
