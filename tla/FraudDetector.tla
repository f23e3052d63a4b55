---------------------------- MODULE FraudDetector ----------------------------
(***************************************************************************)
(* The fraud workers: the Tier 1 rules with the memory they keep of each   *)
(* user, then the score.                                                   *)
(*                                                                         *)
(* Users travel between countries and pay where they are; somebody who has *)
(* robbed a user pays in the user's name from anywhere.  Messages wait in  *)
(* the transactions topic, for MaxDelay hours at most, and the rules       *)
(* compare the times at which a worker processes them.  A worker may be    *)
(* handed a message again, or one that another worker has processed, as    *)
(* the consumer group hands partitions over and re-reads what it had not   *)
(* committed.  STOLEN_CARDS is an empty set that nothing fills, and an     *)
(* extreme amount changes no answer: neither rule appears.                 *)
(***************************************************************************)
EXTENDS FraudScore, Sequences, FiniteSets

CONSTANTS
    Users,
    Countries,
    Sanctioned,     \* SANCTIONED_COUNTRIES
    Nowhere,        \* the country of a user who is travelling
    Workers,        \* the fraud detection processes
    Amounts,        \* amounts that are paid, in cents
    Profiles,       \* features that Redis may hold for a user
    Nothing,        \* Redis: no key, an unreadable value, or no answer
    Malformed,      \* Redis: a dictionary with a value that cannot be compared
    NoDictionary,   \* Redis: JSON that is no dictionary
    Window,         \* timedelta(hours=6)
    Travel,         \* how long a journey to another country takes at least
    MaxDelay,       \* how long a message waits at most, re-reading included
    MaxTime,        \* bound: hours that pass
    MaxTxns         \* bound: messages in the topic

ASSUME NowhereAssumption == Nowhere \notin Countries

ASSUME StoredAssumption ==
    /\ {Nothing, Malformed, NoDictionary} \cap Profiles = {}
    /\ Nothing # Malformed
    /\ NoDictionary \notin {Nothing, Malformed}

ASSUME HoursAssumption ==
    /\ Window \in Nat
    /\ Travel \in Nat
    /\ MaxDelay \in Nat
    /\ MaxTime \in Nat

ASSUME FeaturesAssumption ==
    /\ Amounts \subseteq Nat
    /\ \A p \in Profiles, a \in Amounts : [p EXCEPT !.amount = a] \in Features

VARIABLES
    now,            \* hours since the start
    place,          \* where each user is
    left,           \* when each user who is travelling left
    robbed,         \* the users in whose name somebody else pays
    txns,           \* the transactions topic
    memory,         \* last_transaction_times and last_transaction_countries
    passed,         \* history: what each worker's rules let pass, and when
    flagged,        \* history: transactions declined for impossible travel
    verdicts        \* the decisions reached: pairs <<transaction, decision>>

world == <<now, place, left, robbed, txns>>
vars  == <<world, memory, passed, flagged, verdicts>>

Message == [user : Users, country : Countries, made : 0 .. MaxTime, amount : Amounts]

\* An entry of the two dictionaries; a user they do not have is Nowhere.
Memory  == [country : Countries \cup {Nowhere}, at : 0 .. MaxTime]
Unknown == [country |-> Nowhere, at |-> 0]

Passage == [user : Users, country : Countries, at : 0 .. MaxTime]

Decisions == {"APPROVE", "DECLINE"}

Init ==
    /\ now = 0
    /\ place \in [Users -> Countries]
    /\ left = [u \in Users |-> 0]
    /\ robbed \in SUBSET Users
    /\ txns = <<>>
    /\ memory = [w \in Workers |-> [u \in Users |-> Unknown]]
    /\ passed = [w \in Workers |-> {}]
    /\ flagged = {}
    /\ verdicts = {}

-----------------------------------------------------------------------------
(***************************************************************************)
(* The world.                                                              *)
(***************************************************************************)
Tick ==
    /\ now < MaxTime
    /\ now' = now + 1
    /\ UNCHANGED <<place, left, robbed, txns, memory, passed, flagged, verdicts>>

Leave(u) ==
    /\ place[u] # Nowhere
    /\ place' = [place EXCEPT ![u] = Nowhere]
    /\ left' = [left EXCEPT ![u] = now]
    /\ UNCHANGED <<now, robbed, txns, memory, passed, flagged, verdicts>>

Arrive(u, c) ==
    /\ place[u] = Nowhere
    /\ now - left[u] >= Travel
    /\ place' = [place EXCEPT ![u] = c]
    /\ left' = [left EXCEPT ![u] = 0]
    /\ UNCHANGED <<now, robbed, txns, memory, passed, flagged, verdicts>>

\* WHO: the API gateway, for the user or for somebody else.
Submit(u, c, amount) ==
    /\ Len(txns) < MaxTxns
    /\ c = place[u] \/ u \in robbed
    /\ txns' = Append(txns, [user |-> u, country |-> c, made |-> now, amount |-> amount])
    /\ UNCHANGED <<now, place, left, robbed, memory, passed, flagged, verdicts>>

-----------------------------------------------------------------------------
(***************************************************************************)
(* Tier 1.                                                                 *)
(***************************************************************************)

\* MUTANT of IsImpossibleTravel: the hours that passed are rounded down.
TravelRoundedDown(w, u, c) ==
    LET last == memory[w][u]
    IN  /\ last # Unknown
        /\ now - last.at <= Window + 1
        /\ last.country # c

\* MUTANT of IsImpossibleTravel: however long ago.
TravelAtAnyTime(w, u, c) == memory[w][u] # Unknown /\ memory[w][u].country # c

\* is_impossible_travel: another country, not more than Window hours ago.
IsImpossibleTravel(w, u, c) ==
    LET last == memory[w][u]
    IN  /\ last # Unknown
        /\ now - last.at <= Window
        /\ last.country # c

\* MUTANT of Remember: the time is kept while the country is the same.
RememberArrival(w, u, c) ==
    memory' = IF memory[w][u].country = c
              THEN memory
              ELSE [memory EXCEPT ![w][u] = [country |-> c, at |-> now]]

\* MUTANT of Remember: what is kept is when the memory expires.
RememberExpiry(w, u, c) ==
    memory' = [memory EXCEPT ![w][u] = [country |-> c, at |-> now + Window]]

\* Every other outcome of is_impossible_travel remembers the transaction.
Remember(w, u, c) ==
    memory' = [memory EXCEPT ![w][u] = [country |-> c, at |-> now]]

Pass(w, t) ==
    /\ Remember(w, t.user, t.country)
    /\ passed' = [passed EXCEPT ![w] =
                     @ \cup {[user |-> t.user, country |-> t.country, at |-> now]}]

Conclude(i, decision) == verdicts' = verdicts \cup {<<i, decision>>}

-----------------------------------------------------------------------------
\* What get_features_from_redis may find.
Stored == Profiles \cup {Nothing, Malformed, NoDictionary}

\* score_transaction, with the amount added to the features.
ScoreOf(stored, amount) ==
    IF stored = Malformed THEN ErrorScore
    ELSE IF stored = Nothing THEN Score(DefaultFeatures(amount))
    ELSE Score([stored EXCEPT !.amount = amount])

\* check_all_rules finds a sanctioned country or impossible travel.
DeclineByRules(w, i) ==
    LET t == txns[i]
    IN  /\ Conclude(i, "DECLINE")
        /\ \/ /\ t.country \in Sanctioned
              /\ UNCHANGED flagged
           \/ /\ t.country \notin Sanctioned
              /\ IsImpossibleTravel(w, t.user, t.country)
              /\ flagged' = flagged \cup {i}
        /\ UNCHANGED <<memory, passed>>

\* check_all_rules finds nothing, and the score decides.
DecideByScore(w, i, stored) ==
    LET t == txns[i]
    IN  /\ t.country \notin Sanctioned
        /\ ~IsImpossibleTravel(w, t.user, t.country)
        /\ Pass(w, t)
        /\ Conclude(i, IF ScoreOf(stored, t.amount) >= FraudThreshold
                       THEN "DECLINE" ELSE "APPROVE")
        /\ UNCHANGED flagged

(***************************************************************************)
(* WHO: a fraud worker.  process_transaction.  Adding the amount to what   *)
(* is no dictionary fails before the rules are looked at.                  *)
(***************************************************************************)
Process(w, i) ==
    /\ now - txns[i].made <= MaxDelay
    /\ \E stored \in Stored :
          \/ /\ stored = NoDictionary
             /\ Conclude(i, "DECLINE")
             /\ UNCHANGED <<memory, passed, flagged>>
          \/ /\ stored # NoDictionary
             /\ DeclineByRules(w, i)
          \/ /\ stored # NoDictionary
             /\ DecideByScore(w, i, stored)
    /\ UNCHANGED world

\* The process is restarted: the dictionaries are empty.
Restart(w) ==
    /\ memory' = [memory EXCEPT ![w] = [u \in Users |-> Unknown]]
    /\ passed' = [passed EXCEPT ![w] = {}]
    /\ UNCHANGED <<world, flagged, verdicts>>

-----------------------------------------------------------------------------
Next ==
    \/ Tick
    \/ \E u \in Users : Leave(u)
    \/ \E u \in Users, c \in Countries : Arrive(u, c)
    \/ \E u \in Users, c \in Countries, amount \in Amounts : Submit(u, c, amount)
    \/ \E w \in Workers, i \in DOMAIN txns : Process(w, i)
    \/ \E w \in Workers : Restart(w)

Spec == Init /\ [][Next]_vars

-----------------------------------------------------------------------------
\* Every variable has its type.
TypeOK ==
    /\ now \in 0 .. MaxTime
    /\ place \in [Users -> Countries \cup {Nowhere}]
    /\ left \in [Users -> 0 .. MaxTime]
    /\ robbed \subseteq Users
    /\ txns \in Seq(Message)
    /\ memory \in [Workers -> [Users -> Memory]]
    /\ passed \in [Workers -> SUBSET Passage]
    /\ flagged \subseteq DOMAIN txns
    /\ verdicts \subseteq (DOMAIN txns) \X Decisions

(***************************************************************************)
(* A user in whose name nobody else pays is never declined for impossible  *)
(* travel, whatever is handed over, handed out again or forgotten, as long *)
(* as journeys take longer than the window and the waiting of messages     *)
(* together (fraud_rules.py 108 to 135).                                   *)
(***************************************************************************)
HonestTravellersPass ==
    Travel > Window + MaxDelay =>
        \A i \in flagged : txns[i].user \in robbed

(***************************************************************************)
(* Remembering one transaction per user is as good as remembering all of   *)
(* them: since its start a worker declines for impossible travel exactly   *)
(* the transactions that conflict with one it has let pass within the      *)
(* window, not only with the last one (fraud_rules.py 115 to 135).         *)
(***************************************************************************)
OneMemoryIsEnough ==
    \A w \in Workers, u \in Users, c \in Countries :
        IsImpossibleTravel(w, u, c) <=>
            \E p \in passed[w] : p.user = u /\ p.country # c /\ now - p.at <= Window

-----------------------------------------------------------------------------
(***************************************************************************)
(* The inductive invariant behind the two properties.                      *)
(***************************************************************************)

\* An honest user has been where he is since he last arrived, and before
\* that travelled for the time it takes.
MessagesOfHonest ==
    \A i \in DOMAIN txns :
        LET t == txns[i]
        IN  /\ t.made <= now
            /\ t.user \notin robbed =>
                  IF place[t.user] = Nowhere
                  THEN t.made <= left[t.user]
                  ELSE t.country = place[t.user] \/ now - t.made >= Travel

\* So an honest user's messages from two countries are a journey apart.
JourneysApart ==
    \A i, j \in DOMAIN txns :
        /\ txns[i].user = txns[j].user
        /\ txns[i].user \notin robbed
        /\ txns[i].country # txns[j].country
        => \/ txns[j].made - txns[i].made >= Travel
           \/ txns[i].made - txns[j].made >= Travel

\* p is the passage of message t.
PassageOf(p, t) ==
    /\ p.user = t.user
    /\ p.country = t.country
    /\ t.made <= p.at
    /\ p.at <= t.made + MaxDelay

PassedWereMade ==
    \A w \in Workers : \A p \in passed[w] :
        /\ p.at <= now
        /\ \E i \in DOMAIN txns : PassageOf(p, txns[i])

\* The dictionaries hold the last passage of each user.
MemoryIsLast ==
    \A w \in Workers, u \in Users :
        LET last == memory[w][u]
        IN  IF last.country = Nowhere
            THEN last = Unknown /\ \A p \in passed[w] : p.user # u
            ELSE /\ [user |-> u, country |-> last.country, at |-> last.at] \in passed[w]
                 /\ \A p \in passed[w] : p.user = u => p.at <= last.at

\* What one worker lets pass is a possible journey by its clock.
PassedIsPossible ==
    \A w \in Workers : \A p, q \in passed[w] :
        p.user = q.user /\ p.country # q.country /\ p.at <= q.at
            => q.at - p.at > Window

RulesInv ==
    /\ TypeOK
    /\ MessagesOfHonest
    /\ JourneysApart
    /\ PassedWereMade
    /\ MemoryIsLast
    /\ PassedIsPossible
    /\ HonestTravellersPass

-----------------------------------------------------------------------------
(***************************************************************************)
(* fraud_rules.py 94 to 98, "Detect if user traveled impossibly fast": two *)
(* transactions that a user made in two countries within the window are    *)
(* not both approved.  The rules' memory is lost with the process.         *)
(***************************************************************************)
ImpossibleTravelDetected ==
    \A i, j \in DOMAIN txns :
        /\ txns[i].user = txns[j].user
        /\ txns[i].country # txns[j].country
        /\ txns[j].made - txns[i].made \in 0 .. Window
        => ~ {<<i, "APPROVE">>, <<j, "APPROVE">>} \subseteq verdicts
=============================================================================
