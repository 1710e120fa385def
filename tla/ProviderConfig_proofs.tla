------------------------ MODULE ProviderConfig_proofs ------------------------
(* Proofs about ProviderConfig for every set of consoles, costs, spaces,    *)
(* addresses and keys, every disk and any number of commands and failures.  *)
EXTENDS ProviderConfig, TLAPS

-----------------------------------------------------------------------------
(* Prices, for every cost however large *)

\* r is a nearest billionth to the rate of c hundredths of a TON, 625 c / 384;
\* at a tie there are two, and a binary fraction may be rounded to either.
Nearest(r, c) == 2 * 384 * r - 1250 * c <= 384 /\ 1250 * c - 2 * 384 * r <= 384

\* The quotient by a fixed divisor is pinned down by its bounds.
LEMMA QuotientIs ==
  ASSUME NEW n \in Int, NEW q \in Int, 1250 * q <= n, n < 1250 * q + 1250
  PROVE  n \div 1250 = q
OBVIOUS

LEMMA RateIsNearest == \A c \in Nat : Rate(100 * c) \in Nat /\ Nearest(Rate(100 * c), c)
<1> TAKE c \in Nat
<1> DEFINE r == Rate(100 * c)
<1>1. r = (5000 * c + 1536) \div 3072
  BY DEF Rate
<1>2. r \in Int /\ 3072 * r <= 5000 * c + 1536 /\ 5000 * c + 1536 < 3072 * r + 3072
  BY <1>1
<1> QED
  BY <1>2 DEF Nearest

\* Whichever way ties are rounded, a nearest rate is shown as the cost it came from.
THEOREM NearestRateShowsCost ==
  \A c \in Nat, r \in Nat : Nearest(r, c) => CostShown(r) = c
<1> SUFFICES ASSUME NEW c \in Nat, NEW r \in Nat, Nearest(r, c)
             PROVE  CostShown(r) = c
  OBVIOUS
<1> DEFINE n == 768 * r + 625
<1>1. n \in Int /\ 1250 * c <= n /\ n < 1250 * c + 1250
  BY DEF Nearest
<1>2. n \div 1250 = c
  BY <1>1, QuotientIs
<1> QED
  BY <1>2 DEF CostShown

\* A cost of whole hundredths of a TON is shown as it was set.
THEOREM RoundTrip == \A c \in Nat : CostShown(Rate(100 * c)) = c
BY RateIsNearest, NearestRateShowsCost

\* A higher cost has no lower rate, and from 0.0031 TON on no rate is 0: below, the
\* nine digits cannot hold it.
THEOREM RateBounds ==
  /\ \A u, v \in Nat : u <= v => Rate(u) <= Rate(v)
  /\ \A u \in Nat : Rate(u) > 0 <=> u >= 31
<1>1. \A u, v \in Nat : u <= v => Rate(u) <= Rate(v)
  BY DEF Rate
<1>2. \A u \in Nat : Rate(u) > 0 <=> u >= 31
  BY DEF Rate
<1> QED
  BY <1>1, <1>2

\* The longest span is above the shortest and fits 32 bits, whatever the cost.
THEOREM SpanBounds ==
  \A u \in Nat : MinSpan < MaxSpan(u) /\ MaxSpan(u) <= MaxSpanLimit
<1>1. \A x \in Int : MinSpan < Clip(x) /\ Clip(x) <= MaxSpanLimit
  BY DEF Clip, MinSpan, MinMaxSpan, MaxSpanLimit
<1> SUFFICES ASSUME NEW u \in Nat
             PROVE  MinSpan < MaxSpan(u) /\ MaxSpan(u) <= MaxSpanLimit
  OBVIOUS
<1>2. CASE u < 155
  BY <1>2 DEF MaxSpan, MinSpan, MaxSpanLimit
<1>3. CASE u >= 155
  <2> DEFINE q == 663552000 \div u
             r == 663552000 % u
  <2>1. u > 0 /\ q \in Int /\ r \in Int
    BY <1>3
  <2>2. 100 * q + (100 * r) \div u \in Int
    BY <2>1
  <2>3. MaxSpan(u) = Clip(100 * q + (100 * r) \div u)
    BY <1>3 DEF MaxSpan
  <2> QED
    BY <1>1, <2>2, <2>3
<1> QED
  BY <1>2, <1>3

\* Every cost is shown as it was set, or within 0.008 TON if it has more digits.
THEOREM CostsShown == \A u \in Nat : ShowsCost(Rate(u), u)
<1> SUFFICES ASSUME NEW u \in Nat PROVE ShowsCost(Rate(u), u)
  OBVIOUS
<1>1. ASSUME u % 100 = 0 PROVE 100 * CostShown(Rate(u)) = u
  <2>1. u \div 100 \in Nat /\ u = 100 * (u \div 100)
    BY <1>1, Z3
  <2> QED
    BY <2>1, RoundTrip
<1>2. 100 * CostShown(Rate(u)) - u <= 80 /\ u - 100 * CostShown(Rate(u)) <= 80
  <2> DEFINE r == Rate(u)
             s == CostShown(r)
  <2>1. r \in Int /\ 3072 * r <= 50 * u + 1536 /\ 50 * u + 1536 < 3072 * r + 3072
    BY DEF Rate
  <2>2. \A x \in Int : /\ CostShown(x) \in Int
                       /\ 1250 * CostShown(x) <= 768 * x + 625
                       /\ 768 * x + 625 < 1250 * CostShown(x) + 1250
    BY DEF CostShown
  <2>3. s \in Int /\ 1250 * s <= 768 * r + 625 /\ 768 * r + 625 < 1250 * s + 1250
    BY <2>1, <2>2
  <2> HIDE DEF r, s
  <2>4. 100 * s - u <= 80 /\ u - 100 * s <= 80
    BY <2>1, <2>3
  <2> QED
    BY <2>4 DEF r, s
<1> QED
  BY <1>1, <1>2 DEF ShowsCost

\* The longest span before it is bounded, taken in two parts, is the quotient.
LEMMA SpanQuotient ==
  ASSUME NEW u \in Nat, u >= 155
  PROVE  \E q \in Nat : /\ q * u <= 66355200000 /\ 66355200000 < q * u + u
                        /\ MaxSpan(u) = Clip(q)
<1> DEFINE a == 663552000 \div u
           b == 663552000 % u
           e == (100 * b) \div u
<1>1. a \in Nat /\ b \in Nat /\ 663552000 = a * u + b
  BY Z3
<1>2. e \in Nat /\ e * u <= 100 * b /\ 100 * b < e * u + u
  <2> HIDE DEF b
  <2> QED
    BY <1>1, Z3
<1>3. MaxSpan(u) = Clip(100 * a + e)
  BY DEF MaxSpan
<1> HIDE DEF a, b, e
<1>4. (100 * a + e) * u = 100 * (a * u) + e * u
  BY <1>1, <1>2, Z3
<1>5. 100 * a + e \in Nat
  BY <1>1, <1>2
<1>6. a * u \in Int /\ e * u \in Int
  BY <1>1, <1>2
<1>7. (100 * a + e) * u <= 66355200000 /\ 66355200000 < (100 * a + e) * u + u
  BY <1>1, <1>2, <1>4, <1>6
<1> QED
  BY <1>3, <1>5, <1>7

\* At every cost the smallest bag pays for its proof once in the longest span.
THEOREM SpansPay == \A u \in Nat : PaysForProof(Rate(u), MaxSpan(u))
<1> SUFFICES ASSUME NEW u \in Nat, MaxSpan(u) < MaxSpanLimit
             PROVE  PaysForProof(Rate(u), MaxSpan(u))
  BY DEF PaysForProof
<1>1. u >= 155
  <2>1. CASE u < 155
    <3>1. MaxSpan(u) = MaxSpanLimit
      BY <2>1 DEF MaxSpan
    <3> QED
      BY <3>1 DEF MaxSpanLimit
  <2> QED
    BY <2>1
<1>2. PICK q \in Nat : /\ q * u <= 66355200000 /\ 66355200000 < q * u + u
                      /\ MaxSpan(u) = Clip(q)
  BY <1>1, SpanQuotient
<1> DEFINE r == Rate(u)
<1>3. r \in Nat /\ 1536 * r <= 25 * u + 768 /\ 25 * u <= 1536 * r + 768
  BY DEF Rate
<1> HIDE DEF r
<1> DEFINE p == r * q
           w == q * u
<1>4. p \in Nat /\ w \in Nat
  BY <1>3
<1>5. 1536 * p <= 25 * w + 768 * q /\ 25 * w <= 1536 * p + 768 * q
  <2>1. 1536 * p = (1536 * r) * q /\ 25 * w + 768 * q = (25 * u + 768) * q
    BY <1>3, Z3
  <2>2. 25 * w = (25 * u) * q /\ 1536 * p + 768 * q = (1536 * r + 768) * q
    BY <1>3, Z3
  <2>3. \A x, y \in Nat : x <= y => x * q <= y * q
    BY Z3
  <2>4. (1536 * r) * q <= (25 * u + 768) * q /\ (25 * u) * q <= (1536 * r + 768) * q
    BY <1>3, <2>3
  <2> QED
    BY <2>1, <2>2, <2>4
<1> HIDE DEF p, w
<1>6. w <= 66355200000 /\ 66355200000 < w + u
  BY <1>2 DEF w
<1>7. 2 * p <= 2 * ProofCost + q /\ 2 * p + q + 2 * r + 1 >= 2 * ProofCost
  BY <1>3, <1>4, <1>5, <1>6 DEF ProofCost
<1>8. CASE q >= MinMaxSpan
  <2>1. MaxSpan(u) = q
    BY <1>2, <1>8 DEF Clip, MinMaxSpan, MaxSpanLimit
  <2>2. PaysForProof(r, q)
    BY <1>3, <1>4, <1>7 DEF PaysForProof, p, ProofCost
  <2> QED
    BY <2>1, <2>2 DEF r
<1>9. CASE q < MinMaxSpan
  <2>1. MaxSpan(u) = MinMaxSpan
    BY <1>2, <1>9 DEF Clip
  <2>2. p <= r * MinMaxSpan
    BY <1>3, <1>9, Z3 DEF p, MinMaxSpan
  <2>3. PaysForProof(r, MinMaxSpan)
    BY <1>3, <1>4, <1>7, <1>9, <2>2 DEF PaysForProof, ProofCost, MinMaxSpan, MaxSpanLimit
  <2> QED
    BY <2>1, <2>3 DEF r
<1> QED
  BY <1>2, <1>8, <1>9 DEF MinMaxSpan
-----------------------------------------------------------------------------
(* Types *)

LEMMA PriceTypes == \A u \in Costs : Rate(u) \in Nat /\ MaxSpan(u) \in Nat
<1> SUFFICES ASSUME NEW u \in Costs PROVE Rate(u) \in Nat /\ MaxSpan(u) \in Nat
  OBVIOUS
<1>1. u \in Nat
  BY ValueAssumption
<1>2. Rate(u) \in Nat
  BY <1>1 DEF Rate
<1>3. MaxSpan(u) \in Int
  <2>1. \A x \in Int : Clip(x) \in Int
    BY DEF Clip, MinMaxSpan, MaxSpanLimit
  <2>2. CASE u < 155
    BY <2>2 DEF MaxSpan, MaxSpanLimit
  <2>3. CASE u >= 155
    <3> DEFINE q == 663552000 \div u
               r == 663552000 % u
    <3>1. q \in Int /\ r \in Int
      BY <1>1, <2>3
    <3>2. 100 * q + (100 * r) \div u \in Int
      BY <1>1, <2>3, <3>1
    <3> QED
      BY <1>1, <2>1, <2>3, <3>2 DEF MaxSpan
  <2> QED
    BY <1>1, <2>2, <2>3
<1>4. MaxSpan(u) > MinSpan
  BY <1>1, SpanBounds
<1> QED
  BY <1>2, <1>3, <1>4 DEF MinSpan

\* A change of a config yields a config.
LEMMA MutatedType ==
  \A c \in Configs, ch \in Changes : Mutated(c, ch) \in Configs
<1> SUFFICES ASSUME NEW c \in Configs, NEW ch \in Changes
             PROVE  Mutated(c, ch) \in Configs
  OBVIOUS
<1>1. CASE ch \in [field : {"cost"}, val : Costs]
  BY <1>1, PriceTypes DEF Mutated, WithCost, Configs
<1>2. CASE ch \in [field : {"space"}, val : Spaces]
  BY <1>2 DEF Mutated, WithSpace, Configs
<1>3. CASE ch \in [field : {"ip"}, val : Ips]
  BY <1>3 DEF Mutated, Configs
<1>4. CASE ch \in [field : {"key"}, val : Keys]
  BY <1>4 DEF Mutated, Configs
<1> QED
  BY <1>1, <1>2, <1>3, <1>4 DEF Changes

-----------------------------------------------------------------------------
LEMMA InitType == Init => TypeOK
<1> SUFFICES ASSUME Init PROVE TypeOK
  OBVIOUS
<1>1. file \in Configs
  BY PriceTypes DEF Init, Installed, Configs
<1>2. used \in 0 .. DiskTotal
  BY ValueAssumption DEF Init
<1>3. commands \in 0 .. MaxCommands /\ failures \in 0 .. MaxFailures
  BY BoundAssumption DEF Init
<1>4. \A s \in Sessions : session[s] = Idle(file)
  BY DEF Init
<1> QED
  BY <1>1, <1>2, <1>3, <1>4 DEF Init, TypeOK, Idle

\* Every command begins with a change of its own.
LEMMA CommandBegins ==
  ASSUME NEW s \in Sessions, Command(s)
  PROVE  \E pc \in {"read", "body"}, ch \in Changes \cup {NoChange} :
           /\ Begins(s, pc, ch)
           /\ pc = "read" => ch \in Changes
<1>1. ASSUME NEW u \in Costs, CmdSetCost(s, u)
      PROVE  \E ch \in Changes : Begins(s, "read", ch)
  <2>1. [field |-> "cost", val |-> u] \in Changes
    BY DEF Changes
  <2> QED
    BY <1>1, <2>1 DEF CmdSetCost
<1>2. ASSUME NEW g \in Spaces, CmdSetSpace(s, g)
      PROVE  \E ch \in Changes : Begins(s, "read", ch)
  <2>1. [field |-> "space", val |-> g] \in Changes
    BY DEF Changes
  <2> QED
    BY <1>2, <2>1 DEF CmdSetSpace
<1>3. ASSUME NEW i \in Ips, CmdSetExternalIp(s, i)
      PROVE  \E ch \in Changes : Begins(s, "read", ch)
  <2>1. [field |-> "ip", val |-> i] \in Changes
    BY DEF Changes
  <2> QED
    BY <1>3, <2>1 DEF CmdSetExternalIp
<1>4. ASSUME NEW k \in Keys, CmdImport(s, k)
      PROVE  \E ch \in Changes : Begins(s, "read", ch)
  <2>1. [field |-> "key", val |-> k] \in Changes
    BY DEF Changes
  <2> QED
    BY <1>4, <2>1 DEF CmdImport
<1>5. CmdRegister(s) => Begins(s, "body", NoChange)
  BY DEF CmdRegister
<1> QED
  BY <1>1, <1>2, <1>3, <1>4, <1>5 DEF Command

\* The steps of the specification keep every variable in its type.
LEMMA TypeInvariant == TypeOK /\ [Next]_vars => TypeOK'
<1> SUFFICES ASSUME TypeOK, [Next]_vars PROVE TypeOK'
  OBVIOUS
<1> USE DEF TypeOK
<1>1. ASSUME NEW s \in Sessions, Command(s) PROVE TypeOK'
  <2>1. PICK pc \in {"read", "body"}, ch \in Changes \cup {NoChange} :
           Begins(s, pc, ch) /\ (pc = "read" => ch \in Changes)
    BY <1>1, CommandBegins
  <2>2. commands' \in 0 .. MaxCommands
    BY <2>1, BoundAssumption DEF Begins
  <2>3. pc = "read" => ch # NoChange
    BY <2>1, NoneAssumption
  <2>4. overcounted' \in BOOLEAN
    BY <1>1 DEF Command, CmdSetCost, CmdSetSpace, CmdSetExternalIp, CmdImport, CmdRegister
  <2> QED
    BY <2>1, <2>2, <2>3, <2>4 DEF Begins
<1>2. ASSUME NEW s \in Sessions, Apply(s) PROVE TypeOK'
  <2>1. CASE ReadConfig(s)
    <3>1. session[s].change \in Changes
      BY <2>1 DEF ReadConfig
    <3>2. Mutated(ConfigRead(s), session[s].change) \in Configs
      BY <3>1, MutatedType DEF ConfigRead
    <3> QED
      BY <2>1, <3>2 DEF ReadConfig
  <2>2. CASE WriteConfig(s)
    BY <2>2 DEF WriteConfig, Goes
  <2>3. CASE Restart(s)
    <3>1. /\ running' = file /\ unapplied' = FALSE
          /\ UNCHANGED <<file, used, registered, mempool, landed, onChain, commands,
                         failures, raced, misflagged, overcounted>>
      BY <2>3 DEF Restart, Loaded
    <3>2. CASE Goes(s, "mark")
      BY <2>3, <3>1, <3>2 DEF Restart, Goes
    <3>3. CASE Ends(s)
      BY <3>1, <3>3 DEF Ends, Idle
    <3> QED
      BY <2>3, <3>2, <3>3 DEF Restart
  <2>4. CASE MarkUnregistered(s)
    BY <2>4 DEF MarkUnregistered, Ends, Idle, ClearedFlag
  <2> QED
    BY <1>2, <2>1, <2>2, <2>3, <2>4 DEF Apply
<1>3. ASSUME NEW s \in Sessions, Register(s) PROVE TypeOK'
  <2>1. CASE ReadBody(s)
    <3>1. file.key \in Keys
      BY DEF Configs
    <3>2. session[s] \in
            [pc : {"idle", "read", "write", "restart", "mark", "body", "wait"},
             change : Changes \cup {NoChange}, copy : Configs, body : Keys \cup {NoKey}]
      OBVIOUS
    <3>3. [session[s] EXCEPT !.pc = "wait", !.body = file.key] \in
            [pc : {"idle", "read", "write", "restart", "mark", "body", "wait"},
             change : Changes \cup {NoChange}, copy : Configs, body : Keys \cup {NoKey}]
      BY <3>1, <3>2
    <3> QED
      BY <2>1, <3>1, <3>3 DEF ReadBody
  <2>2. CASE Confirmed(s)
    BY <2>2 DEF Confirmed, Ends, Idle
  <2>3. CASE RegisterTimesOut(s)
    BY <2>3 DEF RegisterTimesOut, Ends, Idle
  <2> QED
    BY <1>3, <2>1, <2>2, <2>3 DEF Register
<1>4. ASSUME NEW s \in Sessions, SessionDies(s) PROVE TypeOK'
  <2>1. failures' \in 0 .. MaxFailures
    BY <1>4, BoundAssumption DEF SessionDies
  <2> QED
    BY <1>4, <2>1 DEF SessionDies, Ends, Idle
<1>5. CASE ServiceRestarts
  BY <1>5 DEF ServiceRestarts
<1>6. ASSUME NEW k \in Keys, Land(k) PROVE TypeOK'
  BY <1>6 DEF Land
<1>7. CASE DiskUse
  <2>1. running.space \in Nat /\ DiskTotal \in Nat
    BY ValueAssumption DEF Configs
  <2>2. used' \in 0 .. DiskTotal
    BY <1>7, <2>1 DEF DiskUse
  <2> QED
    BY <1>7, <2>2 DEF DiskUse
<1>8. CASE UNCHANGED vars
  BY <1>8 DEF vars
<1> QED
  BY <1>1, <1>2, <1>3, <1>4, <1>5, <1>6, <1>7, <1>8 DEF Next

\* Every reachable state is well typed.
THEOREM TypeCorrect == Spec => []TypeOK
BY InitType, TypeInvariant, PTL DEF Spec

-----------------------------------------------------------------------------
(* The rate and the span are of one cost *)

\* A change of a priced config is priced.
LEMMA MutatedPriced ==
  \A c \in Configs, ch \in Changes : Priced(c) => Priced(Mutated(c, ch))
<1> SUFFICES ASSUME NEW c \in Configs, NEW ch \in Changes, Priced(c)
             PROVE  Priced(Mutated(c, ch))
  OBVIOUS
<1>1. CASE ch \in [field : {"cost"}, val : Costs]
  <2>1. /\ Mutated(c, ch).rate = Rate(ch.val)
        /\ Mutated(c, ch).maxSpan = MaxSpan(ch.val)
        /\ ch.val \in Costs
    BY <1>1 DEF Mutated, WithCost, Configs
  <2> QED
    BY <2>1 DEF Priced
<1>2. CASE ch \notin [field : {"cost"}, val : Costs]
  <2>1. Mutated(c, ch).rate = c.rate /\ Mutated(c, ch).maxSpan = c.maxSpan
    BY <1>2 DEF Mutated, WithSpace, Configs, Changes
  <2> QED
    BY <2>1 DEF Priced
<1> QED
  BY <1>1, <1>2

LEMMA PricedStep ==
  TypeOK /\ PricesTogether /\ [Next]_vars => PricesTogether'
<1> SUFFICES ASSUME TypeOK, PricesTogether, [Next]_vars PROVE PricesTogether'
  OBVIOUS
<1> USE DEF PricesTogether
<1>0. /\ DOMAIN session = Sessions
      /\ Priced(file) /\ Priced(running)
      /\ \A s \in Sessions : Priced(session[s].copy)
      /\ \A s \in Sessions : DOMAIN session[s] = {"pc", "change", "copy", "body"}
  BY DEF TypeOK
<1>a. ASSUME file' \in {file} \cup {session[s].copy : s \in Sessions},
             running' \in {running, file},
             \A s \in Sessions : session'[s].copy \in {session[s].copy, file}
      PROVE  PricesTogether'
  <2>1. Priced(file')
    BY <1>0, <1>a
  <2>2. Priced(running')
    BY <1>0, <1>a
  <2>3. \A s \in Sessions : Priced(session'[s].copy)
    BY <1>0, <1>a
  <2> QED
    BY <2>1, <2>2, <2>3 DEF Priced
<1>1. ASSUME NEW s \in Sessions, Command(s) PROVE PricesTogether'
  <2>1. PICK pc \in {"read", "body"}, ch \in Changes \cup {NoChange} : Begins(s, pc, ch)
    BY <1>1, CommandBegins
  <2>2. /\ UNCHANGED <<file, running>>
        /\ \A t \in Sessions : session'[t].copy = session[t].copy
    BY <1>0, <2>1 DEF Begins
  <2> QED
    BY <1>a, <2>2
<1>2. ASSUME NEW s \in Sessions, ReadConfig(s) PROVE PricesTogether'
  <2>1. session[s].change \in Changes /\ file \in Configs
    BY <1>2 DEF ReadConfig, TypeOK
  <2>2. Priced(Mutated(file, session[s].change))
    BY <1>0, <2>1, MutatedPriced
  <2>3. /\ UNCHANGED <<file, running>>
        /\ \A t \in Sessions :
             session'[t].copy = IF t = s THEN Mutated(file, session[s].change)
                                ELSE session[t].copy
    BY <1>0, <1>2 DEF ReadConfig, ConfigRead
  <2>4. Priced(file') /\ Priced(running')
    BY <1>0, <2>3
  <2>5. \A t \in Sessions : Priced(session'[t].copy)
    BY <1>0, <2>2, <2>3
  <2> QED
    BY <2>4, <2>5 DEF Priced
<1>3. ASSUME NEW s \in Sessions,
             WriteConfig(s) \/ Restart(s) \/ MarkUnregistered(s)
      PROVE PricesTogether'
  <2>1. CASE WriteConfig(s)
    BY <1>0, <1>a, <2>1 DEF WriteConfig, Goes
  <2>2. CASE Restart(s)
    BY <1>0, <1>a, <2>2 DEF Restart, Goes, Ends, Idle, Loaded
  <2>3. CASE MarkUnregistered(s)
    BY <1>0, <1>a, <2>3 DEF MarkUnregistered, Ends, Idle
  <2> QED
    BY <1>3, <2>1, <2>2, <2>3
<1>4. ASSUME NEW s \in Sessions, Register(s) PROVE PricesTogether'
  BY <1>0, <1>a, <1>4 DEF Register, ReadBody, Confirmed, RegisterTimesOut, Ends, Idle
<1>5. ASSUME NEW s \in Sessions, SessionDies(s) PROVE PricesTogether'
  BY <1>0, <1>a, <1>5 DEF SessionDies, Ends, Idle
<1>6. CASE ServiceRestarts \/ DiskUse \/ \E k \in Keys : Land(k)
  BY <1>a, <1>6 DEF ServiceRestarts, DiskUse, Land
<1>7. CASE UNCHANGED vars
  BY <1>a, <1>7 DEF vars
<1> QED
  BY <1>1, <1>2, <1>3, <1>4, <1>5, <1>6, <1>7 DEF Next, Apply

\* Whatever consoles do to each other's writes, the rate and the longest span of a
\* config are those of one cost.
THEOREM OneCost == Spec => []PricesTogether
<1>1. Init => PricesTogether
  BY DEF Init, PricesTogether, Priced, Installed, Idle
<1> QED
  BY <1>1, PricedStep, TypeCorrect, PTL DEF Spec

\* Whatever consoles do, the cost shown is one that was set.
THEOREM ShownIsSet == Spec => []ShownAsSet
<1>1. TypeOK /\ PricesTogether => ShownAsSet
  <2> SUFFICES ASSUME PricesTogether, NEW config \in {file, running}
               PROVE  \E u \in Costs :
                        config.maxSpan = MaxSpan(u) /\ ShowsCost(config.rate, u)
    BY DEF ShownAsSet
  <2>1. PICK u \in Costs : config.rate = Rate(u) /\ config.maxSpan = MaxSpan(u)
    BY DEF PricesTogether, Priced
  <2>2. u \in Nat
    BY ValueAssumption
  <2> QED
    BY <2>1, <2>2, CostsShown
<1> QED
  BY <1>1, TypeCorrect, OneCost, PTL

\* Whatever consoles do, the smallest bag pays for its proof at the rate and over the
\* span of the config, however large the costs.
THEOREM ProofsArePaid == Spec => []ProofsPaid
<1>1. PricesTogether => ProofsPaid
  <2> SUFFICES ASSUME PricesTogether, NEW config \in {file, running}
               PROVE  PaysForProof(config.rate, config.maxSpan)
    BY DEF ProofsPaid
  <2>1. PICK u \in Costs : config.rate = Rate(u) /\ config.maxSpan = MaxSpan(u)
    BY DEF PricesTogether, Priced
  <2>2. u \in Nat
    BY ValueAssumption
  <2> QED
    BY <2>1, <2>2, SpansPay
<1> QED
  BY <1>1, OneCost, PTL

-----------------------------------------------------------------------------
(* What is written is applied *)

LEMMA AppliedStep == TypeOK /\ FileIsApplied /\ [Next]_vars => FileIsApplied'
<1> SUFFICES ASSUME TypeOK, FileIsApplied, [Next]_vars PROVE FileIsApplied'
  OBVIOUS
<1> USE DEF FileIsApplied
<1>0. DOMAIN session = Sessions
      /\ \A s \in Sessions : DOMAIN session[s] = {"pc", "change", "copy", "body"}
  BY DEF TypeOK
<1>1. ASSUME NEW s \in Sessions, Command(s) PROVE FileIsApplied'
  <2>1. /\ UNCHANGED <<file, running, unapplied>> /\ session[s].pc = "idle"
        /\ \A t \in Sessions \ {s} : session'[t] = session[t]
    BY <1>0, <1>1, CommandBegins DEF Begins
  <2> QED
    BY <2>1
<1>2. ASSUME NEW s \in Sessions, Apply(s) PROVE FileIsApplied'
  <2>1. CASE ReadConfig(s)
    BY <1>0, <2>1 DEF ReadConfig
  <2>2. CASE WriteConfig(s)
    BY <1>0, <2>2 DEF WriteConfig, Goes
  <2>3. CASE Restart(s)
    BY <2>3 DEF Restart, Loaded
  <2>4. CASE MarkUnregistered(s)
    BY <1>0, <2>4 DEF MarkUnregistered, Ends
  <2> QED
    BY <1>2, <2>1, <2>2, <2>3, <2>4 DEF Apply
<1>3. ASSUME NEW s \in Sessions, Register(s) PROVE FileIsApplied'
  BY <1>0, <1>3 DEF Register, ReadBody, Confirmed, RegisterTimesOut, Ends
<1>4. ASSUME NEW s \in Sessions, SessionDies(s) PROVE FileIsApplied'
  BY <1>0, <1>4 DEF SessionDies, Ends
<1>5. CASE ServiceRestarts \/ DiskUse \/ \E k \in Keys : Land(k)
  BY <1>5 DEF ServiceRestarts, DiskUse, Land
<1>6. CASE UNCHANGED vars
  BY <1>6 DEF vars
<1> QED
  BY <1>1, <1>2, <1>3, <1>4, <1>5, <1>6 DEF Next

\* The service runs another config than the file's only while a command is about to
\* restart it, or after one died there.
THEOREM Applied == Spec => []FileIsApplied
<1>1. Init => FileIsApplied
  BY DEF Init, FileIsApplied
<1> QED
  BY <1>1, AppliedStep, TypeCorrect, PTL DEF Spec

-----------------------------------------------------------------------------
(* A command undoes another's change in a race only *)

LEMMA CurrentStep == TypeOK /\ CopiesAreCurrent /\ [Next]_vars => CopiesAreCurrent'
<1> SUFFICES ASSUME TypeOK, CopiesAreCurrent, [Next]_vars,
                    NEW t \in Sessions, session'[t].pc = "write", t \notin raced'
             PROVE  session'[t].copy = Mutated(file', session'[t].change)
  BY DEF CopiesAreCurrent, Mutated, WithCost, WithSpace
<1>0. DOMAIN session = Sessions
      /\ \A s \in Sessions : DOMAIN session[s] = {"pc", "change", "copy", "body"}
  BY DEF TypeOK
<1>a. ASSUME session'[t] = session[t], file' = file, raced' = raced
      PROVE  session'[t].copy = Mutated(file', session'[t].change)
  BY <1>a DEF CopiesAreCurrent
<1>1. ASSUME NEW s \in Sessions, Command(s)
      PROVE  session'[t].copy = Mutated(file', session'[t].change)
  <2>1. PICK pc \in {"read", "body"}, ch \in Changes \cup {NoChange} : Begins(s, pc, ch)
    BY <1>1, CommandBegins
  <2>2. t # s /\ session'[t] = session[t] /\ UNCHANGED <<file, raced>>
    BY <1>0, <2>1 DEF Begins
  <2> QED
    BY <1>a, <2>2
<1>2. ASSUME NEW s \in Sessions, ReadConfig(s)
      PROVE  session'[t].copy = Mutated(file', session'[t].change)
  <2>1. CASE t = s
    BY <1>0, <1>2, <2>1 DEF ReadConfig, ConfigRead
  <2>2. CASE t # s
    <3>1. session'[t] = session[t] /\ file' = file /\ t \notin raced
      BY <1>0, <1>2, <2>2 DEF ReadConfig
    <3> QED
      BY <3>1 DEF CopiesAreCurrent
  <2> QED
    BY <2>1, <2>2
<1>3. ASSUME NEW s \in Sessions, WriteConfig(s) PROVE FALSE
  BY <1>3 DEF WriteConfig
<1>4. ASSUME NEW s \in Sessions, Restart(s)
      PROVE  session'[t].copy = Mutated(file', session'[t].change)
  <2>1. t # s /\ session'[t] = session[t] /\ UNCHANGED <<file, raced>>
    BY <1>0, <1>4 DEF Restart, Goes, Ends, Idle
  <2> QED
    BY <1>a, <2>1
<1>5. ASSUME NEW s \in Sessions, MarkUnregistered(s) \/ Register(s) \/ SessionDies(s)
      PROVE  session'[t].copy = Mutated(file', session'[t].change)
  <2>1. t # s /\ session'[t] = session[t] /\ UNCHANGED <<file, raced>>
    BY <1>0, <1>5
    DEF MarkUnregistered, Register, ReadBody, Confirmed, RegisterTimesOut, SessionDies,
        Ends, Idle
  <2> QED
    BY <1>a, <2>1
<1>6. CASE ServiceRestarts \/ DiskUse \/ \E k \in Keys : Land(k)
  BY <1>a, <1>6 DEF ServiceRestarts, DiskUse, Land
<1>7. CASE UNCHANGED vars
  BY <1>a, <1>7 DEF vars
<1> QED
  BY <1>1, <1>2, <1>3, <1>4, <1>5, <1>6, <1>7 DEF Next, Apply

THEOREM Current == Spec => []CopiesAreCurrent
<1>1. Init => CopiesAreCurrent
  BY DEF Init, CopiesAreCurrent, Idle
<1> QED
  BY <1>1, CurrentStep, TypeCorrect, PTL DEF Spec

\* A change touches its own field and no other.
LEMMA MutatedOwnField ==
  \A c \in Configs, ch \in Changes :
    /\ ch.field # "cost" =>
         Mutated(c, ch).rate = c.rate /\ Mutated(c, ch).maxSpan = c.maxSpan
    /\ ch.field # "space" => Mutated(c, ch).space = c.space
    /\ ch.field # "ip" => Mutated(c, ch).ip = c.ip
    /\ ch.field # "key" => Mutated(c, ch).key = c.key
BY DEF Mutated, WithCost, WithSpace, Configs, Changes

\* A command that was not overtaken leaves every field but its own as it was.
THEOREM ChangesKeptApart == Spec => UndoesOnlyInRace
<1> DEFINE Apart ==
      \A s \in Sessions :
        session[s].pc = "write" /\ session'[s].pc = "restart" /\ s \notin raced =>
          /\ session[s].change.field # "cost" =>
               file'.rate = file.rate /\ file'.maxSpan = file.maxSpan
          /\ session[s].change.field # "space" => file'.space = file.space
          /\ session[s].change.field # "ip" => file'.ip = file.ip
          /\ session[s].change.field # "key" => file'.key = file.key
<1>1. TypeOK /\ CopiesAreCurrent /\ [Next]_vars => [Apart]_vars
  <2> SUFFICES ASSUME TypeOK, CopiesAreCurrent, Next,
                      NEW s \in Sessions, session[s].pc = "write",
                      session'[s].pc = "restart", s \notin raced
               PROVE  /\ session[s].change.field # "cost" =>
                           file'.rate = file.rate /\ file'.maxSpan = file.maxSpan
                      /\ session[s].change.field # "space" => file'.space = file.space
                      /\ session[s].change.field # "ip" => file'.ip = file.ip
                      /\ session[s].change.field # "key" => file'.key = file.key
    OBVIOUS
  <2>1. session[s].change \in Changes /\ file \in Configs
    BY DEF TypeOK
  <2>2. session[s].copy = Mutated(file, session[s].change)
    BY DEF CopiesAreCurrent
  <2>3. file' = file \/ file' = session[s].copy
    <3>0. DOMAIN session = Sessions
          /\ \A u \in Sessions : DOMAIN session[u] = {"pc", "change", "copy", "body"}
      BY DEF TypeOK
    <3>1. ASSUME NEW u \in Sessions, WriteConfig(u) PROVE file' = session[s].copy
      <4>1. u = s
        BY <3>0, <3>1 DEF WriteConfig, Goes
      <4> QED
        BY <3>1, <4>1 DEF WriteConfig
    <3>2. ASSUME NEW u \in Sessions, Command(u) PROVE file' = file
      BY <3>2, CommandBegins DEF Begins
    <3>3. ASSUME NEW u \in Sessions,
                 \/ ReadConfig(u) \/ Restart(u) \/ MarkUnregistered(u)
                 \/ Register(u) \/ SessionDies(u)
          PROVE  file' = file
      BY <3>3
      DEF ReadConfig, Restart, MarkUnregistered, Register, ReadBody, Confirmed,
          RegisterTimesOut, SessionDies
    <3>4. ServiceRestarts \/ DiskUse \/ (\E k \in Keys : Land(k)) => file' = file
      BY DEF ServiceRestarts, DiskUse, Land
    <3> QED
      BY <3>1, <3>2, <3>3, <3>4 DEF Next, Apply
  <2>4. CASE file' = file
    BY <2>4
  <2>5. CASE file' = session[s].copy
    BY <2>1, <2>2, <2>5, MutatedOwnField
  <2> QED
    BY <2>3, <2>4, <2>5
<1> QED
  BY <1>1, TypeCorrect, Current, PTL DEF Spec, UndoesOnlyInRace
-----------------------------------------------------------------------------
(* The config is a SharedFile *)

LEMMA HeldInit == Init => Shared!Init
<1> SUFFICES ASSUME Init PROVE Shared!Init
  OBVIOUS
<1>1. file \in Configs
  BY InitType DEF TypeOK
<1>2. \A s \in Sessions : Held(s) = {}
  BY DEF Init, Held, Idle
<1> QED
  BY <1>1, <1>2 DEF Init, Shared!Init

\* Every step is one of a writer of the SharedFile, or leaves it as it is.
LEMMA HeldStep ==
  TypeOK /\ TypeOK' /\ CopiesAreCurrent /\ [Next]_vars => [Shared!Next]_(Shared!vars)
<1> SUFFICES ASSUME TypeOK, TypeOK', CopiesAreCurrent, [Next]_vars
             PROVE  [Shared!Next]_(Shared!vars)
  OBVIOUS
<1> DEFINE Hand == [s \in Sessions |-> Held(s)]
           Late == {s \in raced : Held(s) # {}}
           Frame(s) == \A t \in Sessions : t # s => session'[t] = session[t]
<1>0. /\ DOMAIN session = Sessions
      /\ \A s \in Sessions : DOMAIN session[s] = {"pc", "change", "copy", "body"}
      /\ raced \subseteq Sessions /\ raced' \subseteq Sessions
  BY DEF TypeOK
<1>a. ASSUME file' = file, raced' = raced, \A s \in Sessions : Held(s)' = Held(s)
      PROVE  [Shared!Next]_(Shared!vars)
  <2>1. Hand' = Hand
    BY <1>a
  <2>2. \A s : s \in Late' <=> s \in Late
    BY <1>0, <1>a
  <2>3. Late' = Late
    BY <2>2
  <2> QED
    BY <1>a, <2>1, <2>3 DEF Shared!vars
<1>b. ASSUME NEW s \in Sessions, Frame(s)
      PROVE  \A t \in Sessions : t # s => Held(t)' = Held(t)
  BY <1>b DEF Held
\* A step of a session that neither was nor comes to be about to write.
<1>c. ASSUME NEW s \in Sessions, Frame(s), Held(s) = {}, Held(s)' = {},
             file' = file, raced' = raced
      PROVE  [Shared!Next]_(Shared!vars)
  BY <1>a, <1>b, <1>c
<1>1. ASSUME NEW s \in Sessions, Command(s) PROVE [Shared!Next]_(Shared!vars)
  <2>1. PICK pc \in {"read", "body"}, ch \in Changes \cup {NoChange} : Begins(s, pc, ch)
    BY <1>1, CommandBegins
  <2>2. Frame(s) /\ Held(s) = {} /\ Held(s)' = {} /\ UNCHANGED <<file, raced>>
    BY <1>0, <2>1 DEF Begins, Held
  <2> QED
    BY <1>c, <2>2
<1>2. ASSUME NEW s \in Sessions, ReadConfig(s) PROVE Shared!Take(s)
  <2> DEFINE c == Mutated(file, session[s].change)
  <2>1. Changed(file, c)
    BY <1>2 DEF ReadConfig, TypeOK, Changed
  <2> HIDE DEF c
  <2>2. Held(s) = {} /\ Held(s)' = {c}
    BY <1>0, <1>2 DEF ReadConfig, Held, ConfigRead, c
  <2>3. Frame(s) /\ file' = file /\ raced' = raced \ {s}
    BY <1>0, <1>2 DEF ReadConfig
  <2>4. \A t \in Sessions : t # s => Held(t)' = Held(t)
    BY <1>b, <2>3
  <2>5. Hand' = [Hand EXCEPT ![s] = {c}]
    BY <2>2, <2>4
  <2>6. \A t : t \in Late' <=> t \in Late
    BY <1>0, <2>2, <2>3, <2>4
  <2>7. Late' = Late
    BY <2>6
  <2> QED
    BY <2>1, <2>2, <2>3, <2>5, <2>7 DEF Shared!Take
<1>3. ASSUME NEW s \in Sessions, WriteConfig(s)
      PROVE  Shared!EditInPlace(s) \/ Shared!BringBack(s)
  <2>1. Held(s) = {file'} /\ Held(s)' = {}
    BY <1>0, <1>3 DEF WriteConfig, Goes, Held
  <2>2. Frame(s) /\ raced' = Sessions
    BY <1>0, <1>3 DEF WriteConfig, Goes
  <2>3. \A t \in Sessions : t # s => Held(t)' = Held(t)
    BY <1>b, <2>2
  <2>4. Hand' = [Hand EXCEPT ![s] = {}] /\ Hand[s] = {file'}
    BY <2>1, <2>3
  <2>5. Late' = {t \in Sessions : Hand'[t] # {}}
    BY <2>2
  <2>6. s \in Late <=> s \in raced
    BY <2>1
  <2>7. s \notin raced => Changed(file, file')
    BY <1>3 DEF WriteConfig, CopiesAreCurrent, Changed, TypeOK
  <2> QED
    BY <2>4, <2>5, <2>6, <2>7 DEF Shared!EditInPlace, Shared!BringBack, Shared!Puts
<1>4. ASSUME NEW s \in Sessions, Restart(s) \/ MarkUnregistered(s) \/ Register(s)
      PROVE  [Shared!Next]_(Shared!vars)
  <2>1. Frame(s) /\ Held(s) = {} /\ Held(s)' = {} /\ UNCHANGED <<file, raced>>
    BY <1>0, <1>4
    DEF Restart, MarkUnregistered, Register, ReadBody, Confirmed, RegisterTimesOut,
        Goes, Ends, Idle, Held
  <2> QED
    BY <1>c, <2>1
<1>5. ASSUME NEW s \in Sessions, SessionDies(s) PROVE [Shared!Next]_(Shared!vars)
  <2>1. Frame(s) /\ Held(s)' = {} /\ UNCHANGED <<file, raced>>
    BY <1>0, <1>5 DEF SessionDies, Ends, Idle, Held
  <2>2. CASE Held(s) = {}
    BY <1>c, <2>1, <2>2
  <2>3. CASE Held(s) # {}
    <3>1. \A t \in Sessions : t # s => Held(t)' = Held(t)
      BY <1>b, <2>1
    <3>2. Hand' = [Hand EXCEPT ![s] = {}]
      BY <2>1, <3>1
    <3>3. \A t : t \in Late' <=> t \in Late \ {s}
      BY <1>0, <2>1, <3>1
    <3>4. Late' = Late \ {s}
      BY <3>3
    <3> QED
      BY <2>1, <2>3, <3>2, <3>4 DEF Shared!Drop, Shared!Next
  <2> QED
    BY <2>2, <2>3
<1>6. CASE ServiceRestarts \/ DiskUse \/ (\E k \in Keys : Land(k)) \/ UNCHANGED vars
  <2>1. UNCHANGED <<file, raced, session>>
    BY <1>6 DEF ServiceRestarts, DiskUse, Land, vars
  <2> QED
    BY <1>a, <2>1 DEF Held
<1>7. (\E s \in Sessions : ReadConfig(s) \/ WriteConfig(s)) => Shared!Next
  BY <1>2, <1>3 DEF Shared!Next
<1> QED
  BY <1>1, <1>4, <1>5, <1>6, <1>7 DEF Next, Apply

\* However many consoles share the config like writers of a SharedFile: a command
\* that was not overtaken makes its own change to the file in place, and one that
\* was brings back the config it read with that change.
THEOREM ConfigImplementsSharedFile == Spec => ImplementsSharedFile
BY HeldInit, HeldStep, TypeCorrect, Current, PTL
DEF Spec, ImplementsSharedFile, Shared!Spec
-----------------------------------------------------------------------------
(* The registered flag *)

LEMMA FlagStep == TypeOK /\ FlagIsTrue /\ [Next]_vars => FlagIsTrue'
<1> SUFFICES ASSUME TypeOK, FlagIsTrue, [Next]_vars,
                    registered', ~ misflagged',
                    \A t \in Sessions : ~ Importing(t)'
             PROVE  file'.key \in onChain'
  BY DEF FlagIsTrue
<1>0. DOMAIN session = Sessions
      /\ \A s \in Sessions : DOMAIN session[s] = {"pc", "change", "copy", "body"}
  BY DEF TypeOK
<1> USE DEF Importing, IsImport
<1>a. ASSUME UNCHANGED <<file, registered>>, misflagged' = misflagged,
             onChain \subseteq onChain', \A t \in Sessions : ~ Importing(t)
      PROVE  file'.key \in onChain'
  BY <1>a DEF FlagIsTrue
<1>1. ASSUME NEW s \in Sessions, Command(s) PROVE file'.key \in onChain'
  <2>1. PICK pc \in {"read", "body"}, ch \in Changes \cup {NoChange} : Begins(s, pc, ch)
    BY <1>1, CommandBegins
  <2>2. \A t \in Sessions : ~ Importing(t)
    <3> SUFFICES ASSUME NEW t \in Sessions, Importing(t) PROVE FALSE
      OBVIOUS
    <3>1. t # s /\ session'[t] = session[t]
      BY <1>0, <2>1 DEF Begins
    <3> QED
      BY <3>1
  <2> QED
    BY <1>a, <2>1, <2>2 DEF Begins
<1>2. ASSUME NEW s \in Sessions, ReadConfig(s) PROVE file'.key \in onChain'
  <2>1. \A t \in Sessions : ~ Importing(t)
    <3> SUFFICES ASSUME NEW t \in Sessions, Importing(t) PROVE FALSE
      OBVIOUS
    <3>1. t # s /\ session'[t] = session[t]
      BY <1>0, <1>2 DEF ReadConfig
    <3> QED
      BY <3>1
  <2> QED
    BY <1>2, <1>a, <2>1 DEF ReadConfig
<1>3. ASSUME NEW s \in Sessions, WriteConfig(s) PROVE file'.key \in onChain'
  <2>1. session'[s].pc = "restart" /\ session'[s].change = session[s].change
    BY <1>0, <1>3 DEF WriteConfig, Goes
  <2>2. ~ IsImport(s)
    BY <2>1
  <2>3. file'.key = file.key /\ ~ misflagged
    BY <1>3, <2>2 DEF WriteConfig
  <2>4. \A t \in Sessions : ~ Importing(t)
    <3> SUFFICES ASSUME NEW t \in Sessions, Importing(t) PROVE FALSE
      OBVIOUS
    <3>1. t # s /\ session'[t] = session[t]
      BY <1>0, <1>3 DEF WriteConfig, Goes
    <3> QED
      BY <3>1
  <2> QED
    BY <1>3, <2>3, <2>4 DEF WriteConfig, FlagIsTrue
<1>4. ASSUME NEW s \in Sessions, Restart(s) PROVE file'.key \in onChain'
  <2>1. ~ IsImport(s)
    <3> SUFFICES ASSUME IsImport(s) PROVE FALSE
      OBVIOUS
    <3>1. session'[s].pc = "mark" /\ session'[s].change = session[s].change
      BY <1>0, <1>4 DEF Restart, Goes
    <3> QED
      BY <3>1
  <2>2. \A t \in Sessions : ~ Importing(t)
    <3> SUFFICES ASSUME NEW t \in Sessions, Importing(t) PROVE FALSE
      OBVIOUS
    <3>1. t # s /\ session'[t] = session[t]
      BY <1>0, <1>4, <2>1 DEF Restart, Ends
    <3> QED
      BY <3>1
  <2> QED
    BY <1>4, <1>a, <2>2 DEF Restart
<1>5. ASSUME NEW s \in Sessions, MarkUnregistered(s) PROVE FALSE
  BY <1>5 DEF MarkUnregistered, ClearedFlag
<1>6. ASSUME NEW s \in Sessions, Confirmed(s) PROVE file'.key \in onChain'
  BY <1>6 DEF Confirmed
<1>7. ASSUME NEW s \in Sessions, ReadBody(s) \/ RegisterTimesOut(s)
      PROVE  file'.key \in onChain'
  <2>1. \A t \in Sessions : ~ Importing(t)
    <3> SUFFICES ASSUME NEW t \in Sessions, Importing(t) PROVE FALSE
      OBVIOUS
    <3>1. t # s /\ session'[t] = session[t]
      BY <1>0, <1>7 DEF ReadBody, RegisterTimesOut, Ends
    <3> QED
      BY <3>1
  <2> QED
    BY <1>7, <1>a, <2>1 DEF ReadBody, RegisterTimesOut
<1>8. ASSUME NEW s \in Sessions, SessionDies(s) PROVE file'.key \in onChain'
  <2>1. \A t \in Sessions : ~ Importing(t)
    <3> SUFFICES ASSUME NEW t \in Sessions, Importing(t) PROVE FALSE
      OBVIOUS
    <3>1. t # s
      BY <1>8 DEF SessionDies
    <3>2. session'[t] = session[t]
      BY <1>0, <1>8, <3>1 DEF SessionDies, Ends
    <3> QED
      BY <3>2
  <2>2. misflagged' = misflagged
    BY <1>8, <2>1 DEF SessionDies, TypeOK
  <2> QED
    BY <1>8, <1>a, <2>1, <2>2 DEF SessionDies
<1>9. CASE ServiceRestarts \/ DiskUse \/ \E k \in Keys : Land(k)
  <2>1. /\ UNCHANGED <<file, session, registered, misflagged>>
        /\ onChain \subseteq onChain'
    BY <1>9 DEF ServiceRestarts, DiskUse, Land
  <2> QED
    BY <1>a, <2>1
<1>10. CASE UNCHANGED vars
  BY <1>10, <1>a DEF vars
<1> QED
  BY <1>1, <1>2, <1>3, <1>4, <1>5, <1>6, <1>7, <1>8, <1>9, <1>10
  DEF Next, Apply, Register

\* The flag is set for the key in the config, or an import is about to clear it,
\* unless an import died half way, was taken back or was followed by the
\* confirmation of an earlier registration, or one was confirmed that was not paid.
THEOREM FlagTrue == Spec => []FlagIsTrue
<1>1. Init => FlagIsTrue
  BY DEF Init, FlagIsTrue
<1> QED
  BY <1>1, FlagStep, TypeCorrect, PTL DEF Spec
-----------------------------------------------------------------------------
(* The space dedicated is on the disk *)

Fits(config) == config.space <= DiskTotal

ChangeFits(change) ==
  change # NoChange /\ change.field = "space" => change.val <= DiskTotal

\* Until a space is counted twice, every space accepted, and so every one written
\* from it, fits the disk.
SpaceInv ==
  ~ overcounted =>
    /\ Fits(file) /\ Fits(running)
    /\ \A s \in Sessions : Fits(session[s].copy) /\ ChangeFits(session[s].change)

LEMMA MutatedFits ==
  ASSUME NEW c \in Configs, NEW ch \in Changes, Fits(c), ChangeFits(ch)
  PROVE  Fits(Mutated(c, ch))
<1>1. CASE ch.field = "space"
  <2>1. ch.val <= DiskTotal
    BY <1>1, NoneAssumption DEF ChangeFits
  <2>2. Mutated(c, ch).space = ch.val
    BY <1>1 DEF Mutated, WithSpace, Configs
  <2> QED
    BY <2>1, <2>2 DEF Fits
<1>2. CASE ch.field # "space"
  BY <1>2, MutatedOwnField DEF Fits
<1> QED
  BY <1>1, <1>2

\* Where all that is dedicated is in use, set-space accepts no more than the disk.
LEMMA AcceptedFits ==
  ASSUME TypeOK, NEW s \in Sessions, NEW g \in Spaces, CmdSetSpace(s, g), ~ overcounted'
  PROVE  ~ overcounted /\ g <= DiskTotal
<1>1. used \in Int /\ file.space \in Int /\ DiskTotal \in Int /\ g \in Int
  <2>1. file.space \in Spaces /\ used \in 0 .. DiskTotal
    BY DEF TypeOK, Configs
  <2>2. Spaces \subseteq Nat /\ DiskTotal \in Nat
    BY ValueAssumption
  <2>3. used \in Int
    BY <2>1, <2>2
  <2>4. file.space \in Nat /\ g \in Nat
    BY <2>1, <2>2
  <2> QED
    BY <2>2, <2>3, <2>4
<1>2. ~ overcounted /\ ~ (used < file.space)
  BY DEF CmdSetSpace
<1>3. g <= (DiskTotal - used) + file.space
  BY DEF CmdSetSpace, ValidSpace, FreeSpace
<1> QED
  BY <1>1, <1>2, <1>3

LEMMA SpaceStep == TypeOK /\ SpaceInv /\ [Next]_vars => SpaceInv'
<1> SUFFICES ASSUME TypeOK, SpaceInv, [Next]_vars, ~ overcounted' PROVE SpaceInv'
  BY DEF SpaceInv
<1>0. /\ DOMAIN session = Sessions
      /\ \A s \in Sessions : DOMAIN session[s] = {"pc", "change", "copy", "body"}
  BY DEF TypeOK
<1>a. ASSUME ~ overcounted,
             file' \in {file} \cup {session[s].copy : s \in Sessions},
             running' \in {running, file},
             \A t \in Sessions :
               /\ session'[t].copy \in {session[t].copy, file}
               /\ session'[t].change \in {session[t].change, NoChange}
      PROVE  SpaceInv'
  <2>1. Fits(file') /\ Fits(running')
    BY <1>a DEF SpaceInv
  <2>2. \A t \in Sessions : Fits(session'[t].copy) /\ ChangeFits(session'[t].change)
    BY <1>a DEF SpaceInv, ChangeFits
  <2> QED
    BY <2>1, <2>2 DEF SpaceInv, Fits, ChangeFits
<1>1. ASSUME NEW s \in Sessions, Command(s) PROVE SpaceInv'
  <2>1. CASE \E g \in Spaces : CmdSetSpace(s, g)
    <3>1. PICK g \in Spaces : CmdSetSpace(s, g)
      BY <2>1
    <3>2. ~ overcounted /\ g <= DiskTotal
      BY <3>1, AcceptedFits
    <3> DEFINE ch == [field |-> "space", val |-> g]
    <3>3. /\ UNCHANGED <<file, running>>
          /\ \A t \in Sessions :
               /\ session'[t].copy = session[t].copy
               /\ session'[t].change = IF t = s THEN ch ELSE session[t].change
      BY <1>0, <3>1 DEF CmdSetSpace, Begins
    <3>4. ChangeFits(ch)
      BY <3>2 DEF ChangeFits
    <3> HIDE DEF ch
    <3>5. \A t \in Sessions : Fits(session'[t].copy) /\ ChangeFits(session'[t].change)
      BY <3>2, <3>3, <3>4 DEF SpaceInv
    <3>6. Fits(file') /\ Fits(running')
      BY <3>2, <3>3 DEF SpaceInv
    <3> QED
      BY <3>5, <3>6 DEF SpaceInv, Fits, ChangeFits
  <2>2. ASSUME NEW pc \in {"read", "body"}, NEW ch, Begins(s, pc, ch), ChangeFits(ch),
               UNCHANGED overcounted
        PROVE  SpaceInv'
    <3>1. /\ UNCHANGED <<file, running>>
          /\ \A t \in Sessions :
               /\ session'[t].copy = session[t].copy
               /\ session'[t].change = IF t = s THEN ch ELSE session[t].change
      BY <1>0, <2>2 DEF Begins
    <3>2. \A t \in Sessions : Fits(session'[t].copy) /\ ChangeFits(session'[t].change)
      BY <2>2, <3>1 DEF SpaceInv
    <3>3. Fits(file') /\ Fits(running')
      BY <2>2, <3>1 DEF SpaceInv
    <3> QED
      BY <3>2, <3>3 DEF SpaceInv, Fits, ChangeFits
  <2>3. \A v : \A f \in {"cost", "ip", "key"} : ChangeFits([field |-> f, val |-> v])
    BY DEF ChangeFits
  <2>4. ChangeFits(NoChange)
    BY DEF ChangeFits
  <2>5. CASE \E u \in Costs : CmdSetCost(s, u)
    BY <2>2, <2>3, <2>5 DEF CmdSetCost
  <2>6. CASE \E i \in Ips : CmdSetExternalIp(s, i)
    BY <2>2, <2>3, <2>6 DEF CmdSetExternalIp
  <2>7. CASE \E k \in Keys : CmdImport(s, k)
    BY <2>2, <2>3, <2>7 DEF CmdImport
  <2>8. CASE CmdRegister(s)
    BY <2>2, <2>4, <2>8 DEF CmdRegister
  <2> QED
    BY <1>1, <2>1, <2>5, <2>6, <2>7, <2>8 DEF Command
<1>2. ASSUME NEW s \in Sessions, ReadConfig(s) PROVE SpaceInv'
  <2>1. session[s].change \in Changes /\ file \in Configs /\ ~ overcounted
    BY <1>2 DEF ReadConfig, TypeOK
  <2>2. Fits(Mutated(file, session[s].change))
    BY <2>1, MutatedFits DEF SpaceInv
  <2>3. /\ UNCHANGED <<file, running>>
        /\ \A t \in Sessions :
             /\ session'[t].copy = IF t = s THEN Mutated(file, session[s].change)
                                   ELSE session[t].copy
             /\ session'[t].change = session[t].change
    BY <1>0, <1>2 DEF ReadConfig, ConfigRead
  <2>4. Fits(file') /\ Fits(running')
    BY <2>1, <2>3 DEF SpaceInv
  <2>5. \A t \in Sessions : Fits(session'[t].copy) /\ ChangeFits(session'[t].change)
    BY <2>1, <2>2, <2>3 DEF SpaceInv
  <2> QED
    BY <2>4, <2>5 DEF SpaceInv, Fits, ChangeFits
<1>3. ASSUME NEW s \in Sessions, WriteConfig(s) PROVE SpaceInv'
  BY <1>0, <1>3, <1>a DEF WriteConfig, Goes
<1>4. ASSUME NEW s \in Sessions, Restart(s) PROVE SpaceInv'
  BY <1>0, <1>4, <1>a DEF Restart, Goes, Ends, Idle, Loaded
<1>5. ASSUME NEW s \in Sessions, MarkUnregistered(s) \/ SessionDies(s) PROVE SpaceInv'
  BY <1>0, <1>5, <1>a DEF MarkUnregistered, SessionDies, Ends, Idle
<1>6. ASSUME NEW s \in Sessions, Register(s) PROVE SpaceInv'
  BY <1>0, <1>6, <1>a DEF Register, ReadBody, Confirmed, RegisterTimesOut, Ends, Idle
<1>7. CASE ServiceRestarts \/ DiskUse \/ \E k \in Keys : Land(k)
  BY <1>7, <1>a DEF ServiceRestarts, DiskUse, Land
<1>8. CASE UNCHANGED vars
  BY <1>8, <1>a DEF vars
<1> QED
  BY <1>1, <1>2, <1>3, <1>4, <1>5, <1>6, <1>7, <1>8 DEF Next, Apply

\* The space dedicated fits the disk unless dedicated space was counted as free.
THEOREM SpaceFits == Spec => []SpaceWithinDisk
<1>1. Init => SpaceInv
  <2> SUFFICES ASSUME Init PROVE SpaceInv
    OBVIOUS
  <2>1. DiskTotal \in Nat
    BY ValueAssumption
  <2>2. file.space <= DiskTotal - 0
    BY DEF Init, FreeSpace
  <2>3. Fits(file) /\ ChangeFits(NoChange)
    BY <2>1, <2>2 DEF Fits, ChangeFits
  <2>4. running = file /\ \A s \in Sessions : session[s] = Idle(file)
    BY DEF Init
  <2> QED
    BY <2>3, <2>4 DEF SpaceInv, Idle
<1>2. TypeOK /\ SpaceInv => SpaceWithinDisk
  <2> SUFFICES ASSUME TypeOK, SpaceInv, ~ overcounted
               PROVE  ~ (file.space > DiskTotal) /\ ~ (running.space > DiskTotal)
    BY DEF SpaceWithinDisk
  <2>1. file.space \in Nat /\ running.space \in Nat /\ DiskTotal \in Nat
    <3>1. Spaces \subseteq Nat /\ DiskTotal \in Nat
      BY ValueAssumption
    <3> QED
      BY <3>1 DEF TypeOK, Configs
  <2> QED
    BY <2>1 DEF SpaceInv, Fits
<1> QED
  BY <1>1, <1>2, SpaceStep, TypeCorrect, PTL DEF Spec
=============================================================================
