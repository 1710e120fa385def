---------------------------- MODULE Wallet_proofs ----------------------------
(* Proofs about Wallet for every set of consoles and keys, all amounts and  *)
(* any number of commands.                                                  *)
EXTENDS Wallet, TLAPS

-----------------------------------------------------------------------------
(* Types *)

LEMMA Numbers ==
  /\ Reserve \in Nat /\ RegAmount \in Nat /\ RegMin \in Nat
  /\ MaxBalance \in Nat /\ MaxCommands \in Nat
  /\ \A a \in Amounts : a \in Nat
  /\ \A gas \in Gases : gas \in Nat
BY AmountAssumption

\* What is in hand at each step.
LEMMA Fields ==
  ASSUME NEW x \in Steps
  PROVE  /\ x = [pc |-> x.pc, id |-> x.id, by |-> x.by, amount |-> x.amount, body |-> x.body]
         /\ x.pc \in {"idle", "confirm", "body", "send", "wait"}
         /\ x.pc # "idle" => /\ x.id \in 1 .. MaxCommands /\ x.by \in Keys
                             /\ x.amount \in Amounts \cup {RegAmount}
         /\ x.pc = "idle" => x = Idle
         /\ x.pc = "confirm" => x.amount \in Amounts /\ x.body = NoKey
         /\ x.pc = "body" => x.amount = RegAmount /\ x.body = NoKey
         /\ x.pc = "send" => x.amount = RegAmount /\ x.body \in Keys
         /\ x.pc = "wait" => \/ x.amount \in Amounts /\ x.body = NoKey
                             \/ x.amount = RegAmount /\ x.body \in Keys
BY DEF Steps, Idle

LEMMA MessageFields ==
  ASSUME NEW m \in Messages
  PROVE  /\ m.id \in 1 .. MaxCommands /\ m.from \in Keys
         /\ m.amount \in Nat /\ m.body \in Keys \cup {NoKey}
BY Numbers DEF Messages

LEMMA GoesType ==
  ASSUME TypeOK, NEW s \in Sessions, NEW pc, NEW body, Goes(s, pc, body),
         \/ session[s].pc = "body" /\ pc = "send" /\ body \in Keys
         \/ session[s].pc \in {"confirm", "send"} /\ pc = "wait" /\ body = session[s].body
  PROVE  session' \in [Sessions -> Steps]
<1> DEFINE x == session[s]
<1>1. x \in Steps
  BY DEF TypeOK
<1>2. [pc |-> pc, id |-> x.id, by |-> x.by, amount |-> x.amount, body |-> body] \in Steps
  BY <1>1, Fields DEF Steps
<1> QED
  BY <1>2 DEF Goes, TypeOK

LEMMA InitType == Init => TypeOK
<1> SUFFICES ASSUME Init PROVE TypeOK
  OBVIOUS
<1>1. commands \in 0 .. MaxCommands
  BY Numbers DEF Init
<1> QED
  BY <1>1 DEF Init, TypeOK, Steps

\* A command that looks at the wallet takes a step of its own.
LEMMA LooksType ==
  ASSUME TypeOK, NEW s \in Sessions, NEW pc, NEW amount, Looks(s, pc, amount),
         (pc = "confirm" /\ amount \in Amounts) \/ (pc = "body" /\ amount = RegAmount)
  PROVE  session' \in [Sessions -> Steps] /\ commands' \in 0 .. MaxCommands
<1>1. commands + 1 \in 1 .. MaxCommands
  BY Numbers DEF Looks, TypeOK
<1>2. [pc |-> pc, id |-> commands + 1, by |-> key, amount |-> amount, body |-> NoKey] \in Steps
  BY <1>1 DEF Steps, TypeOK
<1>3. session' \in [Sessions -> Steps]
  BY <1>2 DEF Looks, TypeOK
<1>4. commands' \in 0 .. MaxCommands
  BY <1>1, Numbers DEF Looks
<1> QED
  BY <1>3, <1>4

LEMMA TypeInvariant == TypeOK /\ [Next]_vars => TypeOK'
<1> SUFFICES ASSUME TypeOK, [Next]_vars PROVE TypeOK'
  OBVIOUS
<1> USE DEF TypeOK
<1>0. Idle \in Steps
  BY DEF Steps
<1>1. ASSUME NEW s \in Sessions, NEW a \in Amounts, TransferLooks(s, a) PROVE TypeOK'
  BY <1>1, LooksType DEF TransferLooks
<1>2. ASSUME NEW s \in Sessions, TransferCancelled(s) PROVE TypeOK'
  BY <1>0, <1>2 DEF TransferCancelled, Ends
<1>3. ASSUME NEW s \in Sessions, RegisterLooks(s) PROVE TypeOK'
  <2>1. session' \in [Sessions -> Steps] /\ commands' \in 0 .. MaxCommands
    BY <1>3, LooksType DEF RegisterLooks
  <2>2. loose' \subseteq Sessions
    BY <1>3 DEF RegisterLooks, Others
  <2> QED
    BY <1>3, <2>1, <2>2 DEF RegisterLooks
<1>4. ASSUME NEW s \in Sessions, RegisterNames(s) PROVE TypeOK'
  <2>3. session' \in [Sessions -> Steps]
    BY <1>4, GoesType DEF RegisterNames, NamedKey
  <2>4. excused' \subseteq Keys
    BY <1>4 DEF RegisterNames
  <2> QED
    BY <1>4, <2>3, <2>4 DEF RegisterNames
<1>5. ASSUME NEW s \in Sessions, Send(s) PROVE TypeOK'
  <2>1. session[s] \in Steps /\ session[s].pc \in {"confirm", "send"}
    BY <1>5 DEF Send
  <2>3. session' \in [Sessions -> Steps]
    BY <1>5, GoesType DEF Send
  <2>4. Message(s) \in Messages
    BY <2>1 DEF Message, Messages, Steps, Idle
  <2> QED
    BY <1>5, <2>3, <2>4 DEF Send
<1>6. ASSUME NEW s \in Sessions, Found(s) PROVE TypeOK'
  BY <1>0, <1>6 DEF Found, Ends, FlagAfter
<1>7. ASSUME NEW s \in Sessions, GivesUp(s) PROVE TypeOK'
  <2>1. excused' \subseteq Keys
    BY <1>7, MessageFields DEF GivesUp, Sent
  <2> QED
    BY <1>0, <1>7, <2>1 DEF GivesUp, Ends
<1>8. ASSUME NEW k \in Keys, Import(k) PROVE TypeOK'
  BY <1>8 DEF Import
<1>9. ASSUME NEW m \in pool, Accept(m) PROVE TypeOK'
  <2>1. m \in Messages /\ m.from \in Keys /\ m.amount \in Nat
    BY MessageFields
  <2>2. balance' \in [Keys -> Nat]
    <3> PICK gas \in Gases :
           /\ balance[m.from] >= gas
           /\ IF balance[m.from] >= m.amount + gas
              THEN balance' = [balance EXCEPT ![m.from] = @ - (m.amount + gas)]
              ELSE balance' = [balance EXCEPT ![m.from] = @ - gas]
      BY <1>9 DEF Accept
    <3>1. balance[m.from] \in Nat
      BY <2>1
    <3>2. CASE balance[m.from] >= m.amount + gas
      <4>1. balance[m.from] - (m.amount + gas) \in Nat
        BY <2>1, <3>1, <3>2, Numbers
      <4> QED
        BY <3>2, <4>1
    <3>3. CASE ~ (balance[m.from] >= m.amount + gas)
      <4>1. balance[m.from] - gas \in Nat
        BY <3>1, Numbers
      <4> QED
        BY <3>3, <4>1
    <3> QED
      BY <3>2, <3>3
  <2>3. paid' \subseteq accepted'
    BY <1>9 DEF Accept
  <2>4. overtaken' \subseteq Sessions /\ dear' \subseteq Sessions
    BY <1>9 DEF Accept, LookedAt, Dear
  <2> QED
    BY <1>9, <2>1, <2>2, <2>3, <2>4 DEF Accept, NotOf
<1>10. ASSUME NEW m \in pool, Expire(m) PROVE TypeOK'
  BY <1>10 DEF Expire
<1>11. ASSUME NEW k \in Keys, DaemonSpends(k) PROVE TypeOK'
  <2>1. PICK b \in 0 .. balance[k] - 1 : balance' = [balance EXCEPT ![k] = b]
    BY <1>11 DEF DaemonSpends
  <2>2. balance' \in [Keys -> Nat]
    BY <2>1
  <2>3. overtaken' \subseteq Sessions
    BY <1>11 DEF DaemonSpends, LookedAt
  <2> QED
    BY <1>11, <2>2, <2>3 DEF DaemonSpends, NotOf
<1>12. ASSUME NEW k \in Keys, Fund(k) PROVE TypeOK'
  BY <1>12, Numbers DEF Fund
<1>13. CASE UNCHANGED vars
  BY <1>13 DEF vars
<1> QED
  BY <1>1, <1>2, <1>3, <1>4, <1>5, <1>6, <1>7, <1>8, <1>9, <1>10, <1>11, <1>12, <1>13
  DEF Next, Command

\* Every reachable state is well typed.
THEOREM TypeCorrect == Spec => []TypeOK
BY InitType, TypeInvariant, PTL DEF Spec

-----------------------------------------------------------------------------
(* Invariants *)

Sends == pool \cup accepted

\* A command has a number of its own, which its message bears once it is sent.
Numbered ==
  /\ \A m \in Sends : m.id <= commands
  /\ \A s \in Sessions : session[s].id <= commands
  /\ \A s, t \in Sessions : session[s].id = session[t].id /\ session[s].id # 0 => s = t
  /\ \A s \in Sessions : session[s].pc # "wait" => Sent(s, Sends) = {}

\* What the command of a session leaves for the gas.
Left(s) == IF Registering(s) THEN RegMin - RegAmount ELSE Reserve

\* The wallet of a command that was not overtaken has what the command needs until
\* its message is accepted.
Covers(s) == balance[session[s].by] >= session[s].amount + Left(s)

Matches(m, s) ==
  m.from = session[s].by /\ m.amount = session[s].amount /\ m.body = session[s].body

Covered ==
  \A s \in Sessions \ (overtaken \cup dear) :
    /\ session[s].pc \in {"confirm", "body", "send"} => key = session[s].by /\ Covers(s)
    /\ session[s].pc = "wait" =>
         /\ \A m \in Sent(s, pool) : Matches(m, s) /\ Covers(s)
         /\ Sent(s, accepted) \subseteq paid

\* What is known of a registration that began alone and heeds the flag.
Alone ==
  \A s \in Sessions \ loose :
    /\ Registering(s) => Others(s) = {}
    /\ session[s].pc = "body" => ~ registered

\* What is known of a key for which a second registration would not be explained:
\* one session at most registers it, by one message at most, and the flag is set once
\* none does any more.
OneAttempt(k) ==
  /\ \A m, n \in Sends : m.body = k /\ n.body = k => m = n
  /\ \A s, t \in Sessions : session[s].body = k /\ session[t].body = k => s = t
  /\ \A s \in Sessions, m \in Sends :
       session[s].body = k /\ m.body = k => session[s].pc = "wait" /\ m.id = session[s].id
  /\ key = k /\ k \in Tried => registered \/ \E s \in Sessions : session[s].body = k

Explained == \A k \in Keys \ excused : OneAttempt(k)

-----------------------------------------------------------------------------
(* Steps *)

LEMMA AfterLooks ==
  ASSUME TypeOK, NEW s \in Sessions, NEW pc, NEW amount, Looks(s, pc, amount)
  PROVE  /\ session'[s].pc = pc /\ session'[s].id = commands + 1
         /\ session'[s].by = key /\ session'[s].amount = amount /\ session'[s].body = NoKey
         /\ \A t \in Sessions \ {s} : session'[t] = session[t]
<1>1. session'[s] = [pc |-> pc, id |-> commands + 1, by |-> key, amount |-> amount,
                     body |-> NoKey]
  BY DEF TypeOK, Looks
<1>2. \A t \in Sessions \ {s} : session'[t] = session[t]
  BY DEF TypeOK, Looks
<1> QED
  BY <1>1, <1>2

LEMMA AfterGoes ==
  ASSUME TypeOK, NEW s \in Sessions, NEW pc, NEW body, Goes(s, pc, body)
  PROVE  /\ session'[s].pc = pc /\ session'[s].body = body
         /\ session'[s].id = session[s].id /\ session'[s].by = session[s].by
         /\ session'[s].amount = session[s].amount
         /\ \A t \in Sessions \ {s} : session'[t] = session[t]
<1>1. session'[s] = [pc |-> pc, id |-> session[s].id, by |-> session[s].by,
                     amount |-> session[s].amount, body |-> body]
  BY DEF TypeOK, Goes
<1>2. \A t \in Sessions \ {s} : session'[t] = session[t]
  BY DEF TypeOK, Goes
<1> QED
  BY <1>1, <1>2

LEMMA AfterEnds ==
  ASSUME TypeOK, NEW s \in Sessions, Ends(s)
  PROVE  session'[s] = Idle /\ \A t \in Sessions \ {s} : session'[t] = session[t]
BY DEF TypeOK, Ends

\* Messages leave the pool, and go to the chain, but none is made except by Send.
LEMMA SendsShrink ==
  ASSUME TypeOK, [Next]_vars, \A s \in Sessions : ~ Send(s)
  PROVE  Sends' \subseteq Sends
<1>1. \A s \in Sessions : Command(s) => Sends' = Sends
  BY DEF Command, TransferLooks, TransferCancelled, RegisterLooks, RegisterNames, Found,
         GivesUp, Sends
<1>2. \A k \in Keys : Import(k) \/ DaemonSpends(k) \/ Fund(k) => Sends' \subseteq Sends
  BY DEF Import, DaemonSpends, Fund, Sends, NotOf
<1>3. \A m \in pool : Accept(m) \/ Expire(m) => Sends' \subseteq Sends
  BY DEF Accept, Expire, Sends, NotOf
<1>4. UNCHANGED vars => Sends' = Sends
  BY DEF vars, Sends
<1> QED
  BY <1>1, <1>2, <1>3, <1>4 DEF Next

LEMMA NumberedStep == TypeOK /\ Numbered /\ [Next]_vars => Numbered'
<1> SUFFICES ASSUME TypeOK, Numbered, [Next]_vars PROVE Numbered'
  OBVIOUS
<1>0. commands \in Nat /\ \A t \in Sessions : session[t] \in Steps /\ session[t].id \in Nat
  BY Numbers, Fields DEF TypeOK, Idle
<1>n. \A m \in Sends : m.id \in Nat
  BY Numbers, MessageFields DEF TypeOK, Sends
<1>a. ASSUME Sends' \subseteq Sends, commands' = commands,
             \A t \in Sessions :
               \/ session'[t] = Idle
               \/ session'[t].id = session[t].id /\ session'[t].pc = session[t].pc
               \/ /\ session'[t].id = session[t].id
                  /\ session[t].pc = "body" /\ session'[t].pc = "send"
      PROVE  Numbered'
  <2>1. \A t \in Sessions : session'[t].id \in {0, session[t].id}
    BY <1>a DEF Idle
  <2>2. \A m \in Sends' : m.id <= commands'
    BY <1>a DEF Numbered
  <2>3. \A t \in Sessions : session'[t].id <= commands'
    BY <1>0, <1>a, <2>1 DEF Numbered
  <2>4. \A t, u \in Sessions : session'[t].id = session'[u].id /\ session'[t].id # 0 => t = u
    BY <2>1 DEF Numbered
  <2>5. \A t \in Sessions : session'[t].pc # "wait" => \A m \in Sends' : m.id # session'[t].id
    <3> SUFFICES ASSUME NEW t \in Sessions, session'[t].pc # "wait", NEW m \in Sends'
                 PROVE  m.id # session'[t].id
      OBVIOUS
    <3>1. CASE session'[t] = Idle
      <4>1. m \in Messages
        BY <1>a DEF Sends, TypeOK
      <4>2. m.id \in 1 .. MaxCommands
        BY <4>1, MessageFields
      <4> QED
        BY <3>1, <4>2, Numbers DEF Idle
    <3>2. CASE session'[t] # Idle
      BY <1>a, <3>2 DEF Numbered, Sent
    <3> QED
      BY <3>1, <3>2
  <2> QED
    BY <2>2, <2>3, <2>4, <2>5 DEF Numbered, Sent
<1>1. ASSUME NEW s \in Sessions, NEW pc, NEW amount, Looks(s, pc, amount),
             pc \in {"confirm", "body"}, Sends' = Sends
      PROVE  Numbered'
  <2>1. commands' = commands + 1
    BY <1>1 DEF Looks
  <2>2. \A t \in Sessions : t # s => session'[t] = session[t]
    BY <1>1, AfterLooks
  <2>3. session'[s].id = commands + 1 /\ session'[s].pc # "wait"
    BY <1>1, AfterLooks
  <2>4. \A m \in Sends' : m.id <= commands' /\ m.id # commands + 1
    BY <1>0, <1>1, <1>n, <2>1 DEF Numbered
  <2>5. \A t \in Sessions : session'[t].id <= commands'
    BY <1>0, <2>1, <2>2, <2>3 DEF Numbered
  <2>6. \A t \in Sessions : t # s => session'[t].id # commands + 1
    BY <1>0, <2>2 DEF Numbered
  <2>7. \A t, u \in Sessions : session'[t].id = session'[u].id /\ session'[t].id # 0 => t = u
    BY <2>2, <2>3, <2>6 DEF Numbered
  <2>8. \A t \in Sessions : session'[t].pc # "wait" => \A m \in Sends' : m.id # session'[t].id
    BY <1>1, <2>2, <2>3, <2>4 DEF Numbered, Sent
  <2> QED
    BY <2>4, <2>5, <2>7, <2>8 DEF Numbered, Sent
<1>2. ASSUME NEW s \in Sessions, TransferCancelled(s) \/ Found(s) \/ GivesUp(s)
      PROVE  Numbered'
  <2>1. /\ Ends(s) /\ commands' = commands /\ Sends' = Sends
    BY <1>2 DEF TransferCancelled, Found, GivesUp, Sends
  <2> QED
    BY <1>a, <2>1, AfterEnds
<1>3. ASSUME NEW s \in Sessions, RegisterNames(s) PROVE Numbered'
  <2>1. /\ Goes(s, "send", key) /\ session[s].pc = "body"
        /\ commands' = commands /\ Sends' = Sends
    BY <1>3 DEF RegisterNames, NamedKey, Sends
  <2> QED
    BY <1>a, <2>1, AfterGoes
<1>4. ASSUME NEW s \in Sessions, Send(s) PROVE Numbered'
  <2>1. /\ commands' = commands /\ Sends' = Sends \cup {Message(s)}
        /\ session[s].pc \in {"confirm", "send"} /\ Message(s).id = session[s].id
    BY <1>4 DEF Send, Sends, Message
  <2>2. \A t \in Sessions : t # s => session'[t] = session[t]
    BY <1>4, AfterGoes DEF Send
  <2>3. session'[s].id = session[s].id /\ session'[s].pc = "wait"
    BY <1>4, AfterGoes DEF Send
  <2>4. session[s].id # 0
    BY <1>0, <2>1, Fields, Numbers
  <2>5. \A t \in Sessions : t # s => session[t].id # session[s].id
    BY <2>4 DEF Numbered
  <2>6. \A m \in Sends' : m.id <= commands'
    BY <2>1 DEF Numbered
  <2>7. \A t \in Sessions : session'[t].id <= commands'
    BY <2>1, <2>2, <2>3 DEF Numbered
  <2>8. \A t, u \in Sessions : session'[t].id = session'[u].id /\ session'[t].id # 0 => t = u
    BY <2>2, <2>3 DEF Numbered
  <2>9. \A t \in Sessions : session'[t].pc # "wait" => \A m \in Sends' : m.id # session'[t].id
    BY <2>1, <2>2, <2>3, <2>5 DEF Numbered, Sent
  <2> QED
    BY <2>6, <2>7, <2>8, <2>9 DEF Numbered, Sent
<1>5. ASSUME UNCHANGED <<session, commands>>, Sends' \subseteq Sends PROVE Numbered'
  BY <1>5, <1>a
<1>6. ASSUME NEW s \in Sessions, Command(s) PROVE Numbered'
  <2>1. CASE \E a \in Amounts : TransferLooks(s, a)
    BY <1>1, <2>1 DEF TransferLooks, Sends
  <2>2. CASE RegisterLooks(s)
    BY <1>1, <2>2 DEF RegisterLooks, Sends
  <2> QED
    BY <1>2, <1>3, <1>4, <1>6, <2>1, <2>2 DEF Command
<1>7. CASE UNCHANGED <<session, commands>>
  <2>1. \A s \in Sessions : ~ Send(s)
    <3> SUFFICES ASSUME NEW s \in Sessions, Send(s) PROVE FALSE
      OBVIOUS
    <3>1. session'[s].pc = "wait" /\ session[s].pc # "wait"
      BY AfterGoes DEF Send
    <3> QED
      BY <1>7, <3>1
  <2> QED
    BY <1>5, <1>7, <2>1, SendsShrink
<1> QED
  BY <1>6, <1>7 DEF Next, Import, Accept, Expire, DaemonSpends, Fund, vars

-----------------------------------------------------------------------------
(* The commands are Requests *)

\* A number is that of one message, in the pool or accepted.
OneMessage ==
  /\ \A m, n \in Sends : m.id = n.id => m = n
  /\ pool \cap accepted = {}

LEMMA OneMessageStep == TypeOK /\ Numbered /\ OneMessage /\ [Next]_vars => OneMessage'
<1> SUFFICES ASSUME TypeOK, Numbered, OneMessage, [Next]_vars PROVE OneMessage'
  OBVIOUS
<1>1. ASSUME NEW s \in Sessions, Send(s) PROVE OneMessage'
  <2>1. /\ Sends' = Sends \cup {Message(s)} /\ Message(s).id = session[s].id
        /\ pool' = pool \cup {Message(s)} /\ accepted' = accepted
    BY <1>1 DEF Send, Sends, Message
  <2>2. \A m \in Sends : m.id # session[s].id
    BY <1>1 DEF Send, Numbered, Sent
  <2>3. \A m, n \in Sends' : m.id = n.id => m = n
    BY <2>1, <2>2 DEF OneMessage
  <2>4. Message(s) \notin accepted
    BY <2>1, <2>2 DEF Sends
  <2> QED
    BY <2>1, <2>3, <2>4 DEF OneMessage
<1>2. CASE \A s \in Sessions : ~ Send(s)
  <2>1. Sends' \subseteq Sends
    BY <1>2, SendsShrink
  <2>2. pool' \cap accepted' = {}
    <3>1. \A s \in Sessions : Command(s) => UNCHANGED <<pool, accepted>>
      BY <1>2 DEF Command, TransferLooks, TransferCancelled, RegisterLooks,
                  RegisterNames, Found, GivesUp
    <3>2. \A k \in Keys : Import(k) \/ DaemonSpends(k) \/ Fund(k) =>
            pool' \subseteq pool /\ accepted' = accepted
      BY DEF Import, DaemonSpends, Fund, NotOf
    <3>3. \A m \in pool : Expire(m) => pool' \subseteq pool /\ accepted' = accepted
      BY DEF Expire
    <3>4. \A m \in pool : Accept(m) =>
            pool' \subseteq pool \ {m} /\ accepted' = accepted \cup {m}
      BY DEF Accept, NotOf
    <3> QED
      BY <3>1, <3>2, <3>3, <3>4 DEF OneMessage, Next, vars
  <2> QED
    BY <2>1, <2>2 DEF OneMessage
<1> QED
  BY <1>1, <1>2

\* No command is carried out by two messages, and none after it was.
THEOREM OneMessageAlways == Spec => [](Numbered /\ OneMessage)
<1>1. Init => Numbered /\ OneMessage
  BY DEF Init, Numbered, OneMessage, Sends, Sent, Idle
<1> QED
  BY <1>1, NumberedStep, OneMessageStep, TypeCorrect, PTL DEF Spec

LEMMA AskedInit == Init => Asked!Init
BY DEF Init, Asked!Init, NumbersOf, Idle

LEMMA AskedStep ==
  TypeOK /\ Numbered /\ OneMessage /\ [Next]_vars => [Asked!Next]_(Asked!vars)
<1> SUFFICES ASSUME TypeOK, Numbered, OneMessage, [Next]_vars
             PROVE  [Asked!Next]_(Asked!vars)
  OBVIOUS
<1> DEFINE Ids == [s \in Sessions |-> session[s].id]
           N == 1 .. MaxCommands
<1>0. /\ commands \in Nat /\ MaxCommands \in Nat
      /\ \A m \in Sends : m.id \in N /\ m.id <= commands
      /\ \A s \in Sessions : session[s] \in Steps /\ session[s].id \in Nat
  BY Numbers, Fields, MessageFields DEF TypeOK, Idle, Sends, Numbered
<1>1. \A s \in Sessions :
        /\ session[s].id <= commands
        /\ session[s].pc = "idle" <=> session[s].id = 0
  BY <1>0, Numbers, Fields DEF Numbered, Idle
\* What becomes of the numbers in hand when one session's does.
<1>a. ASSUME NEW s \in Sessions, NEW n,
             session'[s].id = n, \A t \in Sessions \ {s} : session'[t] = session[t]
      PROVE  Ids' = [Ids EXCEPT ![s] = n]
  BY <1>a
<1>b. ASSUME UNCHANGED <<pool, accepted, registered>>, Ids' = Ids
      PROVE  [Asked!Next]_(Asked!vars)
  BY <1>b DEF Asked!vars, NumbersOf
<1>2. ASSUME NEW s \in Sessions, NEW pc, NEW amount, Looks(s, pc, amount),
             UNCHANGED <<pool, accepted, registered>>
      PROVE  Asked!Open(s)
  <2>1. Ids' = [Ids EXCEPT ![s] = commands + 1]
    BY <1>2, <1>a, AfterLooks
  <2>2. commands + 1 \in N /\ Ids[s] = 0
    BY <1>0, <1>1, <1>2 DEF Looks, TypeOK
  <2>3. commands + 1 \notin NumbersOf(pool) \cup NumbersOf(accepted)
    BY <1>0 DEF NumbersOf, Sends
  <2>4. \A t \in Sessions : Ids[t] # commands + 1
    BY <1>0, <1>1
  <2> QED
    BY <1>2, <2>1, <2>2, <2>3, <2>4 DEF Asked!Open, Asked!Used, NumbersOf
<1>3. ASSUME NEW s \in Sessions, TransferCancelled(s) \/ GivesUp(s)
      PROVE  Asked!GiveUp(s)
  <2>1. /\ Ends(s) /\ session[s].pc # "idle"
        /\ UNCHANGED <<pool, accepted, registered>>
    BY <1>3 DEF TransferCancelled, GivesUp
  <2>2. Ids' = [Ids EXCEPT ![s] = 0]
    BY <1>a, <2>1, AfterEnds DEF Idle
  <2> QED
    BY <1>1, <2>1, <2>2 DEF Asked!GiveUp, Asked!Closes, NumbersOf
<1>4. ASSUME NEW s \in Sessions, Found(s) PROVE Asked!Succeed(s)
  <2>1. /\ Ends(s) /\ session[s].pc # "idle" /\ UNCHANGED <<pool, accepted>>
        /\ registered' \in {registered, TRUE}
    BY <1>4 DEF Found, FlagAfter, TypeOK
  <2>2. Ids' = [Ids EXCEPT ![s] = 0]
    BY <1>a, <2>1, AfterEnds DEF Idle
  <2>3. Ids[s] \in NumbersOf(accepted)
    BY <1>4 DEF Found, Sent, NumbersOf
  <2> QED
    BY <1>1, <2>1, <2>2, <2>3 DEF Asked!Succeed, Asked!Closes, NumbersOf
<1>5. ASSUME NEW s \in Sessions, RegisterNames(s) PROVE [Asked!Next]_(Asked!vars)
  <2>1. Ids' = Ids
    BY <1>5, AfterGoes DEF RegisterNames
  <2> QED
    BY <1>5, <1>b, <2>1 DEF RegisterNames
<1>6. ASSUME NEW s \in Sessions, Send(s) PROVE Asked!Send(s)
  <2>1. Ids' = Ids
    BY <1>6, AfterGoes DEF Send
  <2>2. NumbersOf(pool') = NumbersOf(pool) \cup {Ids[s]}
    <3>1. pool' = pool \cup {Message(s)} /\ Message(s).id = Ids[s]
      BY <1>6 DEF Send, Message
    <3> QED
      BY <3>1 DEF NumbersOf
  <2>3. Ids[s] \notin NumbersOf(pool) \cup NumbersOf(accepted) \cup {0}
    BY <1>1, <1>6 DEF Send, NumbersOf, Numbered, Sent, Sends
  <2> QED
    BY <1>6, <2>1, <2>2, <2>3 DEF Send, Asked!Send, NumbersOf
<1>7. ASSUME NEW m \in pool, Accept(m) PROVE Asked!CarryOut(m.id) /\ m.id \in N
  <2>1. /\ pool' \subseteq pool \ {m} /\ accepted' = accepted \cup {m}
        /\ UNCHANGED <<session, registered>>
    BY <1>7 DEF Accept, NotOf
  <2>2. m.id \in NumbersOf(pool) \ NumbersOf(accepted)
    BY DEF NumbersOf, OneMessage, Sends
  <2>3. NumbersOf(accepted') = NumbersOf(accepted) \cup {m.id}
    BY <2>1 DEF NumbersOf
  <2>4. NumbersOf(pool') \subseteq NumbersOf(pool) \ {m.id}
    BY <2>1 DEF NumbersOf, OneMessage, Sends
  <2> QED
    BY <1>0, <2>1, <2>2, <2>3, <2>4 DEF Asked!CarryOut, NumbersOf, Sends
<1>8. ASSUME pool' \subseteq pool, UNCHANGED <<session, accepted, registered>>
      PROVE  Asked!Lose
  <2>1. NumbersOf(pool') \subseteq NumbersOf(pool)
    BY <1>8 DEF NumbersOf
  <2> QED
    BY <1>8, <2>1 DEF Asked!Lose, NumbersOf
<1>9. ASSUME NEW k \in Keys, Import(k) PROVE Asked!ClearFlag
  BY <1>9 DEF Import, Asked!ClearFlag, NumbersOf
<1>10. ASSUME NEW s \in Sessions, Command(s) PROVE [Asked!Next]_(Asked!vars)
  <2>1. (\E a \in Amounts : TransferLooks(s, a)) \/ RegisterLooks(s) => Asked!Open(s)
    BY <1>2 DEF TransferLooks, RegisterLooks
  <2> QED
    BY <1>3, <1>4, <1>5, <1>6, <1>10, <2>1 DEF Command, Asked!Next
<1>11. (\E m \in pool : Accept(m)) => Asked!Next
  BY <1>7 DEF Asked!Next
<1>12. (\E m \in pool : Expire(m)) => Asked!Lose
  BY <1>8 DEF Expire
<1>13. (\E k \in Keys : DaemonSpends(k) \/ Fund(k)) => Asked!Lose
  BY <1>8 DEF DaemonSpends, Fund, NotOf
<1>14. CASE UNCHANGED vars
  BY <1>b, <1>14 DEF vars
<1> QED
  BY <1>9, <1>10, <1>11, <1>12, <1>13, <1>14 DEF Next, Asked!Next

\* What consoles ask of the chain behaves like Requests, whatever is accepted late, lost
\* or voided by another payment: each command is carried out at most once, and only one
\* that was carried out sets the flag.
THEOREM WalletImplementsRequests == Spec => ImplementsRequests
BY AskedInit, AskedStep, TypeCorrect, OneMessageAlways, PTL
DEF Spec, ImplementsRequests, Asked!Spec

-----------------------------------------------------------------------------
(* What was accepted has paid *)

\* What Covered says of one session.
CoveredAt(s) ==
  /\ session[s].pc \in {"confirm", "body", "send"} => key = session[s].by /\ Covers(s)
  /\ session[s].pc = "wait" =>
       /\ \A m \in Sent(s, pool) : Matches(m, s) /\ Covers(s)
       /\ Sent(s, accepted) \subseteq paid

LEMMA LeftType == \A s \in Sessions : Left(s) \in Int
BY Numbers DEF Left

\* A session without a step of its own stays covered while its wallet keeps what it
\* has, no message of its number is added, and those accepted of it are paid.
LEMMA StaysCovered ==
  ASSUME TypeOK, NEW s \in Sessions, CoveredAt(s), session'[s] = session[s],
         session[s].pc \in {"confirm", "body", "send"} => key' = key,
         balance[session[s].by] <= balance'[session[s].by],
         Sent(s, pool') \subseteq Sent(s, pool),
         \A m \in Sent(s, accepted') : m \in Sent(s, accepted) \/ m \in paid',
         paid \subseteq paid',
         balance' \in [Keys -> Nat]
  PROVE  CoveredAt(s)'
<1>l. Left(s)' = Left(s) /\ Left(s) \in Int
  BY LeftType DEF Left, Registering
<1>c. ASSUME session[s].pc # "idle", Covers(s) PROVE Covers(s)'
  <2>1. session[s].by \in Keys /\ session[s].amount \in Nat
    BY <1>c, Fields, Numbers DEF TypeOK
  <2>2. balance[session[s].by] \in Nat /\ balance'[session[s].by] \in Nat
    BY <2>1 DEF TypeOK
  <2> QED
    BY <1>c, <1>l, <2>1, <2>2 DEF Covers
<1>1. CASE session[s].pc \in {"confirm", "body", "send"}
  <2>1. Covers(s)'
    BY <1>1, <1>c DEF CoveredAt
  <2> QED
    BY <1>1, <2>1 DEF CoveredAt
<1>2. CASE session[s].pc = "wait"
  <2>1. Sent(s, accepted') \subseteq paid'
    BY <1>2 DEF CoveredAt
  <2>2. ASSUME NEW m \in Sent(s, pool') PROVE Matches(m, s)' /\ Covers(s)'
    <3>1. Matches(m, s) /\ Covers(s)
      BY <1>2, <2>2 DEF CoveredAt
    <3> QED
      BY <1>2, <1>c, <3>1 DEF Matches
  <2> QED
    BY <1>2, <2>1, <2>2 DEF CoveredAt, Sent
<1>3. CASE session[s].pc = "idle"
  BY <1>3 DEF CoveredAt
<1> QED
  BY <1>1, <1>2, <1>3, Fields DEF TypeOK

LEMMA CoveredStep == TypeOK /\ Numbered /\ Covered /\ [Next]_vars => Covered'
<1> SUFFICES ASSUME TypeOK, Numbered, Covered, [Next]_vars,
                    NEW t \in Sessions, t \notin overtaken', t \notin dear'
             PROVE  CoveredAt(t)'
  BY DEF Covered, CoveredAt
<1>t. TypeOK'
  BY TypeInvariant
<1>b. balance' \in [Keys -> Nat]
  BY <1>t DEF TypeOK
<1>0. /\ \A u \in Sessions \ (overtaken \cup dear) : CoveredAt(u)
      /\ session[t] \in Steps /\ session'[t] \in Steps
      /\ \A k \in Keys : balance[k] \in Nat
  BY <1>t DEF Covered, CoveredAt, TypeOK
\* Steps that leave the wallets, the messages and the key alone.
<1>a. ASSUME t \notin overtaken, t \notin dear, session'[t] = session[t],
             UNCHANGED <<key, balance, pool, accepted, paid>>
      PROVE  CoveredAt(t)'
  BY <1>0, <1>a DEF CoveredAt, Covers, Left, Registering, Matches, Sent
<1>i. ASSUME session'[t] = Idle PROVE CoveredAt(t)'
  BY <1>i DEF CoveredAt, Idle
<1>1. ASSUME NEW s \in Sessions, NEW pc \in {"confirm", "body"}, NEW amount \in Nat,
             Looks(s, pc, amount),
             balance[key] >= amount + (IF pc = "body" THEN RegMin - RegAmount ELSE Reserve),
             UNCHANGED <<key, balance, pool, accepted, paid, overtaken, dear>>
      PROVE  CoveredAt(t)'
  <2>1. CASE t = s
    <3>1. /\ session'[t].pc = pc /\ session'[t].by = key /\ session'[t].amount = amount
          /\ session'[t].body = NoKey
      BY <1>1, <2>1, AfterLooks
    <3>2. Left(t)' = IF pc = "body" THEN RegMin - RegAmount ELSE Reserve
      BY <1>1, <3>1 DEF Left, Registering
    <3> QED
      BY <1>1, <3>1, <3>2 DEF CoveredAt, Covers
  <2>2. CASE t # s
    BY <1>1, <1>a, <2>2, AfterLooks
  <2> QED
    BY <2>1, <2>2
<1>2. ASSUME NEW s \in Sessions, TransferCancelled(s) \/ Found(s) \/ GivesUp(s)
      PROVE  CoveredAt(t)'
  <2>1. /\ Ends(s) /\ UNCHANGED <<key, balance, pool, accepted, paid>>
        /\ t # s => t \notin overtaken /\ t \notin dear
    BY <1>2 DEF TransferCancelled, Found, GivesUp, Ends
  <2> QED
    BY <1>a, <1>i, <2>1, AfterEnds
<1>3. ASSUME NEW s \in Sessions, RegisterNames(s) PROVE CoveredAt(t)'
  <2>1. /\ Goes(s, "send", key) /\ session[s].pc = "body" /\ t \notin overtaken /\ t \notin dear
        /\ UNCHANGED <<key, balance, pool, accepted, paid>>
    BY <1>3 DEF RegisterNames, NamedKey
  <2>2. CASE t = s
    <3>1. /\ session'[t].pc = "send" /\ session'[t].by = session[t].by
          /\ session'[t].amount = session[t].amount
      BY <2>1, <2>2, AfterGoes
    <3>2. key = session[t].by /\ balance[session[t].by] >= session[t].amount + Left(t)
      BY <1>0, <2>1, <2>2 DEF CoveredAt, Covers
    <3>3. Left(t)' = Left(t)
      BY <2>1, <2>2, <3>1 DEF Left, Registering
    <3> QED
      BY <2>1, <3>1, <3>2, <3>3 DEF CoveredAt, Covers
  <2>3. CASE t # s
    BY <1>a, <2>1, <2>3, AfterGoes
  <2> QED
    BY <2>2, <2>3
<1>4. ASSUME NEW s \in Sessions, Send(s) PROVE CoveredAt(t)'
  <2>1. /\ Goes(s, "wait", session[s].body) /\ session[s].pc \in {"confirm", "send"}
        /\ pool' = pool \cup {Message(s)} /\ t \notin overtaken /\ t \notin dear
        /\ UNCHANGED <<key, balance, accepted, paid>>
    BY <1>4 DEF Send
  <2>2. /\ Message(s).id = session[s].id /\ Message(s).from = key
        /\ Message(s).amount = session[s].amount /\ Message(s).body = session[s].body
    BY DEF Message
  <2>3. CASE t = s
    <3>1. /\ session'[t].pc = "wait" /\ session'[t].by = session[t].by
          /\ session'[t].id = session[t].id /\ session'[t].amount = session[t].amount
          /\ session'[t].body = session[t].body
      BY <2>1, <2>3, AfterGoes
    <3>2. key = session[t].by /\ balance[session[t].by] >= session[t].amount + Left(t)
      BY <1>0, <2>1, <2>3 DEF CoveredAt, Covers
    <3>6. Left(t)' = Left(t)
      <4>1. session[t].pc = "confirm" => session[t].body = NoKey
        BY <1>0, Fields
      <4>2. session[t].pc = "send" => session[t].body # NoKey
        BY <1>0, Fields, NoneAssumption
      <4> QED
        BY <2>1, <2>3, <3>1, <4>1, <4>2 DEF Left, Registering
    <3>3. \A m \in pool \cup accepted : m.id # session[t].id
      BY <2>1, <2>3 DEF Numbered, Sent, Sends
    <3>4. \A m \in pool' : m.id = session'[t].id => m = Message(s)
      BY <2>1, <3>1, <3>3
    <3>5. \A m \in accepted' : m.id # session'[t].id
      BY <2>1, <3>1, <3>3
    <3> QED
      BY <2>1, <2>2, <2>3, <3>1, <3>2, <3>4, <3>5, <3>6
      DEF CoveredAt, Covers, Matches, Sent
  <2>4. CASE t # s
    <3>1. session'[t] = session[t]
      BY <2>1, <2>4, AfterGoes
    <3>2. session[s].id # 0
      BY <2>1, Fields, Numbers DEF TypeOK
    <3>3. session[t].id # Message(s).id
      BY <2>2, <2>4, <3>2 DEF Numbered
    <3>4. Sent(t, pool') \subseteq Sent(t, pool)
      BY <2>1, <3>3 DEF Sent
    <3>5. session[t].pc # "idle" => balance[session[t].by] \in Nat
      BY <1>0, Fields
    <3>6. CASE session[t].pc # "idle"
      <4>1. balance[session[t].by] <= balance'[session[t].by]
        BY <2>1, <3>5, <3>6
      <4> QED
        BY <1>0, <1>b, <2>1, <3>1, <3>4, <4>1, StaysCovered
    <3>7. CASE session[t].pc = "idle"
      BY <3>1, <3>7 DEF CoveredAt
    <3> QED
      BY <3>6, <3>7
  <2> QED
    BY <2>3, <2>4
<1>5. ASSUME NEW k \in Keys, Import(k) PROVE CoveredAt(t)'
  <2>1. /\ session[t].pc \notin {"confirm", "body", "send"} /\ t \notin overtaken /\ t \notin dear
        /\ UNCHANGED <<balance, pool, accepted, paid, session>>
    BY <1>5 DEF Import
  <2> QED
    BY <1>0, <2>1 DEF CoveredAt, Covers, Left, Registering, Matches, Sent
<1>6. ASSUME NEW m \in pool, Accept(m) PROVE CoveredAt(t)'
  <2>1. /\ t \notin overtaken /\ t \notin dear /\ (session[t].by # m.from \/ session[t].id = m.id)
        /\ session' = session /\ key' = key
    BY <1>6 DEF Accept, LookedAt
  <2>2. m.from \in Keys /\ m.amount \in Nat /\ m.id # 0
    BY MessageFields, Numbers DEF TypeOK
  <2>3. /\ pool' \subseteq pool /\ accepted' = accepted \cup {m} /\ paid \subseteq paid'
        /\ \A n \in pool' : n.from # m.from
        /\ \A k \in Keys \ {m.from} : balance'[k] = balance[k]
    BY <1>6, <2>2 DEF Accept, NotOf, TypeOK
  <2>4. CASE session[t].pc = "idle"
    BY <2>1, <2>4 DEF CoveredAt
  <2>5. CASE session[t].pc # "idle" /\ session[t].id # m.id
    <3>1. session[t].by \in Keys \ {m.from}
      BY <1>0, <2>1, <2>5, Fields
    <3>2. balance'[session[t].by] = balance[session[t].by]
      BY <2>3, <3>1
    <3>3. balance[session[t].by] \in Nat
      BY <1>0, <3>1
    <3>4. Sent(t, pool') \subseteq Sent(t, pool) /\ Sent(t, accepted') = Sent(t, accepted)
      BY <2>3, <2>5 DEF Sent
    <3>5. balance[session[t].by] <= balance'[session[t].by]
      BY <3>2, <3>3
    <3> QED
      BY <1>0, <1>b, <2>1, <2>3, <3>4, <3>5, StaysCovered
  <2>6. CASE session[t].pc # "idle" /\ session[t].id = m.id
    <3>1. session[t].pc = "wait" /\ m \in Sent(t, pool)
      BY <2>6 DEF Numbered, Sent, Sends
    <3>2. Matches(m, t) /\ Covers(t)
      BY <1>0, <2>1, <3>1 DEF CoveredAt
    <3>3. m \in paid'
      <4> PICK gas \in Gases :
             \/ m \in paid'
             \/ /\ ~ (balance[m.from] >= m.amount + gas)
                /\ dear' = dear \cup Dear(m, gas)
        BY <1>6 DEF Accept
      <4>1. Left(t) = Spare(m) /\ Spare(m) \in Int
        BY <3>1, <3>2, Numbers DEF Left, Spare, Registering, Matches
      <4>2. balance[m.from] >= m.amount + Spare(m)
        BY <3>2, <4>1 DEF Covers, Matches
      <4>3. CASE gas > Spare(m)
        <5>1. t \in Dear(m, gas)
          BY <2>6, <4>3 DEF Dear
        <5> QED
          BY <5>1
      <4>4. CASE ~ (gas > Spare(m))
        BY <1>0, <2>2, <4>1, <4>2, <4>4, Numbers
      <4> QED
        BY <4>3, <4>4
    <3>4. Sent(t, pool') = {}
      BY <1>0, <2>1, <2>3, <3>1, <3>2 DEF CoveredAt, Matches, Sent
    <3>5. \A n \in Sent(t, accepted') : n \in Sent(t, accepted) \/ n \in paid'
      BY <2>3, <3>3 DEF Sent
    <3>6. Sent(t, accepted) \subseteq paid
      BY <1>0, <2>1, <3>1 DEF CoveredAt
    <3> QED
      BY <2>1, <2>3, <3>1, <3>4, <3>5, <3>6 DEF CoveredAt, Sent
  <2> QED
    BY <2>4, <2>5, <2>6
<1>7. ASSUME NEW m \in pool, Expire(m) PROVE CoveredAt(t)'
  <2>1. /\ t \notin overtaken /\ t \notin dear /\ pool' \subseteq pool
        /\ UNCHANGED <<key, balance, accepted, paid, session>>
    BY <1>7 DEF Expire
  <2> QED
    BY <1>0, <2>1 DEF CoveredAt, Covers, Left, Registering, Matches, Sent
<1>8. ASSUME NEW k \in Keys, DaemonSpends(k) PROVE CoveredAt(t)'
  <2>1. /\ t \notin overtaken /\ t \notin dear /\ (session[t].by # k \/ session[t].id = 0)
        /\ pool' \subseteq pool /\ UNCHANGED <<key, accepted, paid, session>>
        /\ \A j \in Keys \ {k} : balance'[j] = balance[j]
    BY <1>8 DEF DaemonSpends, LookedAt, NotOf, TypeOK
  <2>2. CASE session[t].pc = "idle"
    BY <2>1, <2>2 DEF CoveredAt
  <2>3. CASE session[t].pc # "idle"
    <3>1. session[t].by \in Keys \ {k}
      BY <1>0, <2>1, <2>3, Fields, Numbers
    <3>2. balance'[session[t].by] = balance[session[t].by]
      BY <2>1, <3>1
    <3> QED
      BY <1>0, <2>1, <3>2 DEF CoveredAt, Covers, Left, Registering, Matches, Sent
  <2> QED
    BY <2>2, <2>3
<1>9. ASSUME NEW k \in Keys, Fund(k) PROVE CoveredAt(t)'
  <2>1. /\ t \notin overtaken /\ t \notin dear /\ UNCHANGED <<key, pool, accepted, paid, session>>
        /\ \A j \in Keys : balance[j] <= balance'[j]
    BY <1>0, <1>9, Numbers DEF Fund, TypeOK
  <2>2. CASE session[t].pc = "idle"
    BY <2>1, <2>2 DEF CoveredAt
  <2>3. CASE session[t].pc # "idle"
    <3>1. session[t].by \in Keys
      BY <1>0, <2>3, Fields
    <3>2. Sent(t, pool') = Sent(t, pool) /\ Sent(t, accepted') = Sent(t, accepted)
      BY <2>1 DEF Sent
    <3> QED
      BY <1>0, <1>b, <2>1, <3>1, <3>2, StaysCovered
  <2> QED
    BY <2>2, <2>3
<1>10. CASE UNCHANGED vars
  BY <1>a, <1>10 DEF vars
<1>11. ASSUME NEW s \in Sessions, Command(s) PROVE CoveredAt(t)'
  <2>1. ASSUME NEW a \in Amounts, TransferLooks(s, a) PROVE CoveredAt(t)'
    BY <1>1, <2>1, Numbers DEF TransferLooks, Needed
  <2>2. CASE RegisterLooks(s)
    <3>1. balance[key] >= RegAmount + (RegMin - RegAmount)
      BY <1>0, <2>2, Numbers DEF RegisterLooks, TypeOK
    <3> QED
      BY <1>1, <2>2, <3>1, Numbers DEF RegisterLooks
  <2> QED
    BY <1>2, <1>3, <1>4, <1>11, <2>1, <2>2 DEF Command
<1> QED
  BY <1>5, <1>6, <1>7, <1>8, <1>9, <1>10, <1>11 DEF Next

\* A message of a command that was not overtaken has paid once it is accepted, unless
\* the chain took more gas than the command had left for it: whatever the amounts, the
\* reserve and the gas are.
THEOREM AcceptedHavePaid == Spec => []AcceptedIsPaid
<1>1. Init => Numbered /\ Covered
  BY DEF Init, Numbered, Covered, Sends, Sent, Idle
<1>2. Covered => AcceptedIsPaid
  BY DEF Covered, AcceptedIsPaid
<1> QED
  BY <1>1, <1>2, NumberedStep, CoveredStep, TypeCorrect, PTL DEF Spec

-----------------------------------------------------------------------------
(* A registration is paid once *)

\* Who is registering, and with what, changes in four of a session's steps.
LEMMA AloneStep == TypeOK /\ Alone /\ [Next]_vars => Alone'
<1> SUFFICES ASSUME TypeOK, Alone, [Next]_vars, NEW t \in Sessions, t \notin loose'
             PROVE  /\ Registering(t)' => Others(t)' = {}
                    /\ session'[t].pc = "body" => ~ registered'
  BY DEF Alone
<1> DEFINE Goal == /\ Registering(t)' => Others(t)' = {}
                   /\ session'[t].pc = "body" => ~ registered'
<1>0. \A u \in Sessions : session[u] \in Steps
  BY DEF TypeOK
\* No session begins to register, and the flag is not set under one that has.
<1>a. ASSUME t \notin loose, session'[t].pc = "body" => session[t].pc = "body",
             \A u \in Sessions : Registering(u)' => Registering(u),
             session[t].pc = "body" /\ registered' => registered
      PROVE  Goal
  BY <1>a DEF Alone, Others
<1>1. ASSUME NEW s \in Sessions, NEW amount, TransferLooks(s, amount) PROVE Goal
  <2>1. Looks(s, "confirm", amount) /\ registered' = registered /\ loose' = loose
    BY <1>1 DEF TransferLooks
  <2>2. /\ session'[s].pc = "confirm" /\ session'[s].body = NoKey
        /\ \A u \in Sessions \ {s} : session'[u] = session[u]
    BY <2>1, AfterLooks
  <2> QED
    BY <1>a, <2>1, <2>2 DEF Registering
<1>2. ASSUME NEW s \in Sessions, TransferCancelled(s) \/ Found(s) \/ GivesUp(s) PROVE Goal
  <2>1. Ends(s) /\ (registered' = registered \/ registered' = FlagAfter(s))
    BY <1>2 DEF TransferCancelled, Found, GivesUp
  <2>2. session'[s] = Idle /\ \A u \in Sessions \ {s} : session'[u] = session[u]
    BY <2>1, AfterEnds
  <2>3. \A u \in Sessions : Registering(u)' => Registering(u)
    BY <2>2 DEF Registering, Idle
  <2>4. CASE t = s
    BY <2>2, <2>4 DEF Registering, Idle
  <2>5. CASE t # s
    <3>1. t \notin loose
      BY <2>1, <2>5 DEF Ends
    <3>2. ASSUME session[t].pc = "body" PROVE ~ Registering(s)
      BY <2>5, <3>1, <3>2 DEF Alone, Registering, Others
    <3>3. session[t].pc = "body" /\ registered' => registered
      BY <2>1, <3>2 DEF FlagAfter, Registering
    <3> QED
      BY <1>a, <2>2, <2>3, <2>5, <3>1, <3>3
  <2> QED
    BY <2>4, <2>5
<1>3. ASSUME NEW s \in Sessions, RegisterLooks(s) PROVE Goal
  <2>1. Looks(s, "body", RegAmount) /\ registered' = registered /\ t \notin loose
    BY <1>3 DEF RegisterLooks
  <2>2. /\ session'[s].pc = "body" /\ session'[s].body = NoKey
        /\ \A u \in Sessions \ {s} : session'[u] = session[u]
    BY <2>1, AfterLooks
  <2>3. CASE t = s
    <3>1. ~ registered /\ Others(s) = {}
      BY <1>3, <2>3 DEF RegisterLooks
    <3>2. Others(s)' = {}
      BY <2>2, <3>1 DEF Others, Registering
    <3> QED
      BY <2>1, <2>3, <3>1, <3>2
  <2>4. CASE t # s
    <3>1. ~ Registering(t)
      BY <1>3, <2>1, <2>4 DEF RegisterLooks, Others
    <3> QED
      BY <2>2, <2>4, <3>1 DEF Registering
  <2> QED
    BY <2>3, <2>4
<1>4. ASSUME NEW s \in Sessions, RegisterNames(s) \/ Send(s) PROVE Goal
  <2>1. /\ loose' = loose /\ registered' = registered
        /\ session'[s].pc # "body"
        /\ \A u \in Sessions \ {s} : session'[u] = session[u]
    BY <1>4, AfterGoes DEF RegisterNames, Send
  <2>2. Registering(s)' => Registering(s)
    <3>1. CASE RegisterNames(s)
      BY <3>1 DEF RegisterNames, Registering
    <3>2. CASE Send(s)
      <4>1. session'[s].pc = "wait" /\ session'[s].body = session[s].body
        BY <3>2, AfterGoes DEF Send
      <4> QED
        BY <4>1 DEF Registering
    <3> QED
      BY <1>4, <3>1, <3>2
  <2> QED
    BY <1>a, <2>1, <2>2 DEF Registering
<1>5. ASSUME session' = session, loose' = loose, registered' => registered PROVE Goal
  BY <1>5, <1>a DEF Registering
<1>6. ASSUME NEW k \in Keys, Import(k) \/ DaemonSpends(k) \/ Fund(k) PROVE Goal
  <2>1. session' = session /\ loose' = loose /\ (registered' => registered)
    BY <1>6 DEF Import, DaemonSpends, Fund
  <2> QED
    BY <1>5, <2>1
<1>7. ASSUME NEW m \in pool, Accept(m) \/ Expire(m) PROVE Goal
  BY <1>5, <1>7 DEF Accept, Expire
<1>8. CASE UNCHANGED vars
  BY <1>5, <1>8 DEF vars
<1> QED
  BY <1>1, <1>2, <1>3, <1>4, <1>6, <1>7, <1>8 DEF Next, Command

\* A step by which nobody begins or ends to register k.
LEMMA Calm ==
  ASSUME NEW k \in Keys, OneAttempt(k),
         \A m \in Sends' : m.body = k => m \in Sends,
         \A t \in Sessions : session'[t] = session[t]
           \/ (session[t].body # k /\ session'[t].body # k),
         key' = k => key = k /\ (registered => registered')
  PROVE  OneAttempt(k)'
<1>1. \A t \in Sessions : session'[t].body = k <=> session[t].body = k
  OBVIOUS
<1>2. \A t \in Sessions : session'[t].body = k => session'[t] = session[t]
  BY <1>1
<1>3. k \in Tried' => k \in Tried
  BY <1>1 DEF Tried, Sends
<1> QED
  BY <1>1, <1>2, <1>3 DEF OneAttempt

LEMMA ExplainedStep == TypeOK /\ Alone /\ Explained /\ [Next]_vars => Explained'
<1> SUFFICES ASSUME TypeOK, Alone, Explained, [Next]_vars, NEW k \in Keys, k \notin excused'
             PROVE  OneAttempt(k)'
  BY DEF Explained
<1>0. /\ \A u \in Sessions : session[u] \in Steps
      /\ k # NoKey
  BY NoneAssumption DEF TypeOK
<1>k. k \notin excused => OneAttempt(k)
  BY DEF Explained
<1>1. ASSUME NEW s \in Sessions, NEW pc, NEW amount, Looks(s, pc, amount),
             session[s].pc = "idle", UNCHANGED <<key, registered, pool, accepted, excused>>
      PROVE  OneAttempt(k)'
  <2>1. session[s].body = NoKey
    BY <1>0, <1>1, Fields DEF Idle
  <2>2. session'[s].body = NoKey /\ \A u \in Sessions \ {s} : session'[u] = session[u]
    BY <1>1, AfterLooks
  <2> QED
    BY <1>0, <1>k, <1>1, <2>1, <2>2, Calm DEF Sends
<1>2. ASSUME NEW s \in Sessions, TransferCancelled(s) \/ Found(s) \/ GivesUp(s)
      PROVE  OneAttempt(k)'
  <2>1. /\ Ends(s) /\ UNCHANGED <<key, pool, accepted>> /\ k \notin excused
        /\ registered => registered'
    <3>1. TransferCancelled(s) \/ GivesUp(s) => registered' = registered /\ excused \subseteq excused'
      BY DEF TransferCancelled, GivesUp
    <3>2. Found(s) => (registered => registered') /\ excused' = excused
      BY DEF Found, FlagAfter
    <3>3. Ends(s) /\ UNCHANGED <<key, pool, accepted>>
      BY <1>2 DEF TransferCancelled, Found, GivesUp
    <3> QED
      BY <1>2, <3>1, <3>2, <3>3
  <2>2. session'[s] = Idle /\ \A u \in Sessions \ {s} : session'[u] = session[u]
    BY <2>1, AfterEnds
  <2>3. CASE session[s].body # k
    BY <1>0, <1>k, <2>1, <2>2, <2>3, Calm DEF Sends, Idle
  <2>4. CASE session[s].body = k
    <3>1. \A u \in Sessions : session'[u].body # k
      BY <1>0, <1>k, <2>1, <2>2, <2>4 DEF OneAttempt, Idle
    <3>2. registered' \/ \A m \in Sends : m.body # k
      <4>1. CASE TransferCancelled(s)
        BY <1>0, <2>4, <4>1, Fields DEF TransferCancelled
      <4>2. CASE Found(s)
        BY <1>0, <2>4, <4>2 DEF Found, FlagAfter
      <4>3. CASE GivesUp(s)
        <5>1. \A m \in Sent(s, Sends) : m.body # k
          BY <1>0, <4>3 DEF GivesUp, Sends
        <5>2. \A m \in Sends : m.body = k => m \in Sent(s, Sends)
          BY <1>k, <2>1, <2>4 DEF OneAttempt, Sent
        <5> QED
          BY <5>1, <5>2
      <4> QED
        BY <1>2, <4>1, <4>2, <4>3
    <3> QED
      BY <1>k, <2>1, <3>1, <3>2 DEF OneAttempt, Sends, Tried
  <2> QED
    BY <2>3, <2>4
<1>3. ASSUME NEW s \in Sessions, RegisterNames(s) PROVE OneAttempt(k)'
  <2>1. /\ Goes(s, "send", key) /\ session[s].pc = "body" /\ k \notin excused
        /\ UNCHANGED <<key, registered, pool, accepted>>
    BY <1>3 DEF RegisterNames, NamedKey
  <2>2. /\ session'[s].pc = "send" /\ session'[s].body = key
        /\ \A u \in Sessions \ {s} : session'[u] = session[u]
    BY <2>1, AfterGoes
  <2>3. session[s].body = NoKey
    BY <1>0, <2>1, Fields
  <2>4. CASE key # k
    BY <1>0, <1>k, <2>1, <2>2, <2>3, <2>4, Calm DEF Sends
  <2>5. CASE key = k
    <3>1. k \notin Tried
      <4>1. CASE s \in loose
        BY <1>3, <2>5, <4>1 DEF RegisterNames
      <4>2. CASE s \notin loose
        <5>1. Others(s) = {} /\ ~ registered
          BY <2>1, <4>2 DEF Alone, Registering
        <5>2. \A u \in Sessions : session[u].body # k
          BY <1>0, <2>3, <5>1 DEF Others, Registering
        <5> QED
          BY <1>k, <2>1, <2>5, <5>1, <5>2 DEF OneAttempt
      <4> QED
        BY <4>1, <4>2
    <3>2. \A m \in Sends' : m.body # k
      BY <2>1, <3>1 DEF Tried, Sends
    <3>3. \A u \in Sessions \ {s} : session'[u].body # k
      BY <2>2, <3>1 DEF Tried
    <3> QED
      BY <2>2, <2>5, <3>2, <3>3 DEF OneAttempt
  <2> QED
    BY <2>4, <2>5
<1>4. ASSUME NEW s \in Sessions, Send(s) PROVE OneAttempt(k)'
  <2>1. /\ Goes(s, "wait", session[s].body) /\ session[s].pc \in {"confirm", "send"}
        /\ pool' = pool \cup {Message(s)} /\ k \notin excused
        /\ UNCHANGED <<key, registered, accepted>>
    BY <1>4 DEF Send
  <2>2. Message(s).body = session[s].body /\ Message(s).id = session[s].id
    BY DEF Message
  <2>3. /\ session'[s].pc = "wait" /\ session'[s].body = session[s].body
        /\ session'[s].id = session[s].id
        /\ \A u \in Sessions \ {s} : session'[u] = session[u]
    BY <2>1, AfterGoes
  <2>4. CASE session[s].body # k
    BY <1>k, <2>1, <2>2, <2>3, <2>4, Calm DEF Sends
  <2>5. CASE session[s].body = k
    <3>1. \A m \in Sends : m.body # k
      BY <1>k, <2>1, <2>5 DEF OneAttempt
    <3>2. \A m \in Sends' : m.body = k => m = Message(s)
      BY <2>1, <3>1 DEF Sends
    <3>3. \A u \in Sessions : session'[u].body = k => u = s
      BY <1>k, <2>1, <2>3, <2>5 DEF OneAttempt
    <3> QED
      BY <2>2, <2>3, <2>5, <3>2, <3>3 DEF OneAttempt
  <2> QED
    BY <2>4, <2>5
\* The sessions take no step.
<1>5. ASSUME session' = session, Sends' \subseteq Sends, k \notin excused,
             key' = key /\ registered' = registered
      PROVE  OneAttempt(k)'
  BY <1>5, <1>k, Calm
<1>6. ASSUME NEW j \in Keys, Import(j) PROVE OneAttempt(k)'
  <2>1. /\ key' = j /\ k \notin excused /\ UNCHANGED <<session, pool, accepted>>
        /\ j = k => k \notin Tried
    BY <1>6 DEF Import
  <2>2. CASE j # k
    BY <1>k, <2>1, <2>2, Calm DEF Sends
  <2>3. CASE j = k
    <3>1. k \notin Tried'
      BY <2>1, <2>3 DEF Tried
    <3> QED
      BY <1>k, <2>1, <3>1 DEF OneAttempt, Sends
  <2> QED
    BY <2>2, <2>3
<1>7. ASSUME NEW j \in Keys, DaemonSpends(j) \/ Fund(j) PROVE OneAttempt(k)'
  BY <1>5, <1>7 DEF DaemonSpends, Fund, NotOf, Sends
<1>8. ASSUME NEW m \in pool, Accept(m) \/ Expire(m) PROVE OneAttempt(k)'
  BY <1>5, <1>8 DEF Accept, Expire, NotOf, Sends
<1>9. CASE UNCHANGED vars
  BY <1>5, <1>9 DEF vars, Sends
<1>10. ASSUME NEW s \in Sessions, Command(s) PROVE OneAttempt(k)'
  <2>1. ASSUME NEW a \in Amounts, TransferLooks(s, a) PROVE OneAttempt(k)'
    BY <1>1, <2>1 DEF TransferLooks, Looks
  <2>2. CASE RegisterLooks(s)
    BY <1>1, <2>2 DEF RegisterLooks, Looks
  <2> QED
    BY <1>2, <1>3, <1>4, <1>10, <2>1, <2>2 DEF Command
<1> QED
  BY <1>6, <1>7, <1>8, <1>9, <1>10 DEF Next

LEMMA BeginsIdle ==
  ASSUME session = [s \in Sessions |-> Idle], NEW t \in Sessions
  PROVE  session[t].pc = "idle" /\ session[t].body = NoKey
<1>1. session[t] = Idle
  OBVIOUS
<1> QED
  BY <1>1 DEF Idle

LEMMA BeginsAlone == Init => Alone
<1> SUFFICES ASSUME Init, NEW t \in Sessions
             PROVE  ~ Registering(t) /\ session[t].pc # "body"
  BY Zenon DEF Alone
<1>1. session = [s \in Sessions |-> Idle]
  BY DEF Init
<1>2. session[t].pc = "idle" /\ session[t].body = NoKey
  BY <1>1, BeginsIdle
<1> QED
  BY <1>2 DEF Registering

LEMMA BeginsExplained == Init => Explained
<1> SUFFICES ASSUME Init, NEW k \in Keys PROVE OneAttempt(k)
  BY Zenon DEF Explained
<1>1. session = [s \in Sessions |-> Idle]
  BY DEF Init
<1>2. ASSUME NEW t \in Sessions PROVE session[t].body # k
  BY <1>1, BeginsIdle, NoneAssumption
<1>3. Sends = {}
  BY DEF Init, Sends
<1> QED
  BY <1>2, <1>3 DEF OneAttempt, Tried, Sends

\* Two payments that register the same key are explained by what the operator did.
THEOREM RegistrationsArePaidOnce == Spec => []PaidOnce
<1>1. Init => Alone /\ Explained
  BY BeginsAlone, BeginsExplained
<1>2. TypeOK /\ Explained => PaidOnce
  <2> SUFFICES ASSUME TypeOK, Explained, NEW m \in paid, NEW n \in paid,
                      m.body = n.body, m # n
               PROVE  m.body \in excused \cup {NoKey}
    BY DEF PaidOnce
  <2>1. m \in Sends /\ n \in Sends /\ m \in Messages
    BY DEF TypeOK, Sends
  <2>2. m.body \in Keys \cup {NoKey}
    BY <2>1, MessageFields
  <2> QED
    BY <2>1, <2>2 DEF Explained, OneAttempt
<1> QED
  BY <1>1, <1>2, AloneStep, ExplainedStep, TypeCorrect, PTL DEF Spec
=============================================================================
