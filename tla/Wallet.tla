------------------------------- MODULE Wallet -------------------------------
(***************************************************************************)
(* The provider's wallet, used by consoles without a lock: "wallet         *)
(* transfer", "register" and "wallet import". A payment looks at the       *)
(* balance, asks or prepares, builds the wallet anew from the key in the   *)
(* config, sends a message and waits for it on the chain for 15 seconds.   *)
(*                                                                         *)
(* The chain is external. Of the messages that have the wallet's sequence  *)
(* number it accepts one, after which the others are void, and carries out *)
(* the payment in it if the balance allows: if not, the message is         *)
(* accepted all the same. What it takes for a message is its own affair,   *)
(* and may be more than the commands reckon with. The provider daemon      *)
(* spends from the same wallet.                                            *)
(* How an import writes the config is the subject of ProviderConfig, and   *)
(* one step here.                                                          *)
(***************************************************************************)
EXTENDS Integers

CONSTANTS
  Sessions,      \* console processes
  Keys,          \* wallet keys
  NoKey,         \* what a plain transfer names
  Amounts,       \* amounts of transfers
  Reserve,       \* GAS_RESERVE
  RegAmount,     \* REGISTRATION_AMOUNT
  RegMin,        \* REGISTRATION_MIN_BALANCE
  Gases,         \* what the chain may take for a message
  MaxBalance,    \* bound: what a wallet is filled up to
  MaxCommands    \* bound: commands of all sessions

ASSUME AmountAssumption ==
  /\ Amounts \subseteq Nat \ {0}
  /\ {Reserve, RegAmount, RegMin, MaxBalance, MaxCommands} \subseteq Nat
  /\ Gases \subseteq Nat
ASSUME NoneAssumption == NoKey \notin Keys

VARIABLES
  key,         \* the key in the config
  registered,  \* the flag in the manager's database
  balance,     \* of each wallet
  pool,        \* messages sent that may yet be accepted
  accepted,    \* messages the chain accepted
  paid,        \* those of them whose payment was carried out
  session,     \* of each console: where its command is and what it has in hand
  commands,
  overtaken,   \* history: sessions whose wallet was used or exchanged since they looked
  dear,        \* history: sessions whose payment failed by gas above their spare
  loose,       \* history: registrations with --force, or begun beside another
  excused      \* history: keys for which a repeated registration is explained

vars == <<key, registered, balance, pool, accepted, paid, session, commands,
          overtaken, dear, loose, excused>>

Messages ==
       [id : 1 .. MaxCommands, from : Keys, amount : Amounts, body : {NoKey}]
  \cup [id : 1 .. MaxCommands, from : Keys, amount : {RegAmount}, body : Keys]

Idle == [pc |-> "idle", id |-> 0, by |-> NoKey, amount |-> 0, body |-> NoKey]

Steps ==
       {Idle}
  \cup [pc : {"confirm"}, id : 1 .. MaxCommands, by : Keys, amount : Amounts, body : {NoKey}]
  \cup [pc : {"body"}, id : 1 .. MaxCommands, by : Keys, amount : {RegAmount}, body : {NoKey}]
  \cup [pc : {"send"}, id : 1 .. MaxCommands, by : Keys, amount : {RegAmount}, body : Keys]
  \cup [pc : {"wait"}, id : 1 .. MaxCommands, by : Keys, amount : Amounts, body : {NoKey}]
  \cup [pc : {"wait"}, id : 1 .. MaxCommands, by : Keys, amount : {RegAmount}, body : Keys]

TypeOK ==
  /\ key \in Keys
  /\ registered \in BOOLEAN
  /\ balance \in [Keys -> Nat]
  /\ pool \subseteq Messages /\ accepted \subseteq Messages /\ paid \subseteq accepted
  /\ session \in [Sessions -> Steps]
  /\ commands \in 0 .. MaxCommands
  /\ overtaken \subseteq Sessions /\ dear \subseteq Sessions /\ loose \subseteq Sessions
  /\ excused \subseteq Keys

Init ==
  /\ key \in Keys
  /\ registered = FALSE
  /\ balance = [k \in Keys |-> 0]
  /\ pool = {} /\ accepted = {} /\ paid = {}
  /\ session = [s \in Sessions |-> Idle]
  /\ commands = 0
  /\ overtaken = {} /\ dear = {} /\ loose = {} /\ excused = {}

-----------------------------------------------------------------------------
(* The commands, up to the message *)

\* The session has looked at the wallet of the key in the config.
Looks(s, pc, amount) ==
  /\ session[s].pc = "idle"
  /\ commands < MaxCommands
  /\ commands' = commands + 1
  /\ session' = [session EXCEPT ![s] = [pc |-> pc, id |-> commands + 1, by |-> key,
                                        amount |-> amount, body |-> NoKey]]

Goes(s, pc, body) ==
  session' = [session EXCEPT ![s] = [pc |-> pc, id |-> @.id, by |-> @.by,
                                     amount |-> @.amount, body |-> body]]

Ends(s) ==
  /\ session' = [session EXCEPT ![s] = Idle]
  /\ overtaken' = overtaken \ {s} /\ dear' = dear \ {s} /\ loose' = loose \ {s}

\* Mutant: the gas is forgotten.
NeededWithoutReserve(amount) == amount

Needed(amount) == amount + Reserve

\* The prompt to confirm is shown once the balance will do.
TransferLooks(s, amount) ==
  /\ balance[key] >= Needed(amount)
  /\ Looks(s, "confirm", amount)
  /\ UNCHANGED <<key, registered, balance, pool, accepted, paid, overtaken, dear, loose,
                 excused>>

TransferCancelled(s) ==
  /\ session[s].pc = "confirm"
  /\ Ends(s)
  /\ UNCHANGED <<key, registered, balance, pool, accepted, paid, commands, excused>>

Registering(s) == session[s].pc \in {"body", "send"} \/ session[s].body # NoKey

Others(s) == {t \in Sessions \ {s} : Registering(t)}

\* register answers at once when the flag is set; --force goes on.
RegisterLooks(s) == \E force \in BOOLEAN :
  /\ force \/ ~ registered
  /\ balance[key] >= RegMin
  /\ Looks(s, "body", RegAmount)
  /\ loose' = IF force \/ Others(s) # {} THEN loose \cup {s} \cup Others(s) ELSE loose
  /\ UNCHANGED <<key, registered, balance, pool, accepted, paid, overtaken, dear,
                 excused>>

\* Keys some registration on its way names, or one that was accepted.
Tried == {m.body : m \in pool \cup accepted} \cup {session[t].body : t \in Sessions}

\* Mutant: the message does not say which provider it is of.
NamesNoKey == NoKey

\* The comment of the registration: the public key of the config.
NamedKey == key

RegisterNames(s) ==
  /\ session[s].pc = "body"
  /\ Goes(s, "send", NamedKey)
  /\ excused' = IF s \in loose THEN excused \cup ({key} \cap Tried) ELSE excused
  /\ UNCHANGED <<key, registered, balance, pool, accepted, paid, commands, overtaken,
                 dear, loose>>

-----------------------------------------------------------------------------
(* send_and_wait *)

Message(s) ==
  [id |-> session[s].id, from |-> key, amount |-> session[s].amount, body |-> session[s].body]

\* A transfer is confirmed, or a registration has its comment. The wallet is built of
\* the key the config has by now.
Send(s) ==
  /\ session[s].pc \in {"confirm", "send"}
  /\ Goes(s, "wait", session[s].body)
  /\ pool' = pool \cup {Message(s)}
  /\ UNCHANGED <<key, registered, balance, accepted, paid, commands, overtaken, dear,
                 loose, excused>>

Sent(s, messages) == {m \in messages : m.id = session[s].id}

\* Mutant: a registration that was found does not set the flag.
FlagForgotten(s) == registered

FlagAfter(s) == registered \/ session[s].body # NoKey

\* A transaction of the message is found: that it was accepted is all that is looked
\* at.
Found(s) ==
  /\ session[s].pc = "wait"
  /\ Sent(s, accepted) # {}
  /\ registered' = FlagAfter(s)
  /\ Ends(s)
  /\ UNCHANGED <<key, balance, pool, accepted, paid, commands, excused>>

\* The 15 seconds are over, or a request or the console fails, before anything was
\* found. The message may have been accepted, or be accepted yet.
GivesUp(s) ==
  /\ session[s].pc \in {"body", "send", "wait"}
  /\ Ends(s)
  /\ excused' = excused \cup ({m.body : m \in Sent(s, pool \cup accepted)} \ {NoKey})
  /\ UNCHANGED <<key, registered, balance, pool, accepted, paid, commands>>

-----------------------------------------------------------------------------
(* Import, the chain and the daemon *)

\* The flag is cleared, also where the key was registered once before.
Import(k) ==
  /\ key' = k
  /\ registered' = FALSE
  /\ overtaken' = overtaken \cup {s \in Sessions : session[s].pc \in {"confirm", "body", "send"}}
  /\ excused' = excused \cup ({k} \cap Tried)
  /\ UNCHANGED <<balance, pool, accepted, paid, session, commands, dear, loose>>

\* Sessions that looked at wallet k and have another message than m, or none yet.
LookedAt(k, id) == {s \in Sessions : session[s].by = k /\ session[s].id # id}

\* What is left in the pool when the sequence number of wallet k goes up.
NotOf(k) == {m \in pool : m.from # k}

\* What a command leaves for the gas of the balance it requires.
Spare(m) == IF m.body = NoKey THEN Reserve ELSE RegMin - RegAmount

Dear(m, gas) == {s \in Sessions : session[s].id = m.id /\ gas > Spare(m)}

Accept(m) == \E gas \in Gases :
  /\ balance[m.from] >= gas
  /\ IF balance[m.from] >= m.amount + gas
     THEN /\ balance' = [balance EXCEPT ![m.from] = @ - (m.amount + gas)]
          /\ paid' = paid \cup {m}
          /\ dear' = dear
     ELSE /\ balance' = [balance EXCEPT ![m.from] = @ - gas]
          /\ paid' = paid
          /\ dear' = dear \cup Dear(m, gas)
  /\ accepted' = accepted \cup {m}
  /\ pool' = NotOf(m.from)
  /\ overtaken' = overtaken \cup LookedAt(m.from, m.id)
  /\ UNCHANGED <<key, registered, session, commands, loose, excused>>

Expire(m) ==
  /\ pool' = pool \ {m}
  /\ UNCHANGED <<key, registered, balance, accepted, paid, session, commands, overtaken,
                 dear, loose, excused>>

DaemonSpends(k) ==
  /\ \E b \in 0 .. balance[k] - 1 : balance' = [balance EXCEPT ![k] = b]
  /\ pool' = NotOf(k)
  /\ overtaken' = overtaken \cup LookedAt(k, 0)
  /\ UNCHANGED <<key, registered, accepted, paid, session, commands, dear, loose,
                 excused>>

Fund(k) ==
  /\ balance[k] < MaxBalance
  /\ balance' = [balance EXCEPT ![k] = MaxBalance]
  /\ UNCHANGED <<key, registered, pool, accepted, paid, session, commands, overtaken,
                 dear, loose, excused>>

-----------------------------------------------------------------------------
Command(s) ==
  \/ \E amount \in Amounts : TransferLooks(s, amount)
  \/ TransferCancelled(s)
  \/ RegisterLooks(s)
  \/ RegisterNames(s)
  \/ Send(s)
  \/ Found(s)
  \/ GivesUp(s)

Next ==
  \/ \E s \in Sessions : Command(s)
  \/ \E k \in Keys : Import(k)
  \/ \E m \in pool : Accept(m)
  \/ \E m \in pool : Expire(m)
  \/ \E k \in Keys : DaemonSpends(k)
  \/ \E k \in Keys : Fund(k)

Spec == Init /\ [][Next]_vars

-----------------------------------------------------------------------------
(* Properties *)

\* A message that was accepted, which is all send_and_wait looks at before a command
\* says "transferred" or "registered", has paid, with two exceptions: the wallet was
\* spent from or another key was imported after the balance was looked at, be it while
\* the operator made up his mind at the prompt; or the chain took more for the message
\* than the command had left for it. No interleaving of consoles, daemon and chain
\* adds a third.
AcceptedIsPaid ==
  \A s \in Sessions \ (overtaken \cup dear) :
    session[s].pc = "wait" => Sent(s, accepted) \subseteq paid

\* No provider pays twice to be registered, unless told to with --force, from two
\* consoles at once, after an attempt that was given up while its message could still
\* land, or after the key was imported again.
PaidOnce ==
  \A m, n \in paid : m.body = n.body /\ m # n => m.body \in excused \cup {NoKey}

\* The commands are Requests to the chain: each is accepted at most once, whoever still
\* waits for it, and the flag is set by a command whose message was accepted only.
NumbersOf(messages) == {m.id : m \in messages}

Asked == INSTANCE Requests
      WITH Clients <- Sessions, Numbers <- 1 .. MaxCommands, None <- 0,
           open <- [s \in Sessions |-> session[s].id],
           flying <- NumbersOf(pool), done <- NumbersOf(accepted), flag <- registered

ImplementsRequests == Asked!Spec
=============================================================================
