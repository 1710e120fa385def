------------------------------- MODULE Requests -------------------------------
(***************************************************************************)
(* What a command of the wallet is to the chain: a request that is sent    *)
(* once, and may be carried out at any time after, also when nobody waits  *)
(* for it any more, or never; and at most once. A client that has seen its *)
(* request carried out may set the flag, and nobody else does.             *)
(***************************************************************************)

CONSTANTS Clients, Numbers, None

VARIABLES
  open,    \* the request each client is about, from before it is sent
  flying,  \* requests sent that may yet be carried out
  done,    \* requests carried out
  flag

vars == <<open, flying, done, flag>>

Init ==
  /\ open = [c \in Clients |-> None]
  /\ flying = {} /\ done = {}
  /\ flag = FALSE

Used == flying \cup done \cup {open[c] : c \in Clients}

Open(c) ==
  /\ open[c] = None
  /\ \E n \in Numbers \ Used : open' = [open EXCEPT ![c] = n]
  /\ UNCHANGED <<flying, done, flag>>

Send(c) ==
  /\ open[c] \notin flying \cup done \cup {None}
  /\ flying' = flying \cup {open[c]}
  /\ UNCHANGED <<open, done, flag>>

CarryOut(n) ==
  /\ n \in flying \ done
  /\ done' = done \cup {n}
  /\ flying' \in SUBSET (flying \ {n})
  /\ UNCHANGED <<open, flag>>

Lose ==
  /\ flying' \in SUBSET flying
  /\ UNCHANGED <<open, done, flag>>

Closes(c) ==
  /\ open[c] # None
  /\ open' = [open EXCEPT ![c] = None]
  /\ UNCHANGED <<flying, done>>

\* Whether it was carried out or will be, nobody knows.
GiveUp(c) == Closes(c) /\ UNCHANGED flag

Succeed(c) ==
  /\ open[c] \in done
  /\ Closes(c)
  /\ flag' \in {flag, TRUE}

ClearFlag ==
  /\ flag' = FALSE
  /\ UNCHANGED <<open, flying, done>>

Next ==
  \/ \E c \in Clients : Open(c) \/ Send(c) \/ GiveUp(c) \/ Succeed(c)
  \/ \E n \in Numbers : CarryOut(n)
  \/ Lose \/ ClearFlag

Spec == Init /\ [][Next]_vars
=============================================================================
