------------------------------ MODULE LazyToken ------------------------------
(***************************************************************************)
(* What the token half of BotAccountsStorage promises, without the calls   *)
(* that use it: one register per bot, initialised lazily by whoever found  *)
(* it empty.  A caller that misses becomes an initialiser; only an         *)
(* initialiser may write, once, and when the register is full nobody can   *)
(* become an initialiser any more.  Several initialisers may coexist:      *)
(* the code takes no lock between the miss and the write.                  *)
(***************************************************************************)
CONSTANTS Threads, Accounts, Token, NoToken

VARIABLES
  register,     \* register[b]: the token kept for bot b, or NoToken
  initialisers  \* initialisers[b]: the threads that missed and still may write

vars == <<register, initialisers>>

Init ==
  /\ register = [b \in Accounts |-> NoToken]
  /\ initialisers = [b \in Accounts |-> {}]

Miss(t, b) ==
  /\ register[b] = NoToken
  /\ initialisers' = [initialisers EXCEPT ![b] = @ \union {t}]
  /\ UNCHANGED register

Fill(t, b, token) ==
  /\ t \in initialisers[b]
  /\ register' = [register EXCEPT ![b] = token]
  /\ initialisers' = [initialisers EXCEPT ![b] = @ \ {t}]

GiveUp(t, b) ==
  /\ t \in initialisers[b]
  /\ initialisers' = [initialisers EXCEPT ![b] = @ \ {t}]
  /\ UNCHANGED register

Next ==
  \E t \in Threads, b \in Accounts :
    \/ Miss(t, b)
    \/ \E token \in Token : Fill(t, b, token)
    \/ GiveUp(t, b)

Spec == Init /\ [][Next]_vars
=============================================================================
