----------------------------- MODULE RemoteCall -----------------------------
(***************************************************************************)
(* What BotXMethod promises its callers, without pool, token, status codes *)
(* or body: a call that takes effect at the server at most once if it is a *)
(* POST, and any number of times otherwise; that reports success only if   *)
(* it took effect; and whose failure says nothing about it.                *)
(***************************************************************************)
EXTENDS Naturals

CONSTANTS Threads

VARIABLES
  calling,  \* the threads in a call
  posts,    \* posts[t]: is the last call of t a POST?
  effects,  \* effects[t]: how often it took effect, or will when a request
            \* that outlives it comes
  result    \* result[t]: "ok", "error", or "none" before it ends

vars == <<calling, posts, effects, result>>

Init ==
  /\ calling = {}
  /\ posts \in [Threads -> BOOLEAN]
  /\ effects = [t \in Threads |-> 0]
  /\ result = [t \in Threads |-> "none"]

Call(t) ==
  /\ t \notin calling
  /\ calling' = calling \union {t}
  /\ \E post \in BOOLEAN : posts' = [posts EXCEPT ![t] = post]
  /\ effects' = [effects EXCEPT ![t] = 0]
  /\ result' = [result EXCEPT ![t] = "none"]

TakeEffect(t) ==
  /\ t \in calling
  /\ posts[t] => effects[t] = 0
  /\ effects' = [effects EXCEPT ![t] = @ + 1]
  /\ UNCHANGED <<calling, posts, result>>

Return(t, r) ==
  /\ t \in calling
  /\ r = "ok" => effects[t] > 0
  /\ calling' = calling \ {t}
  /\ result' = [result EXCEPT ![t] = r]
  /\ UNCHANGED <<posts, effects>>

Next ==
  \E t \in Threads : Call(t) \/ TakeEffect(t) \/ \E r \in {"ok", "error"} : Return(t, r)

Spec == Init /\ [][Next]_vars
=============================================================================
