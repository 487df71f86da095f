----------------------------- MODULE OncePerKey -----------------------------
(***************************************************************************)
(* What an idempotency key promises its clients, whatever the store and    *)
(* the executor do underneath: a key is bound to the first payload hash it *)
(* is used with, it yields one response, and every client that is answered *)
(* presented that hash and receives that response.                         *)
(***************************************************************************)
CONSTANTS
  Clients,    \* clients; each retries one request
  Keys,       \* idempotency keys (a scope and a key)
  Hashes,     \* payload hashes
  Responses,  \* responses an execution can produce
  KeyOf,      \* the key of each client's request
  HashOf,     \* the payload hash of each client's request
  None        \* no hash, no response

VARIABLES
  bound,      \* the hash each key is bound to, or None
  value,      \* the response each key yields, or None
  replies     \* the answers delivered: [to: Clients, response: Responses]

vars == <<bound, value, replies>>

Init ==
  /\ bound = [k \in Keys |-> None]
  /\ value = [k \in Keys |-> None]
  /\ replies = {}

\* A first use binds the key to the hash of its payload.
Bind(k, h) ==
  /\ bound[k] = None
  /\ bound' = [bound EXCEPT ![k] = h]
  /\ UNCHANGED <<value, replies>>

\* A client is answered: the key is, or becomes, bound to its hash, and it
\* yields, or from now on yields, the response the client receives.
Answer(r) ==
  LET k == KeyOf[r.to]
      h == HashOf[r.to]
  IN  /\ bound[k] \in {None, h}
      /\ value[k] \in {None, r.response}
      /\ bound' = [bound EXCEPT ![k] = h]
      /\ value' = [value EXCEPT ![k] = r.response]
      /\ replies' = replies \cup {r}

Next ==
  \/ \E k \in Keys, h \in Hashes : Bind(k, h)
  \/ \E r \in replies' : Answer(r)

Spec == Init /\ [][Next]_vars
=============================================================================
