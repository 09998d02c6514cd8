---------------------------- MODULE SessionChain ----------------------------
(***************************************************************************)
(* What the refresh tokens of one learner promise, with every request,    *)
(* cache and transaction left out.  A sign-in opens a chain of tokens; at *)
(* any moment the chain has at most one token that can be spent, its head; *)
(* spending it moves the head to a token never used before; a chain that  *)
(* is closed (sign-out, revocation) never has a head again.                *)
(***************************************************************************)
CONSTANTS Tokens,     \* every token the server ever issues
          NoToken     \* no token: the chain is not open, or closed
VARIABLES head,       \* the spendable token of the chain a sign-in opened
          used        \* tokens that are, or were, the head of a chain

Chains == Tokens      \* a chain is named by the token of its sign-in

ChainInit == head = [c \in Chains |-> NoToken] /\ used = {}

(* A sign-in: the fresh token is the head of the chain it names. *)
Open(c) ==
    /\ c \notin used
    /\ head' = [head EXCEPT ![c] = c]
    /\ used' = used \cup {c}

(* A rotation: the head is spent and a token never used before replaces it. *)
Rotate(c, t) ==
    /\ head[c] # NoToken /\ t \notin used
    /\ head' = [head EXCEPT ![c] = t]
    /\ used' = used \cup {t}

(* A revocation: some of the chains lose their head, for good. *)
Close(S) ==
    /\ S # {} /\ \A c \in S : head[c] # NoToken
    /\ head' = [c \in Chains |-> IF c \in S THEN NoToken ELSE head[c]]
    /\ UNCHANGED used

ChainNext ==
    \/ \E c \in Chains : Open(c)
    \/ \E c \in Chains, t \in Tokens : Rotate(c, t)
    \/ \E S \in SUBSET Chains : Close(S)

ChainSpec == ChainInit /\ [][ChainNext]_<<head, used>>
=============================================================================
