------------------------ MODULE OneShotConfirmation -------------------------
(***************************************************************************)
(* What the prepare/confirm API promises, without requests, transactions,  *)
(* locks or sessions: a ledger with at most one entry per idempotency key, *)
(* written only by redeeming an offer, and an offer is redeemed at most    *)
(* once and never after it was withdrawn.                                  *)
(***************************************************************************)
CONSTANTS Tokens, Keys, Contents, Nothing

VARIABLES
    terms,     \* the key and content a token was offered for
    offered,   \* the tokens that can still be redeemed
    ledger     \* the content written under each key

Terms == [key : Keys, content : Contents]

Init ==
    /\ terms = [t \in Tokens |-> Nothing]
    /\ offered = {}
    /\ ledger = [k \in Keys |-> Nothing]

\* A token is offered once; offers of the same key may be withdrawn with it.
Offer(t) ==
    /\ terms[t] = Nothing
    /\ \E key \in Keys, content \in Contents :
          terms' = [terms EXCEPT ![t] = [key |-> key, content |-> content]]
    /\ \E withdrawn \in SUBSET {o \in offered : terms[o].key = terms'[t].key} :
          offered' = (offered \ withdrawn) \cup {t}
    /\ UNCHANGED ledger

\* The token is consumed by the step that writes its content; if the content
\* is there already, the entry stays as it is.
Redeem(t) ==
    /\ t \in offered
    /\ ledger[terms[t].key] \in {Nothing, terms[t].content}
    /\ ledger' = [ledger EXCEPT ![terms[t].key] = terms[t].content]
    /\ offered' = offered \ {t}
    /\ UNCHANGED terms

Next == \E t \in Tokens : Offer(t) \/ Redeem(t)

Spec == Init /\ [][Next]_<<terms, offered, ledger>>
=============================================================================
